--------------------------- MODULE SlackSyncProofs ---------------------------
(***************************************************************************)
(* Proofs about SlackSync, for any instances, messages, docs, fault kinds   *)
(* and bounds.                                                             *)
(***************************************************************************)
EXTENDS SlackSync, DataLemmas, TLAPS

-----------------------------------------------------------------------------
(* Type correctness *)

\* Between two calls a request remembers positions of lists that other instances
\* change; they stay inside those lists.
RequestShape(r) ==
    /\ r.pc # "idle" => r.route # <<>>
    /\ \A x \in r.left : x.route # <<>>
    /\ r.pc = "read" => r.nread < Len(r.route)
    /\ r.pc = "insert" => r.end <= Len(docs[Last(r.route)].text)

Shape == \A i \in Instances : RequestShape(req[i])

TypeInv == TypeOK /\ Shape

LEMMA RequestStep ==
    ASSUME req \in [Instances -> Request], NEW i \in Instances,
           NEW r \in Request, Become(i, r)
    PROVE  /\ req' \in [Instances -> Request]
           /\ req'[i] = r
           /\ \A j \in Instances \ {i} : req'[j] = req[j]
  BY DEF Become

LEMMA IdleType == Idle \in Request
  BY DEF Idle, Request

\* A doc list that is not empty has a last doc.
LEMMA TargetType ==
    ASSUME TypeInv, NEW i \in Instances, req[i].pc # "idle"
    PROVE  Target(i) \in DocIds /\ docs[Target(i)] \in Doc
<1>1. req[i].route \in Seq(DocIds) /\ req[i].route # <<>>
  BY DEF TypeInv, TypeOK, Shape, RequestShape, Request
<1>2. Last(req[i].route) \in DocIds
  BY <1>1 DEF Last
<1> QED
  BY <1>2 DEF Target, TypeInv, TypeOK

\* A text with a block more, wherever it was inserted.
LEMMA WrittenSpliced ==
    ASSUME NEW text \in Seq(Messages \X Nat), NEW k \in 0..Len(text), NEW m \in Messages
    PROVE  /\ Spliced(text, k, Block(m, Chars[m])) \in Seq(Messages \X Nat)
           /\ Len(Spliced(text, k, Block(m, Chars[m]))) = Len(text) + Chars[m]
           /\ Written(Spliced(text, k, Block(m, Chars[m]))) = Written(text) \cup {m}
<1> DEFINE C == Messages \X Nat
           t == Spliced(text, k, Block(m, Chars[m]))
<1>1. \A n \in Messages : Chars[n] \in Nat
  BY InputsAssumption
<1>2. text \in Seq(C) /\ Block(m, Chars[m]) \in Seq(C)
  BY <1>1, BlockType
<1> HIDE DEF C
<1>3. t \in Seq(C) /\ Len(t) = Len(text) + Chars[m]
  BY <1>1, <1>2, SplicedPositions
<1>4. m \in Written(t)
  BY <1>1, <1>2, SplicedGains DEF Written
<1>5. ASSUME NEW n \in Messages, Holds(text, n, Chars[n])
      PROVE  Holds(t, n, Chars[n])
  BY <1>1, <1>2, <1>5, SplicedKeeps
<1>6. ASSUME NEW n \in Messages, n # m, Holds(t, n, Chars[n])
      PROVE  Holds(text, n, Chars[n])
  BY <1>1, <1>2, <1>6, SplicedAddsNoOther
<1>7. Written(t) = Written(text) \cup {m}
  BY <1>4, <1>5, <1>6 DEF Written
<1> QED
  BY <1>3, <1>7 DEF C, t

\* Writing a block gives docs again, in which no block is lost and none gets shorter.
LEMMA WriteStep ==
    ASSUME docs \in [DocIds -> Doc], NEW d \in DocIds,
           NEW k \in 0..Len(docs[d].text), NEW m \in Messages, Write(d, k, m)
    PROVE  /\ docs' \in [DocIds -> Doc]
           /\ docs'[d].text = Spliced(docs[d].text, k, Block(m, Chars[m]))
           /\ Written(docs'[d].text) = Written(docs[d].text) \cup {m}
           /\ \A e \in DocIds \ {d} : docs'[e] = docs[e]
           /\ \A e \in DocIds : Len(docs[e].text) <= Len(docs'[e].text)
           /\ InDocs' = InDocs \cup {m}
<1>1. PICK text : text = docs[d].text
  OBVIOUS
<1>2. text \in Seq(Messages \X Nat) /\ docs[d].bytes \in Nat
  BY <1>1 DEF Doc
<1>3. PICK t : t = Spliced(text, k, Block(m, Chars[m]))
  OBVIOUS
<1>4. /\ t \in Seq(Messages \X Nat)
      /\ Len(t) = Len(text) + Chars[m]
      /\ Written(t) = Written(text) \cup {m}
  <2>1. k \in 0..Len(text)
    BY <1>1
  <2> QED
    BY <1>2, <1>3, <2>1, WrittenSpliced
<1>5. Size[m] \in Nat /\ Chars[m] \in Nat
  BY InputsAssumption
<1>6. PICK new \in Doc : new = [text |-> t, bytes |-> docs[d].bytes + Size[m]]
  <2>1. PICK C : C = Messages \X Nat
    OBVIOUS
  <2>2. t \in Seq(C) /\ docs[d].bytes + Size[m] \in Nat /\ Doc = [text : Seq(C), bytes : Nat]
    BY <1>2, <1>4, <1>5, <2>1 DEF Doc
  <2> QED
    BY <2>2
<1>7. docs' = [docs EXCEPT ![d] = new]
  BY <1>1, <1>3, <1>6 DEF Write
<1>8. docs' \in [DocIds -> Doc]
  BY <1>7
<1>9. docs'[d] = new /\ \A e \in DocIds \ {d} : docs'[e] = docs[e]
  BY <1>7
<1>10. docs'[d].text = t
  BY <1>6, <1>9
<1>11. \A e \in DocIds : Len(docs[e].text) <= Len(docs'[e].text)
  <2>1. \A e \in DocIds : Len(docs[e].text) \in Nat
    BY DEF Doc
  <2>2. Len(text) <= Len(t)
    BY <1>1, <1>4, <1>5, <2>1
  <2> QED
    BY <1>1, <1>9, <1>10, <2>1, <2>2
<1>12. InDocs' = InDocs \cup {m}
  <2>1. Written(docs'[d].text) = Written(docs[d].text) \cup {m}
    BY <1>1, <1>4, <1>10
  <2>2. \A e \in DocIds \ {d} : Written(docs'[e].text) = Written(docs[e].text)
    BY <1>9
  <2> QED
    BY <2>1, <2>2, Zenon DEF InDocs
<1> QED
  BY <1>1, <1>3, <1>4, <1>8, <1>9, <1>10, <1>11, <1>12

LEMMA FaultType ==
    ASSUME faults \in 0..MaxFaults, NEW k, Fault(k)
    PROVE  faults' \in 0..MaxFaults
  BY BoundsAssumption DEF Fault

LEMMA LoadType ==
    ASSUME TypeOK, NEW i \in Instances, NEW m, LoadMapping(i, m)
    PROVE  /\ m \in Lists
           /\ mapCache' \in [Instances -> MapEntry]
           /\ faults' \in 0..MaxFaults
<1>1. mapping \in Lists /\ mapCache[i] \in MapEntry
  BY DEF TypeOK
<1>2. [lists |-> mapping, fresh |-> TRUE] \in MapEntry
  BY <1>1 DEF MapEntry
<1>3. mapCache[i].lists \in Lists
  BY <1>1 DEF MapEntry
<1>4. mapCache \in [Instances -> MapEntry] /\ faults \in 0..MaxFaults
  BY DEF TypeOK
<1>5. Fault("mapping") => faults' \in 0..MaxFaults
  BY <1>4, FaultType
<1> QED
  BY <1>1, <1>2, <1>3, <1>4, <1>5 DEF LoadMapping

LEMMA StopsType ==
    ASSUME NEW m \in Lists, NEW channels \in SUBSET Channels
    PROVE  /\ Stops(channels, m) \in SUBSET Stop
           /\ \A x \in Stops(channels, m) : x.route # <<>>
  BY DEF Stops, Stop, Lists

DocsGrow ==
    /\ docs' \in [DocIds -> Doc]
    /\ \A d \in DocIds : Len(docs[d].text) <= Len(docs'[d].text)

LEMMA SameDocsGrow ==
    ASSUME docs \in [DocIds -> Doc], docs' = docs
    PROVE  DocsGrow
<1>1. \A d \in DocIds : Len(docs[d].text) \in Nat
  BY DEF Doc
<1> QED
  BY <1>1 DEF DocsGrow

\* One request moves on while the docs only grow: the others keep their shape.
LEMMA ShapeStep ==
    ASSUME TypeInv, DocsGrow, NEW i \in Instances, NEW r \in Request,
           Become(i, r), RequestShape(r)'
    PROVE  req' \in [Instances -> Request] /\ Shape'
<1>1. /\ req' \in [Instances -> Request]
      /\ req'[i] = r
      /\ \A j \in Instances \ {i} : req'[j] = req[j]
  BY RequestStep DEF TypeInv, TypeOK
<1>2. ASSUME NEW j \in Instances \ {i}
      PROVE  RequestShape(req[j])'
  <2>1. req'[j] = req[j] /\ req[j] \in Request /\ RequestShape(req[j])
    BY <1>1 DEF TypeInv, TypeOK, Shape
  <2>2. CASE req[j].pc # "insert"
    BY <2>1, <2>2 DEF RequestShape
  <2>3. CASE req[j].pc = "insert"
    <3>1. Last(req[j].route) \in DocIds
      BY <2>3, TargetType DEF Target
    <3>2. \A d \in DocIds : Len(docs[d].text) \in Nat /\ Len(docs'[d].text) \in Nat
      BY DEF DocsGrow, Doc, TypeInv, TypeOK
    <3>3. \A d \in DocIds : Len(docs[d].text) <= Len(docs'[d].text)
      BY DEF DocsGrow
    <3>4. req[j].end \in Nat
      BY <2>1 DEF Request
    <3> QED
      BY <2>1, <2>3, <3>1, <3>2, <3>3, <3>4 DEF RequestShape
  <2> QED
    BY <2>2, <2>3
<1>3. RequestShape(req[i])'
  BY <1>1 DEF RequestShape
<1> QED
  BY <1>1, <1>2, <1>3 DEF Shape

LEMMA RequestFacts ==
    ASSUME TypeInv, NEW i \in Instances
    PROVE  req[i] \in Request /\ RequestShape(req[i])
  BY DEF TypeInv, TypeOK, Shape

LEMMA IdleShape == RequestShape(Idle)'
  BY DEF RequestShape, Idle

\* The steps of a request that leave every doc as it is.
LEMMA QuietStep ==
    ASSUME TypeInv, NEW i \in Instances, NEW r \in Request, Become(i, r),
           RequestShape(r)', docs' = docs
    PROVE  docs' \in [DocIds -> Doc] /\ req' \in [Instances -> Request] /\ Shape'
<1>1. docs \in [DocIds -> Doc]
  BY DEF TypeInv, TypeOK
<1>2. DocsGrow
  BY <1>1, SameDocsGrow
<1> QED
  BY <1>1, <1>2, ShapeStep

\* The next channel of a request, or none, is a request in its place.
LEMMA NextRequest ==
    ASSUME TypeInv, NEW i \in Instances, NEW q \in Request,
           \A x \in q.left : x.route # <<>>, NextChannel(i, q)
    PROVE  \E r \in Request :
              /\ Become(i, r) /\ RequestShape(r)'
              /\ r.pc \in {"idle", "read"} /\ r.seen = {}
<1>1. CASE Become(i, Idle)
  <2>1. Idle.pc = "idle" /\ Idle.seen = {}
    BY DEF Idle
  <2> QED
    BY <1>1, <2>1, IdleType, IdleShape
<1>2. CASE \E x \in q.left :
             Become(i, [Idle EXCEPT !.pc = "read", !.kind = q.kind, !.oldest = q.oldest,
                                    !.chan = x.chan, !.route = x.route,
                                    !.left = q.left \ {x}])
  <2>1. PICK x \in q.left :
          Become(i, [Idle EXCEPT !.pc = "read", !.kind = q.kind, !.oldest = q.oldest,
                                 !.chan = x.chan, !.route = x.route,
                                 !.left = q.left \ {x}])
    BY <1>2
  <2> DEFINE r == [Idle EXCEPT !.pc = "read", !.kind = q.kind, !.oldest = q.oldest,
                               !.chan = x.chan, !.route = x.route,
                               !.left = q.left \ {x}]
  <2>2. x \in Stop /\ x.route # <<>> /\ q.left \ {x} \in SUBSET Stop
    BY DEF Request
  <2>3. r \in Request
    BY <2>2, IdleType DEF Idle, Request, Stop
  <2>4. /\ r.pc = "read" /\ r.seen = {} /\ r.nread = 0
        /\ r.route = x.route /\ r.left = q.left \ {x}
    BY DEF Idle
  <2>5. x.route \in Seq(DocIds)
    BY <2>2 DEF Stop
  <2>6. Become(i, r)
    BY <2>1
  <2> HIDE DEF r
  <2>7. RequestShape(r)'
    BY <2>2, <2>4, <2>5 DEF RequestShape
  <2> QED
    BY <2>3, <2>4, <2>6, <2>7
<1> QED
  BY <1>1, <1>2 DEF NextChannel

LEMMA NextChannelStep ==
    ASSUME TypeInv, NEW i \in Instances, NEW q \in Request,
           \A x \in q.left : x.route # <<>>, NextChannel(i, q), docs' = docs
    PROVE  req' \in [Instances -> Request] /\ Shape'
<1>1. PICK r \in Request : Become(i, r) /\ RequestShape(r)'
  BY NextRequest
<1> QED
  BY <1>1, QuietStep

LEMMA StartBackfillType ==
    ASSUME TypeInv, NEW i \in Instances, StartBackfill(i)
    PROVE  TypeInv'
<1>1. PICK m \in {mapping, mapCache[i].lists}, oldest \in OldestArgs,
           wanted \in {{ch} : ch \in Channels} \cup {Channels} :
         /\ LoadMapping(i, m)
         /\ NextChannel(i, [Idle EXCEPT !.kind = "backfill", !.oldest = oldest,
                                        !.left = Stops(wanted, m)])
  BY DEF StartBackfill
<1>2. /\ m \in Lists
      /\ mapCache' \in [Instances -> MapEntry]
      /\ faults' \in 0..MaxFaults
  BY <1>1, LoadType DEF TypeInv
<1>3. wanted \in SUBSET Channels /\ oldest \in Nat
  BY InputsAssumption
<1>4. PICK stops \in SUBSET Stop :
        stops = Stops(wanted, m) /\ \A x \in stops : x.route # <<>>
  BY <1>2, <1>3, StopsType
<1> DEFINE q == [Idle EXCEPT !.kind = "backfill", !.oldest = oldest, !.left = stops]
<1>5. q \in Request /\ q.left = stops
  BY <1>3, IdleType DEF Idle, Request
<1>6. NextChannel(i, q)
  BY <1>1, <1>4
<1> HIDE DEF q
<1>7. docs' = docs /\ backfills' \in 0..MaxBackfills
  BY BoundsAssumption DEF StartBackfill, TypeInv, TypeOK, store
<1>8. req' \in [Instances -> Request] /\ Shape'
  BY <1>4, <1>5, <1>6, <1>7, NextChannelStep
<1> QED
  BY <1>2, <1>7, <1>8 DEF StartBackfill, TypeInv, TypeOK, store

LEMMA StartDrainType ==
    ASSUME TypeInv, NEW i \in Instances, StartDrain(i)
    PROVE  TypeInv'
<1> DEFINE waiting == {Channel[p.msg] : p \in pending}
<1>1. PICK m \in {mapping, mapCache[i].lists} :
         /\ LoadMapping(i, m)
         /\ NextChannel(i, [Idle EXCEPT !.kind = "drain", !.left = Stops(waiting, m)])
  BY DEF StartDrain
<1>2. /\ m \in Lists
      /\ mapCache' \in [Instances -> MapEntry]
      /\ faults' \in 0..MaxFaults
  BY <1>1, LoadType DEF TypeInv
<1>3. waiting \in SUBSET Channels
  <2>1. \A p \in pending : p.msg \in Messages
    BY DEF TypeInv, TypeOK, Item
  <2>2. Channel \in [Messages -> Channels]
    BY InputsAssumption
  <2> QED
    BY <2>1, <2>2
<1> HIDE DEF waiting
<1>4. PICK stops \in SUBSET Stop :
        stops = Stops(waiting, m) /\ \A x \in stops : x.route # <<>>
  BY <1>2, <1>3, StopsType
<1> DEFINE q == [Idle EXCEPT !.kind = "drain", !.left = stops]
<1>5. q \in Request /\ q.left = stops
  BY IdleType DEF Idle, Request
<1>6. NextChannel(i, q) /\ docs' = docs
  BY <1>1, <1>4 DEF StartDrain, store
<1> HIDE DEF q
<1>7. req' \in [Instances -> Request] /\ Shape'
  BY <1>4, <1>5, <1>6, NextChannelStep
<1> QED
  BY <1>2, <1>7 DEF StartDrain, TypeInv, TypeOK, store, world

LEMMA StartWebhookType ==
    ASSUME TypeInv, NEW i \in Instances, NEW m \in Live, StartWebhook(i, m)
    PROVE  TypeInv'
<1> DEFINE entry == webCache[i][Channel[m]]
           begun(route) == [Idle EXCEPT !.kind = "webhook", !.chan = Channel[m],
                                        !.route = route, !.fetched = {m},
                                        !.todo = {[at |-> 0, msg |-> m]}]
           r(route) == IF route = <<>> THEN Idle
                       ELSE IF entry.route = route
                       THEN [begun(route) EXCEPT !.pc = "loop", !.seen = entry.seen,
                                                 !.bytes = entry.bytes]
                       ELSE [begun(route) EXCEPT !.pc = "read"]
<1>1. PICK lists \in {mapping, mapCache[i].lists} :
         LoadMapping(i, lists) /\ Become(i, r(lists[Channel[m]]))
  BY DEF StartWebhook
<1>3. m \in Messages /\ Channel[m] \in Channels /\ [at |-> 0, msg |-> m] \in Item
  BY InputsAssumption DEF Item
<1>2. PICK route \in Seq(DocIds) :
      /\ route = lists[Channel[m]]
      /\ mapCache' \in [Instances -> MapEntry]
      /\ faults' \in 0..MaxFaults
  BY <1>1, <1>3, LoadType DEF TypeInv, Lists
<1>4. entry.seen \in SUBSET Messages /\ entry.bytes \in Nat
  BY <1>3 DEF TypeInv, TypeOK, WebEntry
<1> HIDE DEF entry
<1>5. r(route) \in Request
  <2>1. begun(route) \in Request
    BY <1>2, <1>3 DEF Idle, Request
  <2> HIDE DEF begun
  <2>2. [begun(route) EXCEPT !.pc = "read"] \in Request
    BY <2>1 DEF Request
  <2>3. [begun(route) EXCEPT !.pc = "loop", !.seen = entry.seen,
                             !.bytes = entry.bytes] \in Request
    BY <2>1, <1>4 DEF Request
  <2> QED
    BY <2>2, <2>3, IdleType
<1>6. PICK q \in Request : q = r(route)
  BY <1>5
<1>7. RequestShape(q)'
  <2>1. q.pc \in {"idle", "read", "loop"} /\ (q.pc = "read" => q.nread = 0)
        /\ (q.pc # "idle" => q.route = route /\ route # <<>>) /\ q.left = {}
    BY <1>6 DEF Idle
  <2> QED
    BY <1>2, <2>1 DEF RequestShape
<1>8. Become(i, q) /\ docs' = docs
  BY <1>1, <1>2, <1>6 DEF StartWebhook, store
<1>9. req' \in [Instances -> Request] /\ Shape'
  BY <1>7, <1>8, QuietStep
<1> QED
  BY <1>2, <1>9 DEF StartWebhook, TypeInv, TypeOK, store

LEMMA ReadDocType ==
    ASSUME TypeInv, NEW i \in Instances, ReadDoc(i)
    PROVE  TypeInv'
<1>1. PICK q \in Request : q = req[i]
  BY RequestFacts
<1> DEFINE doc  == docs[q.route[q.nread + 1]]
           last == q.nread + 1 = Len(q.route)
<1> HIDE DEF doc, last
<1>2. /\ RequestShape(q) /\ q.pc = "read"
      /\ q.route \in Seq(DocIds) /\ q.route # <<>>
      /\ q.nread \in Nat /\ Len(q.route) \in Nat /\ q.nread < Len(q.route)
  <2>1. q.pc = "read"
    BY <1>1 DEF ReadDoc
  <2>2. q.route \in Seq(DocIds) /\ q.nread \in Nat
    BY DEF Request
  <2>3. RequestShape(q)
    BY <1>1, RequestFacts
  <2> QED
    BY <2>1, <2>2, <2>3 DEF RequestShape
<1>3. doc \in Doc
  <2>1. q.route[q.nread + 1] \in DocIds
    BY <1>2
  <2> QED
    BY <2>1 DEF TypeInv, TypeOK, doc
<1>4. PICK seen, bytes :
         /\ \/ /\ seen = q.seen \cup Legible(doc.text)
               /\ bytes = q.bytes + doc.bytes
               /\ UNCHANGED faults
            \/ /\ seen = q.seen
               /\ bytes = q.bytes
               /\ Fault("read")
         /\ Become(i, [q EXCEPT !.nread = @ + 1, !.seen = seen, !.bytes = bytes,
                                !.pc = IF last THEN AfterRead(q.kind) ELSE "read"])
         /\ webCache' = IF last /\ q.kind = "webhook"
                        THEN [webCache EXCEPT ![i][q.chan] =
                                [route |-> q.route, seen |-> seen, bytes |-> bytes]]
                        ELSE webCache
  BY <1>1 DEF ReadDoc, doc, last
<1>5. seen \in SUBSET Messages /\ bytes \in Nat
  <2>1. q.seen \in SUBSET Messages /\ q.bytes \in Nat
    BY DEF Request
  <2>2. doc.bytes \in Nat
    BY <1>3 DEF Doc
  <2>3. Legible(doc.text) \in SUBSET Messages
    BY DEF Legible
  <2> QED
    BY <1>4, <2>1, <2>2, <2>3
<1>6. AfterRead(q.kind) \in {"fetch", "list", "loop"}
  BY DEF AfterRead
<1>7. PICK pc \in {"read", "fetch", "list", "loop"} :
        /\ pc = IF last THEN AfterRead(q.kind) ELSE "read"
        /\ pc = "read" => ~last
  BY <1>6
<1>8. PICK r \in Request : r = [q EXCEPT !.nread = @ + 1, !.seen = seen,
                                         !.bytes = bytes, !.pc = pc]
  <2>1. q.nread + 1 \in Nat
    BY <1>2
  <2>2. [q EXCEPT !.nread = @ + 1, !.seen = seen, !.bytes = bytes, !.pc = pc] \in Request
    BY <2>1, <1>5 DEF Request
  <2> QED
    BY <2>2
<1>9. RequestShape(r)'
  <2>1. r.pc = pc /\ r.nread = q.nread + 1 /\ r.route = q.route /\ r.left = q.left
    BY <1>8 DEF Request
  <2> QED
    BY <1>2, <1>7, <2>1 DEF RequestShape, last
<1>10. Become(i, r) /\ docs' = docs
  BY <1>4, <1>7, <1>8 DEF ReadDoc, store
<1>11. req' \in [Instances -> Request] /\ Shape'
  BY <1>9, <1>10, QuietStep
<1>12. faults' \in 0..MaxFaults
  BY <1>4, FaultType DEF TypeInv, TypeOK
<1>13. webCache' \in [Instances -> [Channels -> WebEntry]]
  <2>1. [route |-> q.route, seen |-> seen, bytes |-> bytes] \in WebEntry
    BY <1>2, <1>5 DEF WebEntry
  <2> QED
    BY <1>4, <2>1 DEF TypeInv, TypeOK
<1> QED
  BY <1>11, <1>12, <1>13 DEF ReadDoc, TypeInv, TypeOK, store, world

\* Changes of a request that keep it inside Request.
LEMMA RequestUpdates ==
    ASSUME NEW q \in Request
    PROVE  /\ \A todo \in SUBSET Item : [q EXCEPT !.todo = todo] \in Request
           /\ \A todo \in SUBSET Item :
                [q EXCEPT !.pc = "loop", !.todo = todo] \in Request
           /\ \A todo \in SUBSET Item, pc \in {"loop", "alert"} :
                [q EXCEPT !.stamp = 0, !.capHit = TRUE, !.todo = todo, !.pc = pc] \in Request
           /\ \A n \in Nat : [q EXCEPT !.pc = "upload", !.stamp = n] \in Request
           /\ \A todo \in SUBSET Item, fetched \in SUBSET Messages :
                [q EXCEPT !.pc = "loop", !.fetched = fetched, !.todo = todo] \in Request
           /\ \A n \in Nat : [q EXCEPT !.pc = "insert", !.end = n] \in Request
           /\ \A seen \in SUBSET Messages, n \in Nat :
                [q EXCEPT !.pc = "delete", !.seen = seen, !.bytes = n] \in Request
           /\ \A seen \in SUBSET Messages, n \in Nat, todo \in SUBSET Item :
                [q EXCEPT !.pc = "loop", !.seen = seen, !.bytes = n, !.todo = todo] \in Request
           /\ [q EXCEPT !.pc = "loop"] \in Request
           /\ q.todo \in SUBSET Item /\ q.seen \in SUBSET Messages /\ q.stamp \in Nat
           /\ q.bytes \in Nat /\ q.route \in Seq(DocIds)
  BY DEF Request

\* A request in progress that goes to one of these points has no position to mind.
LEMMA PlainShape ==
    ASSUME NEW q, q.pc # "idle", RequestShape(q),
           NEW r, r.pc \in {"fetch", "list", "loop", "delete", "upload", "alert"},
           r.route = q.route, r.left = q.left
    PROVE  RequestShape(r)'
  BY DEF RequestShape

LEMMA FetchType ==
    ASSUME TypeInv, NEW i \in Instances, Fetch(i)
    PROVE  TypeInv'
<1>1. PICK q \in Request : q = req[i]
  BY RequestFacts
<1>2. q.pc = "fetch" /\ RequestShape(q) /\ docs' = docs
  BY <1>1, RequestFacts DEF Fetch, store
<1>3. PICK got \in SUBSET {m \in posted : Channel[m] = q.chan /\ m >= q.oldest} :
         /\ UNCHANGED faults \/ Fault("history")
         /\ \/ NextChannel(i, q)
            \/ Become(i, [q EXCEPT !.pc = "loop", !.fetched = got,
                                   !.todo = {[at |-> 0, msg |-> m] : m \in got}])
  BY <1>1 DEF Fetch
<1>4. req' \in [Instances -> Request] /\ Shape'
  <2>1. CASE NextChannel(i, q)
    BY <2>1, <1>2, NextChannelStep DEF RequestShape
  <2>2. CASE Become(i, [q EXCEPT !.pc = "loop", !.fetched = got,
                                 !.todo = {[at |-> 0, msg |-> m] : m \in got}])
    <3>1. got \in SUBSET Messages
      BY DEF TypeInv, TypeOK
    <3>2. {[at |-> 0, msg |-> m] : m \in got} \in SUBSET Item
      BY <3>1 DEF Item
    <3>3. PICK r \in Request :
            r = [q EXCEPT !.pc = "loop", !.fetched = got,
                          !.todo = {[at |-> 0, msg |-> m] : m \in got}]
      BY <3>1, <3>2, RequestUpdates
    <3>4. r.pc = "loop" /\ r.route = q.route /\ r.left = q.left
      BY <3>3 DEF Request
    <3>5. RequestShape(r)'
      BY <1>2, <3>4, PlainShape
    <3> QED
      BY <1>2, <2>2, <3>3, <3>5, QuietStep
  <2> QED
    BY <1>3, <2>1, <2>2
<1>5. faults' \in 0..MaxFaults
  BY <1>3, FaultType DEF TypeInv, TypeOK
<1> QED
  BY <1>4, <1>5 DEF Fetch, TypeInv, TypeOK, store, world

LEMMA ListPendingType ==
    ASSUME TypeInv, NEW i \in Instances, ListPending(i)
    PROVE  TypeInv'
<1>1. PICK q \in Request : q = req[i]
  BY RequestFacts
<1>2. q.pc = "list" /\ RequestShape(q) /\ docs' = docs
  BY <1>1, RequestFacts DEF ListPending, store
<1>3. PICK mine \in SUBSET Item : mine = {p \in pending : Channel[p.msg] = q.chan}
  BY DEF TypeInv, TypeOK
<1>4. PICK r \in Request : r = [q EXCEPT !.pc = "loop", !.todo = mine]
  BY RequestUpdates
<1>5. RequestShape(r)'
  <2>1. r.pc = "loop" /\ r.route = q.route /\ r.left = q.left
    BY <1>4 DEF Request
  <2> QED
    BY <1>2, <2>1, PlainShape
<1>6. \/ Become(i, r) /\ UNCHANGED faults
      \/ Become(i, Idle) /\ Fault("items")
  BY <1>1, <1>3, <1>4 DEF ListPending
<1>7. req' \in [Instances -> Request] /\ Shape'
  BY <1>2, <1>5, <1>6, IdleType, IdleShape, QuietStep
<1>8. faults' \in 0..MaxFaults
  BY <1>6, FaultType DEF TypeInv, TypeOK
<1> QED
  BY <1>7, <1>8 DEF ListPending, TypeInv, TypeOK, store, world

\* SkipDup and SkipUnreadable drop one item and go on.
LEMMA DropStep ==
    ASSUME TypeInv, NEW i \in Instances, NEW it, req[i].pc = "loop", docs' = docs,
           Become(i, [req[i] EXCEPT !.todo = Rest(i, it)])
    PROVE  req' \in [Instances -> Request] /\ Shape'
<1>1. PICK q \in Request : q = req[i]
  BY RequestFacts
<1>2. q.pc = "loop" /\ RequestShape(q)
  BY <1>1, RequestFacts
<1>3. Rest(i, it) \in SUBSET Item
  BY <1>1, RequestUpdates DEF Rest
<1>4. PICK r \in Request : r = [q EXCEPT !.todo = Rest(i, it)]
  BY <1>3, RequestUpdates
<1>5. RequestShape(r)'
  <2>1. r.pc = "loop" /\ r.route = q.route /\ r.left = q.left
    BY <1>1, <1>4 DEF Request
  <2> QED
    BY <1>2, <2>1, PlainShape
<1> QED
  BY <1>1, <1>4, <1>5, QuietStep

LEMMA SkipDupType ==
    ASSUME TypeInv, NEW i \in Instances, SkipDup(i)
    PROVE  TypeInv'
<1>1. PICK it \in req[i].todo : Become(i, [req[i] EXCEPT !.todo = Rest(i, it)])
  BY DEF SkipDup
<1>2. req' \in [Instances -> Request] /\ Shape'
  BY <1>1, DropStep DEF SkipDup, store
<1> QED
  BY <1>2 DEF SkipDup, TypeInv, TypeOK, store, world

LEMMA SkipUnreadableType ==
    ASSUME TypeInv, NEW i \in Instances, SkipUnreadable(i)
    PROVE  TypeInv'
<1>1. PICK it \in req[i].todo :
        /\ UNCHANGED faults \/ Fault("download")
        /\ Become(i, [req[i] EXCEPT !.todo = Rest(i, it)])
  BY DEF SkipUnreadable
<1>2. req' \in [Instances -> Request] /\ Shape'
  BY <1>1, DropStep DEF SkipUnreadable, store
<1>3. faults' \in 0..MaxFaults
  BY <1>1, FaultType DEF TypeInv, TypeOK
<1> QED
  BY <1>2, <1>3 DEF SkipUnreadable, TypeInv, TypeOK, store, world

LEMMA MeasureType ==
    ASSUME TypeInv, NEW i \in Instances, Measure(i)
    PROVE  TypeInv'
<1>1. PICK q \in Request : q = req[i]
  BY RequestFacts
<1>2. /\ q.route # <<>> /\ docs' = docs
      /\ \A x \in q.left : x.route # <<>>
  BY <1>1, RequestFacts DEF Measure, RequestShape, store
<1>3. Len(docs[Last(q.route)].text) \in Nat
  <2>1. docs[Last(q.route)] \in Doc
    BY <1>1, TargetType DEF Measure, Target
  <2> QED
    BY <2>1 DEF Doc
<1>4. PICK n \in Nat : n = Len(docs[Last(q.route)].text)
  BY <1>3
<1>5. PICK r \in Request : r = [q EXCEPT !.pc = "insert", !.end = n]
  BY RequestUpdates
<1>6. RequestShape(r)'
  <2>1. r.pc = "insert" /\ r.route = q.route /\ r.left = q.left /\ r.end = n
    BY <1>5 DEF Request
  <2> QED
    BY <1>2, <1>4, <2>1 DEF RequestShape
<1>7. Become(i, r)
  BY <1>1, <1>4, <1>5 DEF Measure, Target
<1>8. req' \in [Instances -> Request] /\ Shape'
  BY <1>2, <1>6, <1>7, QuietStep
<1> QED
  BY <1>8 DEF Measure, TypeInv, TypeOK, store, world

\* The item a request is at is an item, and its message a message.
LEMMA ItemType ==
    ASSUME TypeInv, NEW i \in Instances, NEW it \in req[i].todo
    PROVE  it \in Item /\ it.msg \in Messages
  BY RequestFacts DEF Request, Item

\* Between its two calls, an append knows a position inside the tail doc.
LEMMA InsertPosition ==
    ASSUME TypeInv, NEW i \in Instances, req[i].pc = "insert"
    PROVE  Target(i) \in DocIds /\ req[i].end \in 0..Len(docs[Target(i)].text)
<1>1. Target(i) \in DocIds /\ docs[Target(i)] \in Doc
  BY TargetType
<1>2. Len(docs[Target(i)].text) \in Nat
  BY <1>1 DEF Doc
<1>3. req[i].end \in Nat /\ req[i].end <= Len(docs[Target(i)].text)
  BY RequestFacts DEF Request, RequestShape, Target
<1> QED
  BY <1>1, <1>2, <1>3

LEMMA InsertType ==
    ASSUME TypeInv, NEW i \in Instances, Insert(i)
    PROVE  TypeInv'
<1>1. PICK q \in Request : q = req[i]
  BY RequestFacts
<1>2. PICK it \in q.todo :
         LET seen == q.seen \cup {it.msg}
             size == q.bytes + Size[it.msg]
         IN  /\ Write(Target(i), q.end, it.msg)
             /\ Become(i, IF q.kind = "drain"
                          THEN [q EXCEPT !.pc = "delete", !.seen = seen, !.bytes = size]
                          ELSE [q EXCEPT !.pc = "loop", !.seen = seen, !.bytes = size,
                                         !.todo = Rest(i, it)])
             /\ webCache' = IF q.kind = "webhook"
                            THEN [webCache EXCEPT ![i][q.chan] =
                                [route |-> q.route, seen |-> seen, bytes |-> size]]
                            ELSE webCache
  BY <1>1 DEF Insert
<1>3. PICK seen \in SUBSET Messages : seen = q.seen \cup {it.msg}
  BY <1>1, ItemType, RequestUpdates
<1>4. PICK size \in Nat : size = q.bytes + Size[it.msg]
  <2>1. q.bytes \in Nat /\ Size[it.msg] \in Nat
    BY <1>1, ItemType, RequestUpdates, InputsAssumption
  <2> QED
    BY <2>1
<1>5. PICK todo \in SUBSET Item : todo = Rest(i, it)
  BY <1>1, RequestUpdates DEF Rest
<1>6. PICK r \in Request :
         r = IF q.kind = "drain"
             THEN [q EXCEPT !.pc = "delete", !.seen = seen, !.bytes = size]
             ELSE [q EXCEPT !.pc = "loop", !.seen = seen, !.bytes = size, !.todo = todo]
  BY RequestUpdates
<1>7. RequestShape(r)'
  <2>1. r.pc \in {"delete", "loop"} /\ r.route = q.route /\ r.left = q.left
    BY <1>6 DEF Request
  <2>2. q.pc = "insert" /\ RequestShape(q)
    BY <1>1, RequestFacts DEF Insert
  <2> QED
    BY <2>1, <2>2, PlainShape
<1>8. Become(i, r)
  BY <1>2, <1>3, <1>4, <1>5, <1>6
<1>9. DocsGrow
  <2>1. Target(i) \in DocIds /\ q.end \in 0..Len(docs[Target(i)].text)
    BY <1>1, InsertPosition DEF Insert
  <2>2. it.msg \in Messages /\ docs \in [DocIds -> Doc]
    BY <1>1, ItemType DEF TypeInv, TypeOK
  <2> QED
    BY <1>2, <2>1, <2>2, WriteStep DEF DocsGrow
<1>10. req' \in [Instances -> Request] /\ Shape'
  BY <1>7, <1>8, <1>9, ShapeStep
<1>11. webCache' \in [Instances -> [Channels -> WebEntry]]
  <2>1. [route |-> q.route, seen |-> seen, bytes |-> size] \in WebEntry
    BY RequestUpdates DEF WebEntry
  <2> QED
    BY <1>2, <1>3, <1>4, <2>1 DEF TypeInv, TypeOK
<1> QED
  BY <1>9, <1>10, <1>11 DEF DocsGrow, Insert, TypeInv, TypeOK, world

LEMMA InsertErrorType ==
    ASSUME TypeInv, NEW i \in Instances, InsertError(i)
    PROVE  TypeInv'
<1>1. PICK q \in Request : q = req[i]
  BY RequestFacts
<1>2. PICK it \in q.todo :
         /\ \/ Fault("append") /\ UNCHANGED docs
            \/ Fault("appendReply") /\ Write(Target(i), q.end, it.msg)
         /\ IF q.kind = "drain"
            THEN Become(i, [q EXCEPT !.pc = "loop", !.todo = Rest(i, it)])
            ELSE NextChannel(i, q)
  BY <1>1 DEF InsertError
<1>3. q.pc = "insert" /\ RequestShape(q)
  BY <1>1, RequestFacts DEF InsertError
<1>4. PICK r \in Request : Become(i, r) /\ RequestShape(r)'
  <2>1. CASE q.kind = "drain"
    <3>1. PICK todo \in SUBSET Item : todo = Rest(i, it)
      BY <1>1, RequestUpdates DEF Rest
    <3>2. PICK r \in Request : r = [q EXCEPT !.pc = "loop", !.todo = todo]
      BY RequestUpdates
    <3>3. r.pc = "loop" /\ r.route = q.route /\ r.left = q.left
      BY <3>2 DEF Request
    <3>4. RequestShape(r)'
      BY <1>3, <3>3, PlainShape
    <3> QED
      BY <1>2, <2>1, <3>1, <3>2, <3>4
  <2>2. CASE q.kind # "drain"
    BY <1>2, <1>3, <2>2, NextRequest DEF RequestShape
  <2> QED
    BY <2>1, <2>2
<1>5. DocsGrow
  <2>1. Target(i) \in DocIds /\ q.end \in 0..Len(docs[Target(i)].text)
    BY <1>1, InsertPosition DEF InsertError
  <2>2. it.msg \in Messages /\ docs \in [DocIds -> Doc]
    BY <1>1, ItemType DEF TypeInv, TypeOK
  <2> QED
    BY <1>2, <2>1, <2>2, WriteStep, SameDocsGrow DEF DocsGrow
<1>6. req' \in [Instances -> Request] /\ Shape'
  BY <1>4, <1>5, ShapeStep
<1>7. faults' \in 0..MaxFaults
  BY <1>2, FaultType DEF TypeInv, TypeOK
<1> QED
  BY <1>5, <1>6, <1>7 DEF DocsGrow, InsertError, TypeInv, TypeOK, world

LEMMA BufferType ==
    ASSUME TypeInv, NEW i \in Instances, Buffer(i)
    PROVE  TypeInv'
<1>1. PICK q \in Request : q = req[i]
  BY RequestFacts
<1>2. PICK dt \in 0..1 :
         /\ now + dt <= MaxClock
         /\ now' = now + dt
         /\ Become(i, [q EXCEPT !.pc = "upload", !.stamp = now + dt])
  BY <1>1 DEF Buffer
<1>3. PICK n \in Nat : n = now + dt /\ n \in 1..MaxClock
  <2>1. now \in Nat /\ now >= 1
    BY DEF TypeInv, TypeOK
  <2> QED
    BY <1>2, <2>1, BoundsAssumption
<1>4. PICK r \in Request : r = [q EXCEPT !.pc = "upload", !.stamp = n]
  BY RequestUpdates
<1>5. RequestShape(r)'
  <2>1. r.pc = "upload" /\ r.route = q.route /\ r.left = q.left
    BY <1>4 DEF Request
  <2>2. q.pc = "loop" /\ RequestShape(q)
    BY <1>1, RequestFacts DEF Buffer
  <2> QED
    BY <2>1, <2>2, PlainShape
<1>6. Become(i, r) /\ docs' = docs /\ now' \in 1..MaxClock
  BY <1>2, <1>3, <1>4 DEF Buffer
<1>7. req' \in [Instances -> Request] /\ Shape'
  BY <1>5, <1>6, QuietStep
<1> QED
  BY <1>6, <1>7 DEF Buffer, TypeInv, TypeOK, world

\* What enqueue was called for leaves the loop.
LEMMA EnqueuedType ==
    ASSUME NEW q \in Request, NEW it
    PROVE  \E todo \in SUBSET Item, pc \in {"loop", "alert"} :
              /\ todo = q.todo \ {it}
              /\ pc = IF q.kind = "backfill" /\ ~q.capHit THEN "alert" ELSE "loop"
              /\ Enqueued(q, it) = [q EXCEPT !.stamp = 0, !.capHit = TRUE,
                                             !.todo = todo, !.pc = pc]
              /\ Enqueued(q, it) \in Request
<1>1. PICK todo \in SUBSET Item : todo = q.todo \ {it}
  BY RequestUpdates
<1>2. PICK pc \in {"loop", "alert"} :
         pc = IF q.kind = "backfill" /\ ~q.capHit THEN "alert" ELSE "loop"
  OBVIOUS
<1>3. Enqueued(q, it) = [q EXCEPT !.stamp = 0, !.capHit = TRUE, !.todo = todo, !.pc = pc]
  BY <1>1, <1>2 DEF Enqueued
<1>4. Enqueued(q, it) \in Request
  <2>1. [q EXCEPT !.stamp = 0, !.capHit = TRUE, !.todo = todo, !.pc = pc] \in Request
    BY RequestUpdates, Zenon
  <2> QED
    BY <1>3, <2>1
<1> QED
  BY <1>1, <1>2, <1>3, <1>4

LEMMA PublishType ==
    ASSUME TypeOK, NEW n \in Nat, NEW m \in Messages, Publish(n, m)
    PROVE  pending' \subseteq Item /\ accepted' \subseteq Messages
<1>1. [at |-> n, msg |-> m] \in Item
  BY DEF Item
<1> QED
  BY <1>1 DEF Publish, TypeOK

LEMMA UploadType ==
    ASSUME TypeInv, NEW i \in Instances, Upload(i)
    PROVE  TypeInv'
<1>1. PICK q \in Request : q = req[i]
  BY RequestFacts
<1>2. PICK it \in q.todo :
         /\ \/ Publish(q.stamp, it.msg) /\ UNCHANGED faults
            \/ Fault("enqueue") /\ UNCHANGED <<pending, accepted>>
         /\ Become(i, Enqueued(q, it))
  BY <1>1 DEF Upload
<1>3. PICK r \in Request : r = Enqueued(q, it)
  BY EnqueuedType
<1>4. RequestShape(r)'
  <2>1. r.pc \in {"loop", "alert"} /\ r.route = q.route /\ r.left = q.left
    <3>1. PICK todo \in SUBSET Item, pc \in {"loop", "alert"} :
            /\ todo = q.todo \ {it}
            /\ pc = IF q.kind = "backfill" /\ ~q.capHit THEN "alert" ELSE "loop"
            /\ Enqueued(q, it) = [q EXCEPT !.stamp = 0, !.capHit = TRUE,
                                           !.todo = todo, !.pc = pc]
            /\ Enqueued(q, it) \in Request
      BY EnqueuedType, Zenon
    <3> QED
      BY <1>3, <3>1 DEF Request
  <2>2. q.pc = "upload" /\ RequestShape(q)
    BY <1>1, RequestFacts DEF Upload
  <2> QED
    BY <2>1, <2>2, PlainShape
<1>5. Become(i, r) /\ docs' = docs
  BY <1>2, <1>3 DEF Upload
<1>6. req' \in [Instances -> Request] /\ Shape'
  BY <1>4, <1>5, QuietStep
<1>7. /\ pending' \subseteq Item
      /\ accepted' \subseteq Messages
      /\ faults' \in 0..MaxFaults
  <2>1. it.msg \in Messages /\ q.stamp \in Nat
    BY <1>1, ItemType, RequestUpdates
  <2> QED
    BY <1>2, <2>1, PublishType, FaultType DEF TypeInv, TypeOK
<1> QED
  BY <1>5, <1>6, <1>7 DEF Upload, TypeInv, TypeOK, world

LEMMA LogType ==
    ASSUME TypeOK, NEW i \in Instances, LogDocFull(i)
    PROVE  alerted' \subseteq Channels
  BY DEF LogDocFull, TypeOK

LEMMA AlertType ==
    ASSUME TypeInv, NEW i \in Instances, Alert(i)
    PROVE  TypeInv'
<1>1. PICK q \in Request : q = req[i]
  BY RequestFacts
<1>2. q.pc = "alert" /\ RequestShape(q) /\ docs' = docs
  BY <1>1, RequestFacts DEF Alert, store
<1>3. /\ Become(i, [q EXCEPT !.pc = "loop"]) \/ NextChannel(i, q)
      /\ UNCHANGED faults \/ Fault("count")
      /\ LogDocFull(i) \/ UNCHANGED alerted
  BY <1>1 DEF Alert
<1>4. req' \in [Instances -> Request] /\ Shape'
  <2>1. CASE NextChannel(i, q)
    BY <2>1, <1>2, NextChannelStep DEF RequestShape
  <2>2. CASE Become(i, [q EXCEPT !.pc = "loop"])
    <3>1. PICK r \in Request : r = [q EXCEPT !.pc = "loop"]
      BY RequestUpdates
    <3>2. r.pc = "loop" /\ r.route = q.route /\ r.left = q.left
      BY <3>1 DEF Request
    <3>3. RequestShape(r)'
      BY <1>2, <3>2, PlainShape
    <3> QED
      BY <1>2, <2>2, <3>1, <3>3, QuietStep
  <2> QED
    BY <1>3, <2>1, <2>2
<1>5. faults' \in 0..MaxFaults /\ alerted' \subseteq Channels
  BY <1>3, FaultType, LogType DEF TypeInv, TypeOK
<1> QED
  BY <1>4, <1>5 DEF Alert, TypeInv, TypeOK, store, world

\* The request ends.
LEMMA EndStep ==
    ASSUME TypeInv, NEW i \in Instances, Become(i, Idle), docs' = docs
    PROVE  req' \in [Instances -> Request] /\ Shape'
  BY IdleType, IdleShape, QuietStep

LEMMA StopDrainType ==
    ASSUME TypeInv, NEW i \in Instances, StopDrain(i)
    PROVE  TypeInv'
<1>1. docs' = docs /\ (NextChannel(i, req[i]) \/ Become(i, Idle))
  BY DEF StopDrain, store
<1>2. req' \in [Instances -> Request] /\ Shape'
  BY <1>1, EndStep, NextChannelStep, RequestFacts DEF RequestShape
<1>3. faults' \in 0..MaxFaults /\ alerted' \subseteq Channels
  BY FaultType, LogType DEF StopDrain, TypeInv, TypeOK
<1> QED
  BY <1>2, <1>3 DEF StopDrain, TypeInv, TypeOK, store, world

LEMMA FinishType ==
    ASSUME TypeInv, NEW i \in Instances, Finish(i)
    PROVE  TypeInv'
<1>1. docs' = docs /\ NextChannel(i, req[i])
  BY DEF Finish, store
<1>2. req' \in [Instances -> Request] /\ Shape'
  BY <1>1, NextChannelStep, RequestFacts DEF RequestShape
<1> QED
  BY <1>2 DEF Finish, TypeInv, TypeOK, store, world

LEMMA CrashType ==
    ASSUME TypeInv, NEW i \in Instances, Crash(i)
    PROVE  TypeInv'
<1>1. req' \in [Instances -> Request] /\ Shape'
  BY EndStep DEF Crash, store
<1>2. NoEntries \in [Channels -> WebEntry] /\ Unloaded \in MapEntry
  BY DEF NoEntries, WebEntry, Unloaded, MapEntry, Lists
<1>3. /\ webCache' \in [Instances -> [Channels -> WebEntry]]
      /\ mapCache' \in [Instances -> MapEntry]
      /\ faults' \in 0..MaxFaults
  BY <1>2, FaultType DEF Crash, TypeInv, TypeOK
<1> QED
  BY <1>1, <1>3 DEF Crash, TypeInv, TypeOK, store, world

LEMMA DeleteType ==
    ASSUME TypeInv, NEW i \in Instances, Delete(i)
    PROVE  TypeInv'
<1>1. PICK q \in Request : q = req[i]
  BY RequestFacts
<1>2. PICK it \in q.todo :
        /\ \/ pending' = pending \ {it} /\ UNCHANGED faults
           \/ Fault("delete") /\ UNCHANGED pending
        /\ Become(i, [q EXCEPT !.pc = "loop", !.todo = Rest(i, it)])
  BY <1>1 DEF Delete
<1>3. PICK todo \in SUBSET Item : todo = Rest(i, it)
  BY <1>1, RequestUpdates DEF Rest
<1>4. PICK r \in Request : r = [q EXCEPT !.pc = "loop", !.todo = todo]
  BY RequestUpdates
<1>5. RequestShape(r)'
  <2>1. r.pc = "loop" /\ r.route = q.route /\ r.left = q.left
    BY <1>4 DEF Request
  <2>2. q.pc = "delete" /\ RequestShape(q)
    BY <1>1, RequestFacts DEF Delete
  <2> QED
    BY <2>1, <2>2, PlainShape
<1>6. Become(i, r) /\ docs' = docs
  BY <1>2, <1>3, <1>4 DEF Delete
<1>7. req' \in [Instances -> Request] /\ Shape'
  BY <1>5, <1>6, QuietStep
<1>8. faults' \in 0..MaxFaults /\ pending' \subseteq Item
  BY <1>2, FaultType DEF TypeInv, TypeOK
<1> QED
  BY <1>6, <1>7, <1>8 DEF Delete, TypeInv, TypeOK, world

\* Steps of the surroundings touch neither docs nor requests.
LEMMA SameShape ==
    ASSUME Shape, docs' = docs, req' = req
    PROVE  Shape'
  BY DEF Shape, RequestShape

LEMMA SurroundingsType ==
    ASSUME TypeInv,
           \/ \E i \in Instances : Expire(i)
           \/ \E m \in Live : Post(m) \/ DropRetry(m)
           \/ \E ch \in Channels : \E route \in Routes[ch] : EditRoute(ch, route)
           \/ UNCHANGED vars
    PROVE  TypeInv'
<1>1. ASSUME NEW i \in Instances, Expire(i) PROVE TypeInv'
  <2>1. mapCache' \in [Instances -> MapEntry]
    BY <1>1 DEF Expire, TypeInv, TypeOK, MapEntry
  <2> QED
    BY <1>1, <2>1, SameShape DEF Expire, TypeInv, TypeOK, store, world
<1>2. ASSUME NEW m \in Live, Post(m) PROVE TypeInv'
  BY <1>2, SameShape, InputsAssumption DEF Post, TypeInv, TypeOK, store
<1>3. ASSUME NEW m \in Live, DropRetry(m) PROVE TypeInv'
  <2>1. faults' \in 0..MaxFaults
    BY <1>3, FaultType DEF DropRetry, TypeInv, TypeOK
  <2> QED
    BY <1>3, <2>1, SameShape DEF DropRetry, TypeInv, TypeOK, store
<1>4. ASSUME NEW ch \in Channels, NEW route \in Routes[ch], EditRoute(ch, route)
      PROVE  TypeInv'
  <2>1. edits' \in 0..MaxEdits /\ mapping' \in Lists /\ alerted' \subseteq Channels
    <3>1. edits \in 0..MaxEdits /\ edits < MaxEdits /\ edits' = edits + 1
      BY <1>4 DEF EditRoute, TypeInv, TypeOK
    <3>2. mapping' \in Lists /\ alerted' \subseteq Channels
      <4>1. route \in Seq(DocIds)
        BY RoutesAssumption
      <4> QED
        BY <1>4, <4>1 DEF EditRoute, Lists, TypeInv, TypeOK
    <3>3. edits' \in 0..MaxEdits
      BY <3>1, BoundsAssumption
    <3> QED
      BY <3>2, <3>3, Zenon
  <2>2. docs' = docs /\ req' = req
    BY <1>4 DEF EditRoute, store
  <2>3. TypeOK'
    BY <1>4, <2>1 DEF EditRoute, TypeInv, TypeOK, store
  <2> QED
    BY <2>2, <2>3, SameShape DEF TypeInv
<1>5. CASE UNCHANGED vars
  <2>1. docs' = docs /\ req' = req
    BY <1>5 DEF vars, store
  <2>2. TypeOK'
    BY <1>5 DEF TypeInv, TypeOK, vars, store, world
  <2> QED
    BY <2>1, <2>2, SameShape DEF TypeInv
<1> QED
  BY <1>1, <1>2, <1>3, <1>4, <1>5

LEMMA InitType == Init => TypeInv
<1> SUFFICES ASSUME Init PROVE TypeInv
  OBVIOUS
<1>1. TypeOK
  <2>1. docs \in [DocIds -> Doc]
    BY DEF Init, Doc
  <2>2. /\ webCache \in [Instances -> [Channels -> WebEntry]]
        /\ mapCache \in [Instances -> MapEntry]
    BY DEF Init, NoEntries, WebEntry, Unloaded, MapEntry, Lists
  <2>3. req \in [Instances -> Request]
    BY IdleType DEF Init
  <2>4. now \in 1..MaxClock
    BY BoundsAssumption DEF Init
  <2>5. faults \in 0..MaxFaults /\ backfills \in 0..MaxBackfills /\ edits \in 0..MaxEdits
    BY BoundsAssumption DEF Init
  <2> QED
    BY <2>1, <2>2, <2>3, <2>4, <2>5, RoutesAssumption DEF Init, TypeOK
<1>2. Shape
  BY DEF Init, Shape, RequestShape, Idle
<1> QED
  BY <1>1, <1>2 DEF TypeInv

LEMMA StepType == TypeInv /\ [Next]_vars => TypeInv'
<1> SUFFICES ASSUME TypeInv, [Next]_vars PROVE TypeInv'
  OBVIOUS
<1>1. ASSUME NEW i \in Instances, Work(i) PROVE TypeInv'
  BY <1>1, ReadDocType, FetchType, ListPendingType, SkipDupType, SkipUnreadableType,
     MeasureType, InsertType, InsertErrorType, BufferType, UploadType, AlertType,
     StopDrainType, DeleteType, FinishType DEF Work
<1> QED
  BY <1>1, StartBackfillType, StartDrainType, StartWebhookType, CrashType,
     SurroundingsType DEF Next, Quiet

\* Every variable keeps its type, and a request its place in the doc list and in
\* the tail doc, whatever the other instances write meanwhile.
THEOREM TypeCorrect == Spec => []TypeInv
  BY InitType, StepType, PTL DEF Spec

THEOREM TypeSafety == Spec => []TypeOK
<1>1. TypeInv => TypeOK
  BY DEF TypeInv
<1> QED
  BY <1>1, TypeCorrect, PTL

=============================================================================
