------------------------- MODULE SlackSyncDurability -------------------------
(***************************************************************************)
(* What slack-sync promises about its two stores, proved for any instances, *)
(* messages, docs, fault kinds and bounds: nothing buffered is lost, the   *)
(* text an instance dedups against claims no block the docs lack, and      *)
(* every step is one of Delivery or none at all.                           *)
(***************************************************************************)
EXTENDS SlackSyncProofs

-----------------------------------------------------------------------------
(* The texts *)

\* A character is in a doc only with its whole block, together with it or apart.
Complete ==
    \A d \in DocIds : \A s \in DOMAIN docs[d].text :
        docs[d].text[s][1] \in Written(docs[d].text)

\* So a header that a search finds is one of a block that was written.
LEMMA LegibleIsWritten ==
    ASSUME Complete, NEW d \in DocIds
    PROVE  Legible(docs[d].text) \subseteq Written(docs[d].text)
<1> SUFFICES ASSUME NEW m \in Messages, Shows(docs[d].text, m, 1, HeaderEnd[m])
             PROVE  m \in Written(docs[d].text)
  BY DEF Legible
<1>1. HeaderEnd[m] \in Nat /\ 1 <= HeaderEnd[m]
  BY InputsAssumption
<1>2. PICK s \in DOMAIN docs[d].text : docs[d].text[s] = <<m, 1>>
  BY <1>1, ShownIsThere
<1>3. docs[d].text[s][1] = m
  BY <1>2
<1> QED
  BY <1>3 DEF Complete

LEMMA WriteComplete ==
    ASSUME docs \in [DocIds -> Doc], Complete, NEW d \in DocIds,
           NEW k \in 0..Len(docs[d].text), NEW m \in Messages, Write(d, k, m)
    PROVE  Complete'
<1>1. /\ docs'[d].text = Spliced(docs[d].text, k, Block(m, Chars[m]))
      /\ Written(docs'[d].text) = Written(docs[d].text) \cup {m}
      /\ \A e \in DocIds \ {d} : docs'[e] = docs[e]
  BY WriteStep
<1>2. PICK text : text = docs[d].text
  OBVIOUS
<1>3. PICK t : t = Spliced(text, k, Block(m, Chars[m]))
  OBVIOUS
<1>4. PICK C : C = Messages \X Nat
  OBVIOUS
<1>5. Chars[m] \in Nat
  BY InputsAssumption
<1>6. text \in Seq(C) /\ k \in 0..Len(text) /\ Block(m, Chars[m]) \in Seq(C)
  BY <1>2, <1>4, <1>5, BlockType DEF Doc
<1>7. ASSUME NEW s \in DOMAIN t
      PROVE  t[s][1] \in Written(text) \cup {m}
  <2>1. \/ \E j \in DOMAIN text : t[s] = text[j]
        \/ \E n \in 1..Chars[m] : t[s] = <<m, n>>
    BY <1>3, <1>5, <1>6, SplicedOrigins
  <2>2. \A j \in DOMAIN text : text[j][1] \in Written(text)
    BY <1>2 DEF Complete
  <2> QED
    BY <2>1, <2>2
<1>8. docs'[d].text = t /\ Written(docs'[d].text) = Written(text) \cup {m}
  BY <1>1, <1>2, <1>3
<1> QED
  BY <1>1, <1>7, <1>8 DEF Complete

-----------------------------------------------------------------------------
(* What the steps of a request do to the stores *)

\* A step of instance i that writes neither docs nor buffer and does not come
\* to the delete call.
Harmless(i) ==
    /\ docs' = docs /\ pending' = pending /\ accepted' = accepted
    /\ \A j \in Instances \ {i} : req'[j] = req[j] /\ webCache'[j] = webCache[j]
    /\ req'[i].pc # "delete"
    /\ req'[i].seen \subseteq req[i].seen \cup WebSeen(i) \cup InDocs
    /\ WebSeen(i)' \subseteq req[i].seen \cup WebSeen(i) \cup InDocs

\* The new request of such a step, when it leaves the webhook cache alone.
LEMMA HarmlessStep ==
    ASSUME TypeInv, NEW i \in Instances, NEW r, Become(i, r),
           r.pc # "delete",
           r.seen \subseteq req[i].seen \cup WebSeen(i) \cup InDocs,
           docs' = docs, pending' = pending, accepted' = accepted,
           webCache' = webCache
    PROVE  Harmless(i)
<1>1. req'[i] = r /\ \A j \in Instances \ {i} : req'[j] = req[j]
  BY DEF Become, TypeInv, TypeOK
<1>2. WebSeen(i)' = WebSeen(i)
  BY DEF WebSeen
<1> QED
  BY <1>1, <1>2 DEF Harmless

LEMMA IdleSeen == Idle.pc = "idle" /\ Idle.seen = {}
  BY DEF Idle

\* The request goes on to its next channel, if it has one.
LEMMA NextHarmless ==
    ASSUME TypeInv, NEW i \in Instances, NEW q \in Request,
           \A x \in q.left : x.route # <<>>, NextChannel(i, q),
           docs' = docs, pending' = pending, accepted' = accepted,
           webCache' = webCache
    PROVE  Harmless(i)
<1>1. PICK r \in Request : Become(i, r) /\ r.pc \in {"idle", "read"} /\ r.seen = {}
  BY NextRequest
<1> QED
  BY <1>1, HarmlessStep

LEMMA StartBackfillHarmless ==
    ASSUME TypeInv, NEW i \in Instances, StartBackfill(i)
    PROVE  Harmless(i)
<1>1. PICK m \in {mapping, mapCache[i].lists}, oldest \in OldestArgs,
           wanted \in {{ch} : ch \in Channels} \cup {Channels} :
         /\ LoadMapping(i, m)
         /\ NextChannel(i, [Idle EXCEPT !.kind = "backfill", !.oldest = oldest,
                                        !.left = Stops(wanted, m)])
  BY DEF StartBackfill
<1>2. m \in Lists /\ wanted \in SUBSET Channels /\ oldest \in Nat
  BY <1>1, LoadType, InputsAssumption DEF TypeInv
<1>3. PICK stops \in SUBSET Stop :
        stops = Stops(wanted, m) /\ \A x \in stops : x.route # <<>>
  BY <1>2, StopsType
<1> DEFINE q == [Idle EXCEPT !.kind = "backfill", !.oldest = oldest, !.left = stops]
<1>4. q \in Request /\ q.left = stops
  BY <1>2, IdleType DEF Idle, Request
<1>5. NextChannel(i, q)
  BY <1>1, <1>3
<1> HIDE DEF q
<1>6. docs' = docs /\ pending' = pending /\ accepted' = accepted /\ webCache' = webCache
  BY DEF StartBackfill, store
<1> QED
  BY <1>3, <1>4, <1>5, <1>6, NextHarmless

LEMMA StartDrainHarmless ==
    ASSUME TypeInv, NEW i \in Instances, StartDrain(i)
    PROVE  Harmless(i)
<1> DEFINE waiting == {Channel[p.msg] : p \in pending}
<1>1. PICK m \in {mapping, mapCache[i].lists} :
         /\ LoadMapping(i, m)
         /\ NextChannel(i, [Idle EXCEPT !.kind = "drain", !.left = Stops(waiting, m)])
  BY DEF StartDrain
<1>2. m \in Lists /\ waiting \in SUBSET Channels
  BY <1>1, LoadType, InputsAssumption DEF TypeInv, TypeOK, Item
<1> HIDE DEF waiting
<1>3. PICK stops \in SUBSET Stop :
        stops = Stops(waiting, m) /\ \A x \in stops : x.route # <<>>
  BY <1>2, StopsType
<1> DEFINE q == [Idle EXCEPT !.kind = "drain", !.left = stops]
<1>4. q \in Request /\ q.left = stops
  BY IdleType DEF Idle, Request
<1>5. NextChannel(i, q)
  BY <1>1, <1>3
<1> HIDE DEF q
<1>6. docs' = docs /\ pending' = pending /\ accepted' = accepted /\ webCache' = webCache
  BY DEF StartDrain, store
<1> QED
  BY <1>3, <1>4, <1>5, <1>6, NextHarmless

LEMMA StartWebhookHarmless ==
    ASSUME TypeInv, NEW i \in Instances, NEW m \in Live, StartWebhook(i, m)
    PROVE  Harmless(i)
<1> DEFINE entry == webCache[i][Channel[m]]
           begun(route) == [Idle EXCEPT !.kind = "webhook", !.chan = Channel[m],
                                        !.route = route, !.fetched = {m},
                                        !.todo = {[at |-> 0, msg |-> m]}]
           r(route) == IF route = <<>> THEN Idle
                       ELSE IF entry.route = route
                       THEN [begun(route) EXCEPT !.pc = "loop", !.seen = entry.seen,
                                                 !.bytes = entry.bytes]
                       ELSE [begun(route) EXCEPT !.pc = "read"]
<1>1. PICK route : Become(i, r(route))
  BY DEF StartWebhook
<1>2. entry.seen \subseteq WebSeen(i)
  BY InputsAssumption DEF WebSeen
<1>3. r(route).pc # "delete" /\ r(route).seen \subseteq WebSeen(i)
  BY <1>2 DEF Idle
<1>4. docs' = docs /\ pending' = pending /\ accepted' = accepted /\ webCache' = webCache
  BY DEF StartWebhook, store
<1>5. PICK q : q = r(route)
  OBVIOUS
<1> HIDE DEF entry, begun, r
<1> QED
  BY <1>1, <1>3, <1>4, <1>5, HarmlessStep

\* What the entry of one channel gets is all that the cache of the instance gains.
LEMMA WebSeenStep ==
    ASSUME TypeInv, NEW i \in Instances, NEW ch, NEW route, NEW seen, NEW bytes,
           webCache' = [webCache EXCEPT ![i][ch] = [route |-> route, seen |-> seen,
                                                    bytes |-> bytes]]
    PROVE  /\ WebSeen(i)' \subseteq WebSeen(i) \cup seen
           /\ \A j \in Instances \ {i} : webCache'[j] = webCache[j]
<1>1. \A c \in Channels : webCache'[i][c].seen \subseteq webCache[i][c].seen \cup seen
  BY DEF TypeInv, TypeOK
<1>2. \A j \in Instances \ {i} : webCache'[j] = webCache[j]
  BY DEF TypeInv, TypeOK
<1> QED
  BY <1>1, <1>2 DEF WebSeen

LEMMA ReadDocHarmless ==
    ASSUME TypeInv, Complete, NEW i \in Instances, ReadDoc(i)
    PROVE  Harmless(i)
<1>1. PICK q \in Request : q = req[i]
  BY RequestFacts
<1>2. q.route[q.nread + 1] \in DocIds
  <2>1. q.route \in Seq(DocIds) /\ q.nread \in Nat /\ q.nread < Len(q.route)
    BY <1>1, RequestFacts DEF ReadDoc, RequestShape, Request
  <2> QED
    BY <2>1
<1>3. Legible(docs[q.route[q.nread + 1]].text) \subseteq InDocs
  BY <1>2, LegibleIsWritten DEF InDocs
<1> DEFINE last == q.nread + 1 = Len(q.route)
           next(seen, bytes) ==
             [q EXCEPT !.nread = @ + 1, !.seen = seen, !.bytes = bytes,
                       !.pc = IF last THEN AfterRead(q.kind) ELSE "read"]
           cached(seen, bytes) ==
             IF last /\ q.kind = "webhook"
             THEN [webCache EXCEPT ![i][q.chan] = [route |-> q.route, seen |-> seen,
                                                   bytes |-> bytes]]
             ELSE webCache
<1>4. PICK seen, bytes :
        /\ seen \subseteq q.seen \cup InDocs
        /\ Become(i, next(seen, bytes))
        /\ webCache' = cached(seen, bytes)
  <2> DEFINE doc == docs[q.route[q.nread + 1]]
             Got(seen, bytes) == /\ Become(i, next(seen, bytes))
                                 /\ webCache' = cached(seen, bytes)
  <2>1. Got(q.seen \cup Legible(doc.text), q.bytes + doc.bytes) \/ Got(q.seen, q.bytes)
    BY <1>1 DEF ReadDoc
  <2>2. q.seen \cup Legible(doc.text) \subseteq q.seen \cup InDocs
    BY <1>3
  <2> HIDE DEF doc, next, cached
  <2> QED
    BY <2>1, <2>2
<1>5. next(seen, bytes).pc # "delete" /\ next(seen, bytes).seen = seen
  BY DEF AfterRead, Request
<1> HIDE DEF next
<1>6. /\ req'[i] = next(seen, bytes)
      /\ \A j \in Instances \ {i} : req'[j] = req[j]
  BY <1>4 DEF Become, TypeInv, TypeOK
<1>7. /\ WebSeen(i)' \subseteq WebSeen(i) \cup seen
      /\ \A j \in Instances \ {i} : webCache'[j] = webCache[j]
  <2>1. CASE webCache' = webCache
    BY <2>1 DEF WebSeen
  <2>2. CASE webCache' = [webCache EXCEPT ![i][q.chan] =
                            [route |-> q.route, seen |-> seen, bytes |-> bytes]]
    BY <2>2, WebSeenStep
  <2> QED
    BY <1>4, <2>1, <2>2
<1>8. docs' = docs /\ pending' = pending /\ accepted' = accepted
  BY DEF ReadDoc, store
<1> QED
  BY <1>1, <1>4, <1>5, <1>6, <1>7, <1>8 DEF Harmless

LEMMA FetchHarmless ==
    ASSUME TypeInv, NEW i \in Instances, Fetch(i)
    PROVE  Harmless(i)
<1>1. PICK q \in Request : q = req[i] /\ RequestShape(q)
  BY RequestFacts
<1>2. docs' = docs /\ pending' = pending /\ accepted' = accepted /\ webCache' = webCache
  BY DEF Fetch, store
<1>3. \/ NextChannel(i, q)
      \/ \E got : Become(i, [q EXCEPT !.pc = "loop", !.fetched = got,
                                      !.todo = {[at |-> 0, msg |-> m] : m \in got}])
  BY <1>1, Zenon DEF Fetch
<1>4. CASE NextChannel(i, q)
  BY <1>1, <1>2, <1>4, NextHarmless DEF RequestShape
<1>5. CASE \E got : Become(i, [q EXCEPT !.pc = "loop", !.fetched = got,
                                        !.todo = {[at |-> 0, msg |-> m] : m \in got}])
  <2>1. PICK r, got : /\ Become(i, r)
                      /\ r = [q EXCEPT !.pc = "loop", !.fetched = got,
                                       !.todo = {[at |-> 0, msg |-> m] : m \in got}]
    BY <1>5
  <2>2. r.pc # "delete" /\ r.seen = q.seen
    BY <2>1 DEF Request
  <2> QED
    BY <1>1, <1>2, <2>1, <2>2, HarmlessStep
<1> QED
  BY <1>3, <1>4, <1>5

\* The steps that only change the request's place in its loop.
LEMMA LoopStepsHarmless ==
    ASSUME TypeInv, NEW i \in Instances,
           \/ ListPending(i) \/ SkipDup(i) \/ SkipUnreadable(i) \/ Measure(i)
           \/ Buffer(i) \/ Alert(i) \/ StopDrain(i) \/ Finish(i)
    PROVE  Harmless(i)
<1>1. PICK q \in Request : q = req[i] /\ RequestShape(q)
  BY RequestFacts
<1>2. \/ NextChannel(i, q)
      \/ \E r : Become(i, r) /\ r.pc # "delete" /\ r.seen \subseteq q.seen
  <2>1. CASE ListPending(i)
    <3> DEFINE r(mine) == [q EXCEPT !.pc = "loop", !.todo = mine]
    <3>1. (\E mine : Become(i, r(mine))) \/ Become(i, Idle)
      BY <2>1, <1>1 DEF ListPending
    <3>2. \A mine : r(mine).pc # "delete" /\ r(mine).seen = q.seen
      BY DEF Request
    <3> HIDE DEF r
    <3> QED
      BY <3>1, <3>2, IdleSeen
  <2>2. CASE SkipDup(i) \/ SkipUnreadable(i)
    <3>1. PICK it : Become(i, [q EXCEPT !.todo = Rest(i, it)])
      BY <2>2, <1>1 DEF SkipDup, SkipUnreadable
    <3>2. q.pc = "loop"
      BY <2>2, <1>1 DEF SkipDup, SkipUnreadable
    <3>3. /\ [q EXCEPT !.todo = Rest(i, it)].pc # "delete"
          /\ [q EXCEPT !.todo = Rest(i, it)].seen = q.seen
      BY <3>2 DEF Request
    <3> QED
      BY <3>1, <3>3
  <2>3. CASE Measure(i)
    <3> DEFINE r(e) == [q EXCEPT !.pc = "insert", !.end = e]
    <3>1. PICK e : Become(i, r(e))
      BY <2>3, <1>1 DEF Measure
    <3>2. r(e).pc # "delete" /\ r(e).seen = q.seen
      BY DEF Request
    <3> QED
      BY <3>1, <3>2
  <2>4. CASE Alert(i)
    <3>1. /\ [q EXCEPT !.pc = "loop"].pc # "delete"
          /\ [q EXCEPT !.pc = "loop"].seen = q.seen
      BY DEF Request
    <3> QED
      BY <2>4, <1>1, <3>1 DEF Alert
  <2>5. CASE StopDrain(i) \/ Finish(i)
    BY <2>5, <1>1, IdleSeen DEF StopDrain, Finish
  <2>6. CASE Buffer(i)
    <3> DEFINE r(n) == [q EXCEPT !.pc = "upload", !.stamp = n]
    <3>1. PICK n : Become(i, r(n))
      BY <2>6, <1>1 DEF Buffer
    <3>2. r(n).pc # "delete" /\ r(n).seen = q.seen
      BY DEF Request
    <3> QED
      BY <3>1, <3>2
  <2> QED
    BY <2>1, <2>2, <2>3, <2>4, <2>5, <2>6
<1>3. docs' = docs /\ pending' = pending /\ accepted' = accepted /\ webCache' = webCache
  BY DEF ListPending, SkipDup, SkipUnreadable, Measure, Buffer, Alert, StopDrain, Finish,
         store
<1>4. CASE NextChannel(i, q)
  BY <1>1, <1>3, <1>4, NextHarmless DEF RequestShape
<1>5. CASE \E r : Become(i, r) /\ r.pc # "delete" /\ r.seen \subseteq q.seen
  BY <1>1, <1>3, <1>5, HarmlessStep
<1> QED
  BY <1>2, <1>4, <1>5

LEMMA CrashHarmless ==
    ASSUME TypeInv, NEW i \in Instances, Crash(i)
    PROVE  Harmless(i)
<1>1. /\ req'[i] = Idle
      /\ \A j \in Instances \ {i} : req'[j] = req[j]
  BY DEF Crash, Become, TypeInv, TypeOK
<1>2. /\ webCache'[i] = NoEntries
      /\ \A j \in Instances \ {i} : webCache'[j] = webCache[j]
  BY DEF Crash, TypeInv, TypeOK
<1>3. WebSeen(i)' = {}
  BY <1>2 DEF WebSeen, NoEntries
<1>4. docs' = docs /\ pending' = pending /\ accepted' = accepted
  BY DEF Crash, store
<1> QED
  BY <1>1, <1>2, <1>3, <1>4, IdleSeen DEF Harmless

-----------------------------------------------------------------------------
(* The invariant *)

\* A drain that comes to the delete call has its item in a doc: this is what
\* makes the deletion safe, and what BufferedDurable lacks to be inductive.
Placed ==
    \A i \in Instances :
        req[i].pc = "delete" =>
            \A it \in req[i].todo : Current(i, it) => it.msg \in InDocs

DurableInv == BufferedDurable /\ Placed /\ SeenIsWritten /\ Complete

\* The loop is at one item: two items with the same key are the same item.
LEMMA CurrentUnique ==
    ASSUME TypeOK, NEW i \in Instances, NEW x \in req[i].todo, NEW y \in req[i].todo,
           Current(i, x), Current(i, y)
    PROVE  x = y
<1>1. x \in Item /\ y \in Item
  BY DEF TypeOK, Request
<1>2. x.at \in Nat /\ y.at \in Nat /\ x.msg \in Nat /\ y.msg \in Nat
  BY <1>1, InputsAssumption DEF Item
<1>3. x # y => Before(x, y) /\ Before(y, x)
  BY DEF Current
<1> QED
  BY <1>2, <1>3 DEF Before

LEMMA HarmlessKeeps ==
    ASSUME DurableInv, NEW i \in Instances, Harmless(i)
    PROVE  DurableInv'
<1>1. InDocs' = InDocs /\ Buffered' = Buffered /\ accepted' = accepted
  BY DEF Harmless, InDocs, Buffered
<1>2. BufferedDurable'
  BY <1>1 DEF DurableInv, BufferedDurable
<1>3. Placed'
  BY <1>1 DEF DurableInv, Placed, Harmless, Current
<1>4. SeenIsWritten'
  BY <1>1 DEF DurableInv, SeenIsWritten, Harmless, WebSeen
<1>5. Complete'
  BY DEF DurableInv, Complete, Harmless
<1> QED
  BY <1>2, <1>3, <1>4, <1>5 DEF DurableInv

\* Steps outside the requests write no doc and no buffer.
LEMMA SurroundingsKeep ==
    ASSUME TypeInv, DurableInv, docs' = docs, pending' = pending,
           accepted' = accepted, req' = req, webCache' = webCache
    PROVE  DurableInv'
<1>1. InDocs' = InDocs /\ Buffered' = Buffered
  BY DEF InDocs, Buffered
<1> QED
  BY <1>1 DEF DurableInv, BufferedDurable, Placed, SeenIsWritten, Complete, Current, WebSeen

\* The loop of i moves on, in any way, while docs and buffer keep what they have.
LEMMA GrowKeeps ==
    ASSUME TypeInv, DurableInv, NEW i \in Instances,
           InDocs \subseteq InDocs', accepted' \subseteq InDocs' \cup Buffered',
           \A j \in Instances \ {i} : req'[j] = req[j] /\ webCache'[j] = webCache[j],
           req'[i].pc = "delete" =>
               \A it \in req'[i].todo : Current(i, it)' => it.msg \in InDocs',
           req'[i].seen \cup WebSeen(i)' \subseteq InDocs', Complete'
    PROVE  DurableInv'
<1>1. BufferedDurable'
  BY DEF BufferedDurable
<1>2. Placed'
  BY DEF DurableInv, Placed, Current
<1>3. SeenIsWritten'
  <2>1. ASSUME NEW j \in Instances \ {i}
        PROVE  (req[j].seen \cup WebSeen(j))' \subseteq InDocs'
    BY DEF DurableInv, SeenIsWritten, WebSeen
  <2> QED
    BY <2>1 DEF SeenIsWritten
<1> QED
  BY <1>1, <1>2, <1>3 DEF DurableInv

LEMMA InsertKeeps ==
    ASSUME TypeInv, DurableInv, NEW i \in Instances, Insert(i)
    PROVE  DurableInv'
<1>1. PICK q \in Request : q = req[i]
  BY RequestFacts
<1>2. PICK it \in q.todo :
        /\ Current(i, it)
        /\ Write(Target(i), q.end, it.msg)
        /\ Become(i, IF q.kind = "drain"
                     THEN [q EXCEPT !.pc = "delete", !.seen = q.seen \cup {it.msg},
                                    !.bytes = q.bytes + Size[it.msg]]
                     ELSE [q EXCEPT !.pc = "loop", !.seen = q.seen \cup {it.msg},
                                    !.bytes = q.bytes + Size[it.msg],
                                    !.todo = Rest(i, it)])
        /\ webCache' = IF q.kind = "webhook"
                       THEN [webCache EXCEPT ![i][q.chan] =
                               [route |-> q.route,
                                seen  |-> q.seen \cup {it.msg},
                                bytes |-> q.bytes + Size[it.msg]]]
                       ELSE webCache
  BY <1>1 DEF Insert
<1>3. InDocs' = InDocs \cup {it.msg} /\ Complete'
  <2>1. q.pc = "insert" /\ q.end \in 0..Len(docs[Target(i)].text)
    BY <1>1, RequestFacts, TargetType DEF Insert, RequestShape, Request, Target, Doc
  <2>2. Target(i) \in DocIds /\ it.msg \in Messages
    BY <1>1, <2>1, TargetType, ItemType
  <2> QED
    BY <1>2, <2>1, <2>2, WriteStep, WriteComplete DEF TypeInv, TypeOK, DurableInv
<1>4. /\ req'[i].seen = q.seen \cup {it.msg}
      /\ req'[i].pc = "delete" => req'[i].todo = q.todo
      /\ \A j \in Instances \ {i} : req'[j] = req[j]
  <2>1. \A r : Become(i, r) => /\ req'[i] = r
                               /\ \A j \in Instances \ {i} : req'[j] = req[j]
    BY DEF Become, TypeInv, TypeOK
  <2>2. CASE q.kind = "drain"
    <3>1. req'[i] = [q EXCEPT !.pc = "delete", !.seen = q.seen \cup {it.msg},
                              !.bytes = q.bytes + Size[it.msg]]
      BY <1>2, <2>1, <2>2
    <3> QED
      BY <1>2, <2>1, <3>1 DEF Request
  <2>3. CASE q.kind # "drain"
    <3>1. req'[i] = [q EXCEPT !.pc = "loop", !.seen = q.seen \cup {it.msg},
                              !.bytes = q.bytes + Size[it.msg],
                              !.todo = Rest(i, it)]
      BY <1>2, <2>1, <2>3
    <3> QED
      BY <1>2, <2>1, <3>1 DEF Request
  <2> QED
    BY <2>2, <2>3
<1>5. /\ WebSeen(i)' \subseteq WebSeen(i) \cup q.seen \cup {it.msg}
      /\ \A j \in Instances \ {i} : webCache'[j] = webCache[j]
  <2>1. CASE webCache' = webCache
    BY <2>1 DEF WebSeen
  <2>2. CASE webCache' = [webCache EXCEPT ![i][q.chan] =
                            [route |-> q.route, seen |-> q.seen \cup {it.msg},
                             bytes |-> q.bytes + Size[it.msg]]]
    <3>1. PICK seen, bytes :
            seen = q.seen \cup {it.msg} /\ bytes = q.bytes + Size[it.msg]
      OBVIOUS
    <3>2. webCache' = [webCache EXCEPT ![i][q.chan] =
                         [route |-> q.route, seen |-> seen, bytes |-> bytes]]
      BY <2>2, <3>1
    <3>3. /\ WebSeen(i)' \subseteq WebSeen(i) \cup seen
          /\ \A j \in Instances \ {i} : webCache'[j] = webCache[j]
      BY <3>2, WebSeenStep
    <3> QED
      BY <3>1, <3>3
  <2> QED
    BY <1>2, <2>1, <2>2
<1>6. ASSUME req'[i].pc = "delete", NEW x \in req'[i].todo, Current(i, x)'
      PROVE  x.msg \in InDocs'
  <2>1. x \in q.todo /\ Current(i, x)
    BY <1>1, <1>4, <1>6 DEF Current
  <2>2. x = it
    BY <1>1, <1>2, <2>1, CurrentUnique DEF TypeInv
  <2> QED
    BY <2>2, <1>3
<1>7. q.seen \cup WebSeen(i) \subseteq InDocs
  BY <1>1 DEF DurableInv, SeenIsWritten
<1>8. accepted' \subseteq InDocs' \cup Buffered'
  BY <1>3 DEF Insert, DurableInv, BufferedDurable, Buffered
<1> QED
  BY <1>3, <1>4, <1>5, <1>6, <1>7, <1>8, GrowKeeps

LEMMA InsertErrorKeeps ==
    ASSUME TypeInv, DurableInv, NEW i \in Instances, InsertError(i)
    PROVE  DurableInv'
<1>1. PICK q \in Request : q = req[i]
  BY RequestFacts
<1>2. PICK it \in q.todo :
        /\ docs' = docs \/ Write(Target(i), q.end, it.msg)
        /\ \/ Become(i, [q EXCEPT !.pc = "loop", !.todo = Rest(i, it)])
           \/ NextChannel(i, q)
  BY <1>1 DEF InsertError
<1>3. InDocs \subseteq InDocs' /\ Complete'
  <2>1. q.pc = "insert" /\ q.end \in 0..Len(docs[Target(i)].text)
    BY <1>1, RequestFacts, TargetType DEF InsertError, RequestShape, Request, Target, Doc
  <2>2. Target(i) \in DocIds /\ it.msg \in Messages
    BY <1>1, <2>1, TargetType, ItemType
  <2>3. Write(Target(i), q.end, it.msg) => InDocs' = InDocs \cup {it.msg} /\ Complete'
    BY <2>1, <2>2, WriteStep, WriteComplete DEF TypeInv, TypeOK, DurableInv
  <2>4. docs' = docs => InDocs' = InDocs /\ Complete'
    BY DEF InDocs, Complete, DurableInv
  <2> QED
    BY <1>2, <2>3, <2>4
<1>4. /\ req'[i].seen \subseteq q.seen
      /\ req'[i].pc # "delete"
      /\ \A j \in Instances \ {i} : req'[j] = req[j]
  <2>1. PICK r : Become(i, r) /\ r.seen \subseteq q.seen /\ r.pc # "delete"
    <3>1. CASE NextChannel(i, q)
      <4>1. \A x \in q.left : x.route # <<>>
        BY <1>1, RequestFacts DEF RequestShape
      <4>2. PICK r \in Request :
              Become(i, r) /\ r.pc \in {"idle", "read"} /\ r.seen = {}
        BY <3>1, <4>1, NextRequest
      <4> QED
        BY <4>2
    <3>2. CASE Become(i, [q EXCEPT !.pc = "loop", !.todo = Rest(i, it)])
      <4>1. /\ [q EXCEPT !.pc = "loop", !.todo = Rest(i, it)].pc = "loop"
            /\ [q EXCEPT !.pc = "loop", !.todo = Rest(i, it)].seen = q.seen
        BY DEF Request
      <4> QED
        BY <3>2, <4>1
    <3> QED
      BY <1>2, <3>1, <3>2
  <2> QED
    BY <2>1 DEF Become, TypeInv, TypeOK
<1>5. q.seen \cup WebSeen(i) \subseteq InDocs
  BY <1>1 DEF DurableInv, SeenIsWritten
<1>6. accepted' \subseteq InDocs' \cup Buffered'
  BY <1>3 DEF InsertError, DurableInv, BufferedDurable, Buffered
<1>7. WebSeen(i)' = WebSeen(i) /\ webCache' = webCache
  BY DEF InsertError, WebSeen
<1> QED
  BY <1>3, <1>4, <1>5, <1>6, <1>7, GrowKeeps

\* The blob appears.
LEMMA PublishBuffers ==
    ASSUME NEW n, NEW m, Publish(n, m)
    PROVE  Buffered' = Buffered \cup {m} /\ accepted' = accepted \cup {m}
<1> DEFINE new == [at |-> n, msg |-> m]
<1>1. new.msg = m /\ pending' = pending \cup {new}
  BY DEF Publish
<1> HIDE DEF new
<1> QED
  BY <1>1 DEF Buffered, Publish

LEMMA UploadKeeps ==
    ASSUME TypeInv, DurableInv, NEW i \in Instances, Upload(i)
    PROVE  DurableInv'
<1>1. PICK q \in Request : q = req[i]
  BY RequestFacts
<1>2. PICK it \in q.todo :
        /\ Publish(q.stamp, it.msg) \/ UNCHANGED <<pending, accepted>>
        /\ Become(i, Enqueued(q, it))
  BY <1>1 DEF Upload
<1>3. /\ InDocs' = InDocs /\ Complete'
      /\ webCache' = webCache /\ WebSeen(i)' = WebSeen(i)
  BY DEF Upload, InDocs, WebSeen, Complete, DurableInv
<1>4. accepted' \subseteq InDocs' \cup Buffered'
  <2>1. CASE Publish(q.stamp, it.msg)
    BY <2>1, <1>3, PublishBuffers DEF DurableInv, BufferedDurable
  <2>2. CASE UNCHANGED <<pending, accepted>>
    BY <2>2, <1>3 DEF DurableInv, BufferedDurable, Buffered
  <2> QED
    BY <1>2, <2>1, <2>2
<1>5. /\ req'[i].seen = q.seen
      /\ req'[i].pc # "delete"
      /\ \A j \in Instances \ {i} : req'[j] = req[j]
  <2>1. Enqueued(q, it).seen = q.seen /\ Enqueued(q, it).pc # "delete"
    BY DEF Enqueued, Request
  <2> QED
    BY <1>2, <2>1 DEF Become, TypeInv, TypeOK
<1>6. q.seen \cup WebSeen(i) \subseteq InDocs
  BY <1>1 DEF DurableInv, SeenIsWritten
<1> QED
  BY <1>3, <1>4, <1>5, <1>6, GrowKeeps

LEMMA DeleteKeeps ==
    ASSUME TypeInv, DurableInv, NEW i \in Instances, Delete(i)
    PROVE  DurableInv'
<1>1. PICK q \in Request : q = req[i]
  BY RequestFacts
<1>2. PICK it \in q.todo :
        /\ Current(i, it)
        /\ pending \ {it} \subseteq pending'
        /\ Become(i, [q EXCEPT !.pc = "loop", !.todo = Rest(i, it)])
  BY <1>1 DEF Delete
<1>3. /\ InDocs' = InDocs /\ accepted' = accepted
      /\ webCache' = webCache /\ WebSeen(i)' = WebSeen(i) /\ Complete'
  BY DEF Delete, InDocs, WebSeen, Complete, DurableInv
<1>4. it.msg \in InDocs
  BY <1>1, <1>2 DEF Delete, DurableInv, Placed
<1>5. Buffered \subseteq Buffered' \cup {it.msg}
  BY <1>2 DEF Buffered
<1>6. accepted' \subseteq InDocs' \cup Buffered'
  BY <1>3, <1>4, <1>5 DEF DurableInv, BufferedDurable
<1>7. /\ req'[i].seen = q.seen
      /\ req'[i].pc # "delete"
      /\ \A j \in Instances \ {i} : req'[j] = req[j]
  BY <1>2 DEF Become, Request, TypeInv, TypeOK
<1>8. q.seen \cup WebSeen(i) \subseteq InDocs
  BY <1>1 DEF DurableInv, SeenIsWritten
<1> QED
  BY <1>3, <1>6, <1>7, <1>8, GrowKeeps

LEMMA DurableInit == Init => DurableInv
<1> SUFFICES ASSUME Init PROVE DurableInv
  OBVIOUS
<1>1. accepted = {}
  BY DEF Init
<1>2. \A i \in Instances : req[i] = Idle /\ webCache[i] = NoEntries
  BY DEF Init
<1>3. \A i \in Instances : WebSeen(i) = {}
  BY <1>2 DEF WebSeen, NoEntries
<1>4. Complete
  BY DEF Init, Complete
<1> QED
  BY <1>1, <1>2, <1>3, <1>4, IdleSeen DEF DurableInv, BufferedDurable, Placed, SeenIsWritten

LEMMA DurableStep == TypeInv /\ DurableInv /\ [Next]_vars => DurableInv'
<1> SUFFICES ASSUME TypeInv, DurableInv, [Next]_vars PROVE DurableInv'
  OBVIOUS
<1>1. ASSUME NEW i \in Instances, StartBackfill(i) PROVE DurableInv'
  BY <1>1, StartBackfillHarmless, HarmlessKeeps
<1>2. ASSUME NEW i \in Instances, StartDrain(i) PROVE DurableInv'
  BY <1>2, StartDrainHarmless, HarmlessKeeps
<1>3. ASSUME NEW i \in Instances, NEW m \in Live, StartWebhook(i, m) PROVE DurableInv'
  BY <1>3, StartWebhookHarmless, HarmlessKeeps
<1>4. ASSUME NEW i \in Instances, Work(i) PROVE DurableInv'
  <2>1. CASE ReadDoc(i)
    BY <2>1, ReadDocHarmless, HarmlessKeeps DEF DurableInv
  <2>2. CASE Fetch(i)
    BY <2>2, FetchHarmless, HarmlessKeeps
  <2>3. CASE \/ ListPending(i) \/ SkipDup(i) \/ SkipUnreadable(i) \/ Measure(i)
             \/ Buffer(i) \/ Alert(i) \/ StopDrain(i) \/ Finish(i)
    BY <2>3, LoopStepsHarmless, HarmlessKeeps
  <2>4. CASE Insert(i)
    BY <2>4, InsertKeeps
  <2>5. CASE InsertError(i)
    BY <2>5, InsertErrorKeeps
  <2>6. CASE Upload(i)
    BY <2>6, UploadKeeps
  <2>7. CASE Delete(i)
    BY <2>7, DeleteKeeps
  <2> QED
    BY <1>4, <2>1, <2>2, <2>3, <2>4, <2>5, <2>6, <2>7 DEF Work
<1>5. ASSUME NEW i \in Instances, Crash(i) PROVE DurableInv'
  BY <1>5, CrashHarmless, HarmlessKeeps
<1>6. ASSUME NEW i \in Instances, Expire(i) PROVE DurableInv'
  BY <1>6, SurroundingsKeep DEF Expire, store
<1>7. ASSUME NEW m \in Live, Post(m) \/ DropRetry(m) PROVE DurableInv'
  BY <1>7, SurroundingsKeep DEF Post, DropRetry, store
<1>8. ASSUME NEW ch \in Channels, NEW route \in Routes[ch], EditRoute(ch, route)
      PROVE  DurableInv'
  BY <1>8, SurroundingsKeep DEF EditRoute, store
<1>9. CASE Quiet \/ UNCHANGED vars
  BY <1>9, SurroundingsKeep DEF Quiet, vars, store
<1> QED
  BY <1>1, <1>2, <1>3, <1>4, <1>5, <1>6, <1>7, <1>8, <1>9 DEF Next

-----------------------------------------------------------------------------
(* Theorems *)

THEOREM DurableCorrect == Spec => []DurableInv
<1>1. Spec => []TypeInv
  BY TypeCorrect
<1> QED
  BY <1>1, DurableInit, DurableStep, PTL DEF Spec

\* Of what was buffered every character is in the buffer or, in order, in a doc:
\* drain_channel (src/slack-sync/main.py) deletes a blob only after append_to_doc wrote
\* it, and no insertion of another request takes anything out of a doc.
THEOREM BufferedIsDurable == Spec => []BufferedDurable
<1>1. DurableInv => BufferedDurable
  BY DEF DurableInv
<1> QED
  BY <1>1, DurableCorrect, PTL

\* The dedup text of a request and of a warm container shows headers of blocks only
\* that were written, so a message skipped as a duplicate is one whose block, or one
\* with the same header, is in a doc, be it in pieces by now.
THEOREM SeenTextIsWritten == Spec => []SeenIsWritten
<1>1. DurableInv => SeenIsWritten
  BY DEF DurableInv
<1> QED
  BY <1>1, DurableCorrect, PTL
-----------------------------------------------------------------------------
(* slack-sync implements Delivery: every step of a request writes one      *)
(* block to the docs, queues one, lets one that is written leave the       *)
(* queue, or does none of these.                                           *)

\* The step means nothing to Delivery.
Unseen == InDocs' = InDocs /\ Buffered' = Buffered

LEMMA SameStoresUnseen ==
    ASSUME docs' = docs, pending' = pending
    PROVE  Unseen
BY DEF Unseen, InDocs, Buffered

LEMMA HarmlessUnseen ==
    ASSUME NEW i \in Instances, Harmless(i)
    PROVE  Unseen
BY SameStoresUnseen DEF Harmless

\* An insertion of the current item of i, where the request has measured.
LEMMA WriteDelivers ==
    ASSUME TypeInv, NEW i \in Instances, req[i].pc = "insert",
           NEW it \in req[i].todo, Write(Target(i), req[i].end, it.msg),
           pending' = pending
    PROVE  Delivered!Write(it.msg) /\ it.msg \in Messages
<1>1. req[i].end \in 0..Len(docs[Target(i)].text)
  BY RequestFacts, TargetType DEF RequestShape, Request, Target, Doc
<1>2. Target(i) \in DocIds /\ it.msg \in Messages
  BY TargetType, ItemType
<1>3. InDocs' = InDocs \cup {it.msg}
  BY <1>1, <1>2, WriteStep DEF TypeInv, TypeOK
<1>4. Buffered' = Buffered
  BY DEF Buffered
<1> QED
  BY <1>2, <1>3, <1>4 DEF Delivered!Write

LEMMA InsertDelivers ==
    ASSUME TypeInv, NEW i \in Instances, Insert(i) \/ InsertError(i)
    PROVE  Unseen \/ Delivered!Next
<1>1. /\ req[i].pc = "insert"
      /\ pending' = pending
      /\ \E it \in req[i].todo :
           docs' = docs \/ Write(Target(i), req[i].end, it.msg)
  BY DEF Insert, InsertError
<1>2. PICK it \in req[i].todo :
        docs' = docs \/ Write(Target(i), req[i].end, it.msg)
  BY <1>1
<1>3. CASE docs' = docs
  BY <1>1, <1>3, SameStoresUnseen
<1>4. CASE Write(Target(i), req[i].end, it.msg)
  BY <1>1, <1>4, WriteDelivers DEF Delivered!Next
<1> QED
  BY <1>2, <1>3, <1>4

LEMMA UploadDelivers ==
    ASSUME TypeInv, NEW i \in Instances, Upload(i)
    PROVE  Unseen \/ Delivered!Next
<1>1. PICK it \in req[i].todo :
        Publish(req[i].stamp, it.msg) \/ UNCHANGED <<pending, accepted>>
  BY DEF Upload
<1>2. docs' = docs /\ InDocs' = InDocs
  BY DEF Upload, InDocs
<1>3. it.msg \in Messages
  BY ItemType
<1>4. CASE UNCHANGED <<pending, accepted>>
  BY <1>2, <1>4, SameStoresUnseen
<1>5. CASE Publish(req[i].stamp, it.msg)
  BY <1>2, <1>3, <1>5, PublishBuffers DEF Delivered!Next, Delivered!Queue
<1> QED
  BY <1>1, <1>4, <1>5

\* The blob that goes is one of a block that Placed has in the docs; the block
\* leaves the queue unless it waits there under another key as well.
LEMMA DeleteDelivers ==
    ASSUME TypeInv, Placed, NEW i \in Instances, Delete(i)
    PROVE  Unseen \/ Delivered!Next
<1>1. PICK it \in req[i].todo :
        Current(i, it) /\ (pending' = pending \ {it} \/ pending' = pending)
  BY DEF Delete
<1>2. req[i].pc = "delete" /\ docs' = docs
  BY DEF Delete
<1>3. it.msg \in InDocs /\ it.msg \in Messages
  BY <1>1, <1>2, ItemType DEF Placed
<1>4. InDocs' = InDocs
  BY <1>2 DEF InDocs
<1>5. Buffered \ {it.msg} \subseteq Buffered' /\ Buffered' \subseteq Buffered
  BY <1>1 DEF Buffered
<1>6. CASE it.msg \in Buffered' \/ it.msg \notin Buffered
  BY <1>4, <1>5, <1>6 DEF Unseen
<1>7. CASE it.msg \notin Buffered' /\ it.msg \in Buffered
  BY <1>3, <1>4, <1>5, <1>7 DEF Delivered!Next, Delivered!Leave
<1> QED
  BY <1>6, <1>7

LEMMA DeliveryStep ==
    TypeInv /\ DurableInv /\ [Next]_vars => [Delivered!Next]_<<InDocs, Buffered>>
<1> SUFFICES ASSUME TypeInv, DurableInv, [Next]_vars
             PROVE  Unseen \/ Delivered!Next
  BY DEF Unseen
<1>1. ASSUME NEW i \in Instances, StartBackfill(i) PROVE Unseen
  BY <1>1, StartBackfillHarmless, HarmlessUnseen
<1>2. ASSUME NEW i \in Instances, StartDrain(i) PROVE Unseen
  BY <1>2, StartDrainHarmless, HarmlessUnseen
<1>3. ASSUME NEW i \in Instances, NEW m \in Live, StartWebhook(i, m) PROVE Unseen
  BY <1>3, StartWebhookHarmless, HarmlessUnseen
<1>4. ASSUME NEW i \in Instances, Work(i) PROVE Unseen \/ Delivered!Next
  <2>1. CASE ReadDoc(i)
    BY <2>1, ReadDocHarmless, HarmlessUnseen DEF DurableInv
  <2>2. CASE Fetch(i)
    BY <2>2, FetchHarmless, HarmlessUnseen
  <2>3. CASE \/ ListPending(i) \/ SkipDup(i) \/ SkipUnreadable(i) \/ Measure(i)
             \/ Buffer(i) \/ Alert(i) \/ StopDrain(i) \/ Finish(i)
    BY <2>3, LoopStepsHarmless, HarmlessUnseen
  <2>4. CASE Insert(i) \/ InsertError(i)
    BY <2>4, InsertDelivers
  <2>5. CASE Upload(i)
    BY <2>5, UploadDelivers
  <2>6. CASE Delete(i)
    BY <2>6, DeleteDelivers DEF DurableInv
  <2> QED
    BY <1>4, <2>1, <2>2, <2>3, <2>4, <2>5, <2>6 DEF Work
<1>5. ASSUME NEW i \in Instances, Crash(i) \/ Expire(i) PROVE Unseen
  BY <1>5, SameStoresUnseen DEF Crash, Expire, store
<1>6. ASSUME NEW m \in Live, Post(m) \/ DropRetry(m) PROVE Unseen
  BY <1>6, SameStoresUnseen DEF Post, DropRetry, store
<1>7. ASSUME NEW ch \in Channels, NEW route \in Routes[ch], EditRoute(ch, route)
      PROVE  Unseen
  BY <1>7, SameStoresUnseen DEF EditRoute, store
<1>8. CASE Quiet \/ UNCHANGED vars
  BY <1>8, SameStoresUnseen DEF Quiet, vars, store
<1> QED
  BY <1>1, <1>2, <1>3, <1>4, <1>5, <1>6, <1>7, <1>8 DEF Next

LEMMA DeliveryInit == Init => Delivered!Init
<1> SUFFICES ASSUME Init PROVE Delivered!Init
  OBVIOUS
<1>1. pending = {} /\ \A d \in DocIds : docs[d] = [text |-> <<>>, bytes |-> 0]
  BY DEF Init
<1>2. \A m \in Messages : Chars[m] \in Nat \ {0}
  BY InputsAssumption
<1>3. Written(<<>>) = {}
  BY <1>2, EmptyHoldsNothing DEF Written
<1>4. \A d \in DocIds : Written(docs[d].text) = {}
  BY <1>1, <1>3
<1> QED
  BY <1>1, <1>4 DEF Delivered!Init, InDocs, Buffered

\* Whatever the number of requests, instances, faults and edits, slack-sync keeps
\* the promise of Delivery: of a block that was written no character is lost, although
\* insertText (append_to_doc, src/shared/google_docs.py) may go to an index that has
\* come to lie inside it, and a block leaves the buffer (drain_channel,
\* src/slack-sync/main.py) only when all of it is in a doc.
THEOREM SlackSyncDelivers == Spec => ImplementsDelivery
<1>1. Spec => []TypeInv
  BY TypeCorrect
<1>2. Spec => []DurableInv
  BY DurableCorrect
<1> QED
  BY <1>1, <1>2, DeliveryInit, DeliveryStep, PTL
     DEF Spec, ImplementsDelivery, Delivered!Spec
=============================================================================
