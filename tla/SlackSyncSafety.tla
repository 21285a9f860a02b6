---------------------------- MODULE SlackSyncSafety ----------------------------
(***************************************************************************)
(* Proofs about what slack-sync does with a message on its way: to which   *)
(* docs it goes, that a request leaves none of its messages out, and that  *)
(* a drain keeps the order of its queue.                                   *)
(***************************************************************************)
EXTENDS SlackSyncDurability, FiniteSetTheorems

-----------------------------------------------------------------------------
(* What a step does to the request of its instance *)

Others(i) == \A j \in Instances \ {i} : req'[j] = req[j]

\* The request goes on with the same channel, at pc, with todo left and a text of
\* this many bytes.
Moves(i, pc, todo, bytes) ==
    /\ Others(i)
    /\ req'[i].pc = pc
    /\ req'[i].todo = todo
    /\ req'[i].bytes = bytes
    /\ req'[i].kind = req[i].kind
    /\ req'[i].chan = req[i].chan
    /\ req'[i].route = req[i].route
    /\ req'[i].left = req[i].left
    /\ req'[i].fetched = req[i].fetched
    /\ req[i].seen \subseteq req'[i].seen

\* The request ends, or comes to a channel x that is left and has done nothing there.
Turns(i, kind, left) ==
    /\ Others(i)
    /\ req'[i].todo = {}
    /\ req'[i].fetched = {}
    /\ req'[i].nread = 0
    /\ \/ req'[i].pc = "idle" /\ req'[i].kind = "none"
       \/ /\ req'[i].pc = "read"
          /\ req'[i].kind = kind
          /\ \E x \in left : /\ req'[i].chan = x.chan
                             /\ req'[i].route = x.route
                             /\ req'[i].left = left \ {x}

LEMMA BecomeStep ==
    ASSUME TypeInv, NEW i \in Instances, NEW r, Become(i, r)
    PROVE  Others(i) /\ req'[i] = r
  BY DEF Become, Others, TypeInv, TypeOK

\* The new request q differs from the old one in what Moves tells, and no more.
LEMMA MovesStep ==
    ASSUME TypeInv, NEW i \in Instances, NEW r, Become(i, r),
           NEW pc, NEW todo, NEW bytes,
           r.pc = pc, r.todo = todo, r.bytes = bytes,
           r.kind = req[i].kind, r.chan = req[i].chan, r.route = req[i].route,
           r.left = req[i].left, r.fetched = req[i].fetched,
           req[i].seen \subseteq r.seen
    PROVE  Moves(i, pc, todo, bytes)
  BY BecomeStep DEF Moves

LEMMA IdleTurns ==
    ASSUME TypeInv, NEW i \in Instances, Become(i, Idle), NEW kind, NEW left
    PROVE  Turns(i, kind, left)
<1>1. /\ Idle.pc = "idle" /\ Idle.kind = "none" /\ Idle.todo = {} /\ Idle.fetched = {}
      /\ Idle.nread = 0
  BY DEF Idle
<1> QED
  BY <1>1, BecomeStep DEF Turns

LEMMA NextTurns ==
    ASSUME TypeInv, NEW i \in Instances, NEW q, NextChannel(i, q)
    PROVE  Turns(i, q.kind, q.left)
<1>1. CASE Become(i, Idle)
  BY <1>1, IdleTurns
<1>2. CASE \E x \in q.left :
             Become(i, [Idle EXCEPT !.pc = "read", !.kind = q.kind, !.oldest = q.oldest,
                                    !.chan = x.chan, !.route = x.route,
                                    !.left = q.left \ {x}])
  <2>1. PICK x \in q.left :
          Become(i, [Idle EXCEPT !.pc = "read", !.kind = q.kind, !.oldest = q.oldest,
                                 !.chan = x.chan, !.route = x.route,
                                 !.left = q.left \ {x}])
    BY <1>2
  <2>2. PICK r : r = [Idle EXCEPT !.pc = "read", !.kind = q.kind, !.oldest = q.oldest,
                                  !.chan = x.chan, !.route = x.route,
                                  !.left = q.left \ {x}]
    OBVIOUS
  <2>3. /\ r.pc = "read" /\ r.kind = q.kind /\ r.todo = {} /\ r.fetched = {}
        /\ r.nread = 0
        /\ r.chan = x.chan /\ r.route = x.route /\ r.left = q.left \ {x}
    BY <2>2 DEF Idle
  <2> QED
    BY <2>1, <2>2, <2>3, BecomeStep DEF Turns
<1> QED
  BY <1>1, <1>2 DEF NextChannel

LEMMA ReadDocMoves ==
    ASSUME TypeInv, NEW i \in Instances, ReadDoc(i)
    PROVE  \E pc \in {"read", AfterRead(req[i].kind)}, bytes \in Nat :
              /\ Moves(i, pc, req[i].todo, bytes)
              /\ pc # "read" /\ "read" \notin FaultKinds
                   => docs[Target(i)].bytes <= bytes
              /\ req'[i].nread = req[i].nread + 1
              /\ pc # "read" => req[i].nread + 1 = Len(req[i].route)
              /\ "read" \notin FaultKinds =>
                   Legible(docs[req[i].route[req[i].nread + 1]].text) \subseteq req'[i].seen
<1>1. PICK q \in Request : q = req[i] /\ RequestShape(q)
  BY RequestFacts
<1>2. /\ q.pc = "read"
      /\ q.route \in Seq(DocIds) /\ q.route # <<>> /\ q.bytes \in Nat
      /\ q.nread \in Nat /\ Len(q.route) \in Nat /\ q.nread < Len(q.route)
  BY <1>1 DEF ReadDoc, Request, RequestShape
<1> DEFINE doc  == docs[q.route[q.nread + 1]]
           last == q.nread + 1 = Len(q.route)
<1>3. doc \in Doc
  BY <1>2 DEF TypeInv, TypeOK
<1>4. last => doc = docs[Target(i)]
  BY <1>1, <1>2 DEF Target, Last
<1> HIDE DEF doc, last
<1>5. PICK seen, bytes :
         /\ \/ bytes = q.bytes + doc.bytes /\ seen = q.seen \cup Legible(doc.text)
            \/ bytes = q.bytes /\ seen = q.seen /\ Fault("read")
         /\ Become(i, [q EXCEPT !.nread = @ + 1, !.seen = seen, !.bytes = bytes,
                                !.pc = IF last THEN AfterRead(q.kind) ELSE "read"])
  BY <1>1 DEF ReadDoc, doc, last
<1>6. PICK pc \in {"read", AfterRead(q.kind)} :
        /\ pc = IF last THEN AfterRead(q.kind) ELSE "read"
        /\ pc # "read" => last
  OBVIOUS
<1>7. PICK r : r = [q EXCEPT !.nread = @ + 1, !.seen = seen, !.bytes = bytes, !.pc = pc]
  OBVIOUS
<1>8. Others(i) /\ req'[i] = r
  BY <1>5, <1>6, <1>7, BecomeStep
<1>9. /\ r.pc = pc /\ r.todo = q.todo /\ r.bytes = bytes /\ r.kind = q.kind
      /\ r.chan = q.chan /\ r.route = q.route /\ r.left = q.left /\ r.fetched = q.fetched
      /\ r.seen = seen /\ r.nread = q.nread + 1
  BY <1>7 DEF Request
<1>10. doc.bytes \in Nat /\ bytes \in Nat
  BY <1>2, <1>3, <1>5 DEF Doc
<1>11. /\ Moves(i, pc, q.todo, bytes)
       /\ req'[i].nread = q.nread + 1
  <2>1. q.seen \subseteq seen
    BY <1>5
  <2> QED
    BY <1>1, <1>8, <1>9, <2>1 DEF Moves
<1>12. ASSUME pc # "read", "read" \notin FaultKinds
       PROVE  docs[Target(i)].bytes <= bytes
  <2>1. bytes = q.bytes + doc.bytes /\ doc = docs[Target(i)]
    BY <1>4, <1>5, <1>6, <1>12 DEF Fault
  <2> QED
    BY <1>2, <1>10, <2>1
<1>13. pc # "read" => q.nread + 1 = Len(q.route)
  BY <1>6 DEF last
<1>14. ASSUME "read" \notin FaultKinds
       PROVE  Legible(docs[q.route[q.nread + 1]].text) \subseteq req'[i].seen
  <2>1. Legible(doc.text) \subseteq seen
    BY <1>5, <1>14 DEF Fault
  <2> QED
    BY <1>8, <1>9, <2>1 DEF doc
<1> QED
  BY <1>1, <1>10, <1>11, <1>12, <1>13, <1>14

\* A backfill's messages are all of its channel.
LEMMA FetchStep ==
    ASSUME TypeInv, NEW i \in Instances, Fetch(i)
    PROVE  \/ Turns(i, req[i].kind, req[i].left)
           \/ \E got \in SUBSET {m \in Messages : Channel[m] = req[i].chan} :
                /\ Others(i)
                /\ req'[i].pc = "loop"
                /\ req'[i].fetched = got
                /\ req'[i].todo = {[at |-> 0, msg |-> m] : m \in got}
                /\ req'[i].bytes = req[i].bytes
                /\ req'[i].kind = req[i].kind
                /\ req'[i].chan = req[i].chan
                /\ req'[i].route = req[i].route
                /\ req'[i].left = req[i].left
                /\ req'[i].seen = req[i].seen
<1>1. PICK q \in Request : q = req[i]
  BY RequestFacts
<1>2. PICK got \in SUBSET {m \in posted : Channel[m] = q.chan /\ m >= q.oldest} :
         \/ NextChannel(i, q)
         \/ Become(i, [q EXCEPT !.pc = "loop", !.fetched = got,
                                !.todo = {[at |-> 0, msg |-> m] : m \in got}])
  BY <1>1 DEF Fetch
<1>3. got \in SUBSET {m \in Messages : Channel[m] = q.chan}
  BY DEF TypeInv, TypeOK
<1>4. CASE NextChannel(i, q)
  BY <1>1, <1>4, NextTurns
<1>5. CASE Become(i, [q EXCEPT !.pc = "loop", !.fetched = got,
                               !.todo = {[at |-> 0, msg |-> m] : m \in got}])
  <2>1. PICK todo : todo = {[at |-> 0, msg |-> m] : m \in got}
    OBVIOUS
  <2>2. PICK r : r = [q EXCEPT !.pc = "loop", !.fetched = got, !.todo = todo]
    OBVIOUS
  <2>3. /\ r.pc = "loop" /\ r.fetched = got /\ r.todo = todo
        /\ r.bytes = q.bytes /\ r.kind = q.kind /\ r.chan = q.chan
        /\ r.route = q.route /\ r.left = q.left /\ r.seen = q.seen
    BY <2>2 DEF Request
  <2>4. Others(i) /\ req'[i] = r
    BY <1>5, <2>1, <2>2, BecomeStep
  <2> QED
    BY <1>1, <1>3, <2>1, <2>3, <2>4
<1> QED
  BY <1>2, <1>4, <1>5

LEMMA ListPendingStep ==
    ASSUME TypeInv, NEW i \in Instances, ListPending(i)
    PROVE  \/ Turns(i, req[i].kind, req[i].left)
           \/ Moves(i, "loop", Waiting(req[i].chan), req[i].bytes)
<1>1. PICK q \in Request : q = req[i]
  BY RequestFacts
<1>2. PICK mine : mine = Waiting(q.chan)
  OBVIOUS
<1>3. Become(i, [q EXCEPT !.pc = "loop", !.todo = mine]) \/ Become(i, Idle)
  BY <1>1, <1>2 DEF ListPending, Waiting
<1>4. CASE Become(i, [q EXCEPT !.pc = "loop", !.todo = mine])
  <2>1. PICK r : r = [q EXCEPT !.pc = "loop", !.todo = mine]
    OBVIOUS
  <2>2. /\ r.pc = "loop" /\ r.todo = mine /\ r.bytes = q.bytes /\ r.kind = q.kind
        /\ r.chan = q.chan /\ r.route = q.route /\ r.left = q.left /\ r.fetched = q.fetched
        /\ q.seen \subseteq r.seen
    BY <2>1 DEF Request
  <2>3. Become(i, r)
    BY <1>4, <2>1
  <2>4. Moves(i, "loop", mine, q.bytes)
    BY <1>1, <2>2, <2>3, MovesStep
  <2> QED
    BY <1>1, <1>2, <2>4
<1> QED
  BY <1>3, <1>4, IdleTurns

LEMMA SkipDupMoves ==
    ASSUME TypeInv, NEW i \in Instances, SkipDup(i)
    PROVE  \E it \in req[i].todo :
              /\ Current(i, it) /\ IsDup(i, it.msg)
              /\ Moves(i, "loop", Rest(i, it), req[i].bytes)
<1>1. PICK q \in Request : q = req[i]
  BY RequestFacts
<1>2. PICK it \in q.todo :
        /\ Current(i, it) /\ IsDup(i, it.msg)
        /\ Become(i, [q EXCEPT !.todo = Rest(i, it)])
  BY <1>1 DEF SkipDup
<1>3. q.pc = "loop"
  BY <1>1 DEF SkipDup
<1>4. Moves(i, "loop", Rest(i, it), q.bytes)
  <2>1. PICK r : r = [q EXCEPT !.todo = Rest(i, it)]
    OBVIOUS
  <2>2. /\ r.pc = "loop" /\ r.todo = Rest(i, it) /\ r.bytes = q.bytes /\ r.kind = q.kind
        /\ r.chan = q.chan /\ r.route = q.route /\ r.left = q.left /\ r.fetched = q.fetched
        /\ q.seen \subseteq r.seen
    BY <2>1, <1>3 DEF Request
  <2>3. Become(i, r)
    BY <1>2, <2>1
  <2> QED
    BY <1>1, <2>2, <2>3, MovesStep
<1> QED
  BY <1>1, <1>2, <1>4

LEMMA SkipUnreadableMoves ==
    ASSUME TypeInv, NEW i \in Instances, SkipUnreadable(i)
    PROVE  \E it \in req[i].todo :
              /\ Current(i, it)
              /\ \/ it \notin pending /\ UNCHANGED faults
                 \/ Fault("download")
              /\ Moves(i, "loop", Rest(i, it), req[i].bytes)
<1>1. PICK q \in Request : q = req[i]
  BY RequestFacts
<1>2. PICK it \in q.todo :
        /\ Current(i, it)
        /\ \/ it \notin pending /\ UNCHANGED faults
           \/ Fault("download")
        /\ Become(i, [q EXCEPT !.todo = Rest(i, it)])
  BY <1>1 DEF SkipUnreadable
<1>3. q.pc = "loop"
  BY <1>1 DEF SkipUnreadable
<1>4. Moves(i, "loop", Rest(i, it), q.bytes)
  <2>1. PICK r : r = [q EXCEPT !.todo = Rest(i, it)]
    OBVIOUS
  <2>2. /\ r.pc = "loop" /\ r.todo = Rest(i, it) /\ r.bytes = q.bytes /\ r.kind = q.kind
        /\ r.chan = q.chan /\ r.route = q.route /\ r.left = q.left /\ r.fetched = q.fetched
        /\ q.seen \subseteq r.seen
    BY <2>1, <1>3 DEF Request
  <2>3. Become(i, r)
    BY <1>2, <2>1
  <2> QED
    BY <1>1, <2>2, <2>3, MovesStep
<1> QED
  BY <1>1, <1>2, <1>4

LEMMA MeasureMoves ==
    ASSUME TypeInv, NEW i \in Instances, Measure(i)
    PROVE  /\ Moves(i, "insert", req[i].todo, req[i].bytes)
           /\ req'[i].seen = req[i].seen
           /\ req'[i].end = Len(docs[Target(i)].text)
           /\ \E it \in req[i].todo :
                 /\ Current(i, it) /\ ~IsFull(i, it.msg)
                 /\ req[i].kind # "drain" => ~IsDup(i, it.msg)
<1>1. PICK q \in Request : q = req[i]
  BY RequestFacts
<1>2. PICK n : /\ n = Len(docs[Target(i)].text)
               /\ Become(i, [q EXCEPT !.pc = "insert", !.end = n])
  BY <1>1 DEF Measure
<1>3. /\ Moves(i, "insert", req[i].todo, req[i].bytes)
      /\ req'[i].seen = req[i].seen /\ req'[i].end = n
  <2>1. PICK r : r = [q EXCEPT !.pc = "insert", !.end = n]
    OBVIOUS
  <2>2. /\ r.pc = "insert" /\ r.todo = q.todo /\ r.bytes = q.bytes /\ r.kind = q.kind
        /\ r.chan = q.chan /\ r.route = q.route /\ r.left = q.left /\ r.fetched = q.fetched
        /\ r.seen = q.seen /\ r.end = n
    BY <2>1 DEF Request
  <2>3. Become(i, r)
    BY <1>2, <2>1
  <2>4. Moves(i, "insert", q.todo, q.bytes)
    BY <1>1, <2>2, <2>3, MovesStep
  <2>5. req'[i].seen = q.seen /\ req'[i].end = n
    BY <2>2, <2>3, BecomeStep
  <2> QED
    BY <1>1, <2>4, <2>5
<1>4. \E it \in req[i].todo :
         /\ Current(i, it) /\ ~IsFull(i, it.msg)
         /\ req[i].kind # "drain" => ~IsDup(i, it.msg)
  BY DEF Measure, Writable
<1> QED
  BY <1>2, <1>3, <1>4

LEMMA InsertMoves ==
    ASSUME TypeInv, NEW i \in Instances, Insert(i)
    PROVE  \E it \in req[i].todo :
              /\ Current(i, it)
              /\ Write(Target(i), req[i].end, it.msg)
              /\ req'[i].seen = req[i].seen \cup {it.msg}
              /\ IF req[i].kind = "drain"
                 THEN Moves(i, "delete", req[i].todo, req[i].bytes + Size[it.msg])
                 ELSE Moves(i, "loop", Rest(i, it), req[i].bytes + Size[it.msg])
<1>1. PICK q \in Request : q = req[i]
  BY RequestFacts
<1>2. PICK it \in q.todo :
        /\ Current(i, it)
        /\ Write(Target(i), q.end, it.msg)
        /\ Become(i, IF q.kind = "drain"
                     THEN [q EXCEPT !.pc = "delete", !.seen = q.seen \cup {it.msg},
                                    !.bytes = q.bytes + Size[it.msg]]
                     ELSE [q EXCEPT !.pc = "loop", !.seen = q.seen \cup {it.msg},
                                    !.bytes = q.bytes + Size[it.msg],
                                    !.todo = Rest(i, it)])
  BY <1>1 DEF Insert
<1>3. PICK seen, size : seen = q.seen \cup {it.msg} /\ size = q.bytes + Size[it.msg]
  OBVIOUS
<1>4. CASE q.kind = "drain"
  <2>1. Become(i, [q EXCEPT !.pc = "delete", !.seen = seen, !.bytes = size])
    BY <1>2, <1>3, <1>4
  <2>2. Moves(i, "delete", q.todo, size) /\ req'[i].seen = seen
    <3>1. PICK r : r = [q EXCEPT !.pc = "delete", !.seen = seen, !.bytes = size]
      OBVIOUS
    <3>2. /\ r.pc = "delete" /\ r.todo = q.todo /\ r.bytes = size /\ r.kind = q.kind
          /\ r.chan = q.chan /\ r.route = q.route /\ r.left = q.left /\ r.fetched = q.fetched
          /\ r.seen = seen
      BY <3>1 DEF Request
    <3>3. Become(i, r)
      BY <2>1, <3>1
    <3> QED
      BY <1>1, <1>3, <3>2, <3>3, BecomeStep, MovesStep
  <2> QED
    BY <1>1, <1>2, <1>3, <1>4, <2>2
<1>5. CASE q.kind # "drain"
  <2>1. PICK rest : rest = Rest(i, it)
    OBVIOUS
  <2>2. Become(i, [q EXCEPT !.pc = "loop", !.seen = seen, !.bytes = size, !.todo = rest])
    BY <1>2, <1>3, <1>5, <2>1
  <2>3. Moves(i, "loop", rest, size) /\ req'[i].seen = seen
    <3>1. PICK r : r = [q EXCEPT !.pc = "loop", !.seen = seen, !.bytes = size, !.todo = rest]
      OBVIOUS
    <3>2. /\ r.pc = "loop" /\ r.todo = rest /\ r.bytes = size /\ r.kind = q.kind
          /\ r.chan = q.chan /\ r.route = q.route /\ r.left = q.left /\ r.fetched = q.fetched
          /\ r.seen = seen
      BY <3>1 DEF Request
    <3>3. Become(i, r)
      BY <2>2, <3>1
    <3> QED
      BY <1>1, <1>3, <3>2, <3>3, BecomeStep, MovesStep
  <2> QED
    BY <1>1, <1>2, <1>3, <1>5, <2>1, <2>3
<1> QED
  BY <1>4, <1>5

LEMMA InsertErrorStep ==
    ASSUME TypeInv, NEW i \in Instances, InsertError(i)
    PROVE  \E it \in req[i].todo :
              /\ Current(i, it)
              /\ \/ Fault("append") /\ docs' = docs
                 \/ Fault("appendReply") /\ Write(Target(i), req[i].end, it.msg)
              /\ IF req[i].kind = "drain"
                 THEN Moves(i, "loop", Rest(i, it), req[i].bytes)
                 ELSE Turns(i, req[i].kind, req[i].left)
<1>1. PICK q \in Request : q = req[i]
  BY RequestFacts
<1>2. PICK it \in q.todo :
        /\ Current(i, it)
        /\ \/ Fault("append") /\ docs' = docs
           \/ Fault("appendReply") /\ Write(Target(i), q.end, it.msg)
        /\ IF q.kind = "drain"
           THEN Become(i, [q EXCEPT !.pc = "loop", !.todo = Rest(i, it)])
           ELSE NextChannel(i, q)
  BY <1>1 DEF InsertError
<1>3. ASSUME Become(i, [q EXCEPT !.pc = "loop", !.todo = Rest(i, it)])
      PROVE  Moves(i, "loop", Rest(i, it), q.bytes)
  <2>1. PICK r : r = [q EXCEPT !.pc = "loop", !.todo = Rest(i, it)]
    OBVIOUS
  <2>2. /\ r.pc = "loop" /\ r.todo = Rest(i, it) /\ r.bytes = q.bytes /\ r.kind = q.kind
        /\ r.chan = q.chan /\ r.route = q.route /\ r.left = q.left /\ r.fetched = q.fetched
        /\ q.seen \subseteq r.seen
    BY <2>1 DEF Request
  <2>3. Become(i, r)
    BY <1>3, <2>1
  <2> QED
    BY <1>1, <2>2, <2>3, MovesStep
<1>4. NextChannel(i, q) => Turns(i, q.kind, q.left)
  BY NextTurns
<1> QED
  BY <1>1, <1>2, <1>3, <1>4

LEMMA BufferMoves ==
    ASSUME TypeInv, NEW i \in Instances, Buffer(i)
    PROVE  /\ Moves(i, "upload", req[i].todo, req[i].bytes)
           /\ req'[i].stamp = now'
           /\ now <= now'
<1>1. PICK q \in Request : q = req[i]
  BY RequestFacts
<1>2. PICK dt \in 0..1 : /\ now' = now + dt
                         /\ Become(i, [q EXCEPT !.pc = "upload", !.stamp = now + dt])
  BY <1>1 DEF Buffer
<1>3. PICK n : n = now + dt
  OBVIOUS
<1>4. PICK r : r = [q EXCEPT !.pc = "upload", !.stamp = n]
  OBVIOUS
<1>5. /\ r.pc = "upload" /\ r.todo = q.todo /\ r.bytes = q.bytes /\ r.kind = q.kind
      /\ r.chan = q.chan /\ r.route = q.route /\ r.left = q.left /\ r.fetched = q.fetched
      /\ q.seen \subseteq r.seen /\ r.stamp = n
  BY <1>4 DEF Request
<1>6. Become(i, r)
  BY <1>2, <1>3, <1>4
<1>7. Moves(i, "upload", q.todo, q.bytes) /\ req'[i] = r
  BY <1>1, <1>5, <1>6, MovesStep, BecomeStep
<1>8. now \in Nat
  BY BoundsAssumption DEF TypeInv, TypeOK
<1>9. now <= now'
  BY <1>2, <1>8
<1> QED
  BY <1>1, <1>2, <1>3, <1>5, <1>7, <1>9

LEMMA UploadMoves ==
    ASSUME TypeInv, NEW i \in Instances, Upload(i)
    PROVE  \E it \in req[i].todo, pc \in {"loop", "alert"} :
              /\ Current(i, it)
              /\ \/ Publish(req[i].stamp, it.msg) /\ UNCHANGED faults
                 \/ Fault("enqueue") /\ UNCHANGED <<pending, accepted>>
              /\ Moves(i, pc, Rest(i, it), req[i].bytes)
<1>1. PICK q \in Request : q = req[i]
  BY RequestFacts
<1>2. PICK it \in q.todo :
        /\ Current(i, it)
        /\ \/ Publish(q.stamp, it.msg) /\ UNCHANGED faults
           \/ Fault("enqueue") /\ UNCHANGED <<pending, accepted>>
        /\ Become(i, Enqueued(q, it))
  BY <1>1 DEF Upload
<1>3. PICK todo \in SUBSET Item, pc \in {"loop", "alert"} :
        /\ todo = q.todo \ {it}
        /\ pc = IF q.kind = "backfill" /\ ~q.capHit THEN "alert" ELSE "loop"
        /\ Enqueued(q, it) = [q EXCEPT !.stamp = 0, !.capHit = TRUE,
                                       !.todo = todo, !.pc = pc]
        /\ Enqueued(q, it) \in Request
  BY EnqueuedType, Zenon
<1>4. PICK r : r = Enqueued(q, it)
  OBVIOUS
<1>5. /\ r.pc = pc /\ r.todo = todo /\ r.bytes = q.bytes /\ r.kind = q.kind
      /\ r.chan = q.chan /\ r.route = q.route /\ r.left = q.left /\ r.fetched = q.fetched
      /\ q.seen \subseteq r.seen
  BY <1>3, <1>4 DEF Request
<1>6. Moves(i, pc, todo, q.bytes)
  BY <1>1, <1>2, <1>4, <1>5, MovesStep
<1>7. todo = Rest(i, it)
  BY <1>1, <1>3 DEF Rest
<1> QED
  BY <1>1, <1>2, <1>6, <1>7

LEMMA AlertStep ==
    ASSUME TypeInv, NEW i \in Instances, Alert(i)
    PROVE  \/ Turns(i, req[i].kind, req[i].left)
           \/ Moves(i, "loop", req[i].todo, req[i].bytes)
<1>1. PICK q \in Request : q = req[i]
  BY RequestFacts
<1>2. Become(i, [q EXCEPT !.pc = "loop"]) \/ NextChannel(i, q)
  BY <1>1 DEF Alert
<1>3. ASSUME Become(i, [q EXCEPT !.pc = "loop"])
      PROVE  Moves(i, "loop", q.todo, q.bytes)
  <2>1. PICK r : r = [q EXCEPT !.pc = "loop"]
    OBVIOUS
  <2>2. /\ r.pc = "loop" /\ r.todo = q.todo /\ r.bytes = q.bytes /\ r.kind = q.kind
        /\ r.chan = q.chan /\ r.route = q.route /\ r.left = q.left /\ r.fetched = q.fetched
        /\ q.seen \subseteq r.seen
    BY <2>1 DEF Request
  <2>3. Become(i, r)
    BY <1>3, <2>1
  <2> QED
    BY <1>1, <2>2, <2>3, MovesStep
<1> QED
  BY <1>1, <1>2, <1>3, NextTurns

LEMMA DeleteMoves ==
    ASSUME TypeInv, NEW i \in Instances, Delete(i)
    PROVE  \E it \in req[i].todo :
              /\ Current(i, it)
              /\ \/ pending' = pending \ {it} /\ UNCHANGED faults
                 \/ pending' = pending /\ Fault("delete")
              /\ Moves(i, "loop", Rest(i, it), req[i].bytes)
<1>1. PICK q \in Request : q = req[i]
  BY RequestFacts
<1>2. PICK it \in q.todo :
        /\ Current(i, it)
        /\ \/ pending' = pending \ {it} /\ UNCHANGED faults
           \/ pending' = pending /\ Fault("delete")
        /\ Become(i, [q EXCEPT !.pc = "loop", !.todo = Rest(i, it)])
  BY <1>1 DEF Delete
<1>3. Moves(i, "loop", Rest(i, it), q.bytes)
  <2>1. PICK r : r = [q EXCEPT !.pc = "loop", !.todo = Rest(i, it)]
    OBVIOUS
  <2>2. /\ r.pc = "loop" /\ r.todo = Rest(i, it) /\ r.bytes = q.bytes /\ r.kind = q.kind
        /\ r.chan = q.chan /\ r.route = q.route /\ r.left = q.left /\ r.fetched = q.fetched
        /\ q.seen \subseteq r.seen
    BY <2>1 DEF Request
  <2>3. Become(i, r)
    BY <1>2, <2>1
  <2> QED
    BY <1>1, <2>2, <2>3, MovesStep
<1> QED
  BY <1>1, <1>2, <1>3

LEMMA EndTurns ==
    ASSUME TypeInv, NEW i \in Instances, StopDrain(i) \/ Finish(i)
    PROVE  Turns(i, req[i].kind, req[i].left)
<1>1. NextChannel(i, req[i]) \/ Become(i, Idle)
  BY DEF StopDrain, Finish
<1> QED
  BY <1>1, NextTurns, IdleTurns
LEMMA StartStep ==
    ASSUME TypeInv, NEW i \in Instances, StartBackfill(i) \/ StartDrain(i)
    PROVE  \E lists : \E channels \in SUBSET Channels, kind \in {"backfill", "drain"} :
              LoadMapping(i, lists) /\ Turns(i, kind, Stops(channels, lists))
<1>1. CASE StartBackfill(i)
  <2>1. PICK m \in {mapping, mapCache[i].lists}, oldest \in OldestArgs,
             wanted \in {{ch} : ch \in Channels} \cup {Channels} :
          /\ LoadMapping(i, m)
          /\ NextChannel(i, [Idle EXCEPT !.kind = "backfill", !.oldest = oldest,
                                         !.left = Stops(wanted, m)])
    BY <1>1 DEF StartBackfill
  <2>2. PICK q : q = [Idle EXCEPT !.kind = "backfill", !.oldest = oldest,
                                  !.left = Stops(wanted, m)]
    OBVIOUS
  <2>3. q.kind = "backfill" /\ q.left = Stops(wanted, m)
    BY <2>2 DEF Idle
  <2>4. NextChannel(i, q)
    BY <2>1, <2>2
  <2>5. Turns(i, q.kind, q.left)
    BY <2>4, NextTurns
  <2>6. Turns(i, "backfill", Stops(wanted, m))
    BY <2>3, <2>5
  <2>7. wanted \in SUBSET Channels
    OBVIOUS
  <2> QED
    BY <2>1, <2>6, <2>7, Zenon
<1>2. CASE StartDrain(i)
  <2>1. PICK waiting : waiting = {Channel[p.msg] : p \in pending}
    OBVIOUS
  <2>2. PICK m : /\ LoadMapping(i, m)
                 /\ NextChannel(i, [Idle EXCEPT !.kind = "drain",
                                                !.left = Stops(waiting, m)])
    BY <1>2, <2>1 DEF StartDrain
  <2>3. PICK q : q = [Idle EXCEPT !.kind = "drain", !.left = Stops(waiting, m)]
    OBVIOUS
  <2>4. q.kind = "drain" /\ q.left = Stops(waiting, m)
    BY <2>3 DEF Idle
  <2>5. NextChannel(i, q)
    BY <2>2, <2>3
  <2>6. Turns(i, q.kind, q.left)
    BY <2>5, NextTurns
  <2>7. waiting \in SUBSET Channels
    BY <2>1, InputsAssumption DEF TypeInv, TypeOK, Item
  <2>8. Turns(i, "drain", Stops(waiting, m))
    BY <2>4, <2>6
  <2> QED
    BY <2>2, <2>7, <2>8, Zenon
<1> QED
  BY <1>1, <1>2

\* A webhook's request has one item, its message.
LEMMA StartWebhookStep ==
    ASSUME TypeInv, NEW i \in Instances, NEW m \in Live, StartWebhook(i, m)
    PROVE  \E lists : LET route == lists[Channel[m]] IN
              /\ LoadMapping(i, lists)
              /\ Others(i)
              /\ \/ req'[i] = Idle
                 \/ /\ route # <<>>
                    /\ req'[i].pc \in {"read", "loop"}
                    /\ req'[i].kind = "webhook"
                    /\ req'[i].chan = Channel[m]
                    /\ req'[i].route = route
                    /\ req'[i].left = {}
                    /\ req'[i].fetched = {m}
                    /\ req'[i].todo = {[at |-> 0, msg |-> m]}
<1> DEFINE entry == webCache[i][Channel[m]]
           begun(route) == [Idle EXCEPT !.kind = "webhook", !.chan = Channel[m],
                                        !.route = route, !.fetched = {m},
                                        !.todo = {[at |-> 0, msg |-> m]}]
           r(route) == IF route = <<>> THEN Idle
                       ELSE IF entry.route = route
                       THEN [begun(route) EXCEPT !.pc = "loop", !.seen = entry.seen,
                                                 !.bytes = entry.bytes]
                       ELSE [begun(route) EXCEPT !.pc = "read"]
<1>1. PICK lists : LoadMapping(i, lists) /\ Become(i, r(lists[Channel[m]]))
  BY DEF StartWebhook
<1>2. PICK route : route = lists[Channel[m]]
  OBVIOUS
<1>3. PICK q : q = r(route)
  OBVIOUS
<1>4. \/ q = Idle
      \/ /\ route # <<>> /\ q.pc \in {"read", "loop"} /\ q.kind = "webhook"
         /\ q.chan = Channel[m] /\ q.route = route /\ q.left = {}
         /\ q.fetched = {m} /\ q.todo = {[at |-> 0, msg |-> m]}
  BY <1>3 DEF Idle
<1>5. Become(i, q)
  BY <1>1, <1>2, <1>3
<1>6. Others(i) /\ req'[i] = q
  BY <1>5, BecomeStep
<1> QED
  BY <1>1, <1>2, <1>4, <1>6

LEMMA CrashStep ==
    ASSUME TypeInv, NEW i \in Instances, Crash(i)
    PROVE  Turns(i, "none", {}) /\ docs' = docs /\ pending' = pending
  BY IdleTurns DEF Crash, store

\* The tail doc of a request's list, written at the place measured.
LEMMA WriteContent ==
    ASSUME TypeInv, NEW i \in Instances, req[i].pc = "insert",
           NEW it \in req[i].todo, Write(Target(i), req[i].end, it.msg)
    PROVE  \E d \in DocIds, m \in Messages :
             \E k \in 0..Len(docs[d].text) :
              /\ d = Target(i) /\ m = it.msg /\ k = req[i].end
              /\ docs'[d].text = Spliced(docs[d].text, k, Block(m, Chars[m]))
              /\ Written(docs'[d].text) = Written(docs[d].text) \cup {m}
              /\ docs'[d].bytes = docs[d].bytes + Size[m]
              /\ \A e \in DocIds \ {d} : docs'[e] = docs[e]
              /\ InDocs' = InDocs \cup {m}
<1>1. PICK d \in DocIds : d = Target(i)
  BY InsertPosition
<1>2. PICK m \in Messages : m = it.msg
  BY ItemType
<1>3. PICK k \in 0..Len(docs[d].text) : k = req[i].end
  BY <1>1, InsertPosition
<1>4. Write(d, k, m) /\ docs \in [DocIds -> Doc]
  BY <1>1, <1>2, <1>3 DEF TypeInv, TypeOK
<1>5. /\ docs'[d].text = Spliced(docs[d].text, k, Block(m, Chars[m]))
      /\ Written(docs'[d].text) = Written(docs[d].text) \cup {m}
      /\ \A e \in DocIds \ {d} : docs'[e] = docs[e]
      /\ InDocs' = InDocs \cup {m}
  BY <1>4, WriteStep
<1>6. docs'[d].bytes = docs[d].bytes + Size[m]
  <2>1. PICK text : text = Spliced(docs[d].text, k, Block(m, Chars[m]))
    OBVIOUS
  <2>2. docs' = [docs EXCEPT ![d] = [text |-> text, bytes |-> docs[d].bytes + Size[m]]]
    BY <1>4, <2>1 DEF Write
  <2> QED
    BY <1>4, <2>2
<1> QED
  BY <1>1, <1>2, <1>3, <1>5, <1>6

-----------------------------------------------------------------------------
(* Messages stay in the docs of their channel *)

\* The list a request works with, and those it has left, are of their channels, as
\* are the items it has left: lists come from the mapping, items from the history
\* of the channel or from its partition of the buffer.
Own(i) ==
    req[i].pc # "idle" =>
        /\ req[i].chan \in Channels
        /\ req[i].route \in Routes[req[i].chan]
        /\ \A x \in req[i].left : x.route \in Routes[x.chan]
        /\ \A it \in req[i].todo : Channel[it.msg] = req[i].chan

Published == \A ch \in Channels : mapping[ch] \in Routes[ch]

Cached(i) == \A ch \in Channels : mapCache[i].lists[ch] \in Routes[ch] \cup {<<>>}

ApartInv ==
    /\ \A i \in Instances : Own(i) /\ Cached(i)
    /\ Published
    /\ KeptApart

LEMMA TurnsOwn ==
    ASSUME TypeInv, NEW i \in Instances, NEW kind, NEW left, Turns(i, kind, left),
           \A x \in left : x.chan \in Channels /\ x.route \in Routes[x.chan]
    PROVE  Own(i)'
  BY DEF Turns, Own

LEMMA LeftOwn ==
    ASSUME TypeInv, NEW i \in Instances, Own(i), req[i].pc # "idle"
    PROVE  \A x \in req[i].left : x.chan \in Channels /\ x.route \in Routes[x.chan]
<1>1. req[i].left \subseteq Stop
  BY RequestFacts DEF Request
<1> QED
  BY <1>1 DEF Own, Stop

LEMMA MovesOwn ==
    ASSUME NEW i \in Instances, Own(i), req[i].pc # "idle",
           NEW pc, NEW todo, NEW bytes, Moves(i, pc, todo, bytes),
           \A it \in todo : Channel[it.msg] = req[i].chan
    PROVE  Own(i)'
  BY DEF Moves, Own

\* What load_mapping returns, and what it caches.
LEMMA LoadOwn ==
    ASSUME TypeInv, ApartInv, NEW i \in Instances, NEW m, LoadMapping(i, m)
    PROVE  /\ \A ch \in Channels : m[ch] \in Routes[ch] \cup {<<>>}
           /\ \A j \in Instances : Cached(j)'
<1>1. mapCache \in [Instances -> MapEntry]
  BY DEF TypeInv, TypeOK
<1>2. CASE mapCache' = mapCache /\ m = mapCache[i].lists
  BY <1>2 DEF ApartInv, Cached
<1>3. CASE /\ m = mapping
           /\ mapCache' = [mapCache EXCEPT ![i] = [lists |-> mapping, fresh |-> TRUE]]
  <2>1. mapCache'[i].lists = mapping
    BY <1>1, <1>3
  <2>2. \A j \in Instances \ {i} : mapCache'[j] = mapCache[j]
    BY <1>1, <1>3
  <2> QED
    BY <1>3, <2>1, <2>2 DEF ApartInv, Cached, Published
<1> QED
  BY <1>2, <1>3 DEF LoadMapping

LEMMA StopsOwn ==
    ASSUME NEW m, NEW channels \in SUBSET Channels,
           \A ch \in Channels : m[ch] \in Routes[ch] \cup {<<>>}
    PROVE  \A x \in Stops(channels, m) : x.chan \in Channels /\ x.route \in Routes[x.chan]
  BY DEF Stops

\* An insertion of the request's own item goes to a doc of its own list.
LEMMA WriteOwn ==
    ASSUME TypeInv, ApartInv, NEW i \in Instances, req[i].pc = "insert",
           NEW it \in req[i].todo, Write(Target(i), req[i].end, it.msg)
    PROVE  KeptApart'
<1>1. PICK d \in DocIds, m \in Messages :
        \E k \in 0..Len(docs[d].text) :
           /\ d = Target(i) /\ m = it.msg
           /\ docs'[d].text = Spliced(docs[d].text, k, Block(m, Chars[m]))
           /\ \A e \in DocIds \ {d} : docs'[e] = docs[e]
  BY WriteContent
<1>2. PICK text, t, C : text = docs[d].text /\ t = docs'[d].text /\ C = Messages \X Nat
  OBVIOUS
<1>3. PICK k \in 0..Len(text) : t = Spliced(text, k, Block(m, Chars[m]))
  BY <1>1, <1>2
<1>4. text \in Seq(C) /\ Chars[m] \in Nat /\ Block(m, Chars[m]) \in Seq(C)
  BY <1>2, BlockType, InputsAssumption DEF TypeInv, TypeOK, Doc
<1>5. \A s \in DOMAIN t :
         \/ \E j \in DOMAIN text : t[s] = text[j]
         \/ \E n \in 1..Chars[m] : t[s] = <<m, n>>
  BY <1>3, <1>4, SplicedOrigins
<1>6. req[i].route \in Routes[Channel[m]]
  BY <1>1 DEF ApartInv, Own
<1>7. d \in ToSet(req[i].route)
  <2>1. req[i].route \in Seq(DocIds) /\ req[i].route # <<>>
    BY RequestFacts DEF Request, RequestShape
  <2>2. Len(req[i].route) \in DOMAIN req[i].route
    BY <2>1
  <2> QED
    BY <1>1, <2>2 DEF Target, Last, ToSet
<1>8. d \in DocsOf(Channel[m])
  BY <1>6, <1>7 DEF DocsOf
<1>9. ASSUME NEW s \in DOMAIN t
      PROVE  d \in DocsOf(Channel[t[s][1]])
  <2>1. CASE \E j \in DOMAIN text : t[s] = text[j]
    BY <1>2, <2>1 DEF ApartInv, KeptApart
  <2>2. CASE \E n \in 1..Chars[m] : t[s] = <<m, n>>
    BY <1>8, <2>2
  <2> QED
    BY <1>5, <2>1, <2>2
<1>10. ASSUME NEW e \in DocIds, NEW s \in DOMAIN docs'[e].text
       PROVE  e \in DocsOf(Channel[docs'[e].text[s][1]])
  <2>1. CASE e = d
    BY <1>2, <1>9, <2>1
  <2>2. CASE e # d
    BY <1>1, <2>2 DEF ApartInv, KeptApart
  <2> QED
    BY <2>1, <2>2
<1> QED
  BY <1>10 DEF KeptApart, DocsOf

LEMMA SameDocsApart ==
    ASSUME KeptApart, docs' = docs
    PROVE  KeptApart'
  BY DEF KeptApart

\* Every step of a request's work leaves it with lists and items of its channels.
LEMMA WorkOwn ==
    ASSUME TypeInv, ApartInv, NEW i \in Instances, Work(i)
    PROVE  Own(i)' /\ Others(i)
<1>1. Own(i) /\ \A it \in req[i].todo : Rest(i, it) \subseteq req[i].todo
  BY DEF ApartInv, Rest
<1>2. req[i].pc # "idle"
  BY DEF Work, ReadDoc, Fetch, ListPending, SkipDup, SkipUnreadable, Measure, Insert,
         InsertError, Buffer, Upload, Alert, StopDrain, Delete, Finish
<1>3. CASE Turns(i, req[i].kind, req[i].left)
  <2>1. Own(i)'
    BY <1>1, <1>2, <1>3, LeftOwn, TurnsOwn
  <2> QED
    BY <1>3, <2>1 DEF Turns
<1>4. CASE \E pc, todo, bytes : /\ Moves(i, pc, todo, bytes)
                                /\ \A it \in todo : Channel[it.msg] = req[i].chan
  BY <1>1, <1>2, <1>4, MovesOwn DEF Moves
<1>5. \A it \in req[i].todo : Channel[it.msg] = req[i].chan
  BY <1>1, <1>2 DEF Own
<1>6. CASE ReadDoc(i)
  BY <1>4, <1>5, <1>6, ReadDocMoves
<1>7. CASE Fetch(i)
  <2>1. CASE ~Turns(i, req[i].kind, req[i].left)
    <3>1. PICK got \in SUBSET {m \in Messages : Channel[m] = req[i].chan} :
            /\ Others(i)
            /\ req'[i].todo = {[at |-> 0, msg |-> m] : m \in got}
            /\ req'[i].chan = req[i].chan
            /\ req'[i].route = req[i].route
            /\ req'[i].left = req[i].left
      BY <1>7, <2>1, FetchStep
    <3>2. \A it \in req'[i].todo : Channel[it.msg] = req[i].chan
      BY <3>1
    <3> QED
      BY <1>1, <1>2, <3>1, <3>2 DEF Own
  <2> QED
    BY <1>3, <2>1
<1>8. CASE ListPending(i)
  <2>1. \A it \in Waiting(req[i].chan) : Channel[it.msg] = req[i].chan
    BY DEF Waiting
  <2> QED
    BY <1>3, <1>4, <1>8, <2>1, ListPendingStep
<1>9. CASE SkipDup(i)
  BY <1>1, <1>4, <1>5, <1>9, SkipDupMoves
<1>10. CASE SkipUnreadable(i)
  BY <1>1, <1>4, <1>5, <1>10, SkipUnreadableMoves
<1>11. CASE Measure(i)
  BY <1>4, <1>5, <1>11, MeasureMoves
<1>12. CASE Insert(i)
  BY <1>1, <1>4, <1>5, <1>12, InsertMoves
<1>13. CASE InsertError(i)
  BY <1>1, <1>3, <1>4, <1>5, <1>13, InsertErrorStep
<1>14. CASE Buffer(i)
  BY <1>4, <1>5, <1>14, BufferMoves
<1>18. CASE Upload(i)
  BY <1>1, <1>4, <1>5, <1>18, UploadMoves
<1>15. CASE Alert(i)
  BY <1>3, <1>4, <1>5, <1>15, AlertStep
<1>16. CASE Delete(i)
  BY <1>1, <1>4, <1>5, <1>16, DeleteMoves
<1>17. CASE StopDrain(i) \/ Finish(i)
  BY <1>3, <1>17, EndTurns
<1> QED
  BY <1>6, <1>7, <1>8, <1>9, <1>10, <1>11, <1>12, <1>13, <1>14, <1>15, <1>16, <1>17,
     <1>18 DEF Work

\* Only Insert and InsertError write a doc.
LEMMA WorkWrites ==
    ASSUME TypeInv, NEW i \in Instances, Work(i)
    PROVE  \/ docs' = docs
           \/ /\ req[i].pc = "insert" /\ (Insert(i) \/ InsertError(i))
              /\ \E it \in req[i].todo :
                    Current(i, it) /\ Write(Target(i), req[i].end, it.msg)
<1>1. CASE Insert(i) \/ InsertError(i)
  <2>1. req[i].pc = "insert"
    BY <1>1 DEF Insert, InsertError
  <2> QED
    BY <1>1, <2>1, InsertMoves, InsertErrorStep
<1>2. CASE ~(Insert(i) \/ InsertError(i))
  BY <1>2 DEF Work, ReadDoc, Fetch, ListPending, SkipDup, SkipUnreadable, Measure,
              Buffer, Upload, Alert, StopDrain, Delete, Finish, store
<1> QED
  BY <1>1, <1>2

\* Nothing a request does at work changes the mapping or the instance's cache of it.
LEMMA WorkSame ==
    ASSUME NEW i \in Instances, Work(i)
    PROVE  mapping' = mapping /\ mapCache' = mapCache
  BY DEF Work, ReadDoc, Fetch, ListPending, SkipDup, SkipUnreadable, Measure, Insert,
         InsertError, Buffer, Upload, Alert, StopDrain, Delete, Finish, store, world

LEMMA WorkApart ==
    ASSUME TypeInv, ApartInv, NEW i \in Instances, Work(i)
    PROVE  ApartInv'
<1>1. \A j \in Instances : Own(j)'
  BY WorkOwn DEF Others, Own, ApartInv
<1>2. Published' /\ \A j \in Instances : Cached(j)'
  BY WorkSame DEF Published, Cached, ApartInv
<1>3. KeptApart'
  BY WorkWrites, WriteOwn, SameDocsApart DEF ApartInv
<1> QED
  BY <1>1, <1>2, <1>3 DEF ApartInv

LEMMA StartApart ==
    ASSUME TypeInv, ApartInv, NEW i \in Instances,
           \/ StartBackfill(i) \/ StartDrain(i)
           \/ \E m \in Live : StartWebhook(i, m)
    PROVE  ApartInv'
<1>1. docs' = docs /\ mapping' = mapping
  BY DEF StartBackfill, StartDrain, StartWebhook, store, world
<1>2. Published' /\ KeptApart'
  BY <1>1, SameDocsApart DEF Published, ApartInv
<1>3. ASSUME Own(i)', Others(i), \A j \in Instances : Cached(j)'
      PROVE  ApartInv'
  BY <1>2, <1>3 DEF ApartInv, Own, Others
<1>4. CASE StartBackfill(i) \/ StartDrain(i)
  <2>1. PICK lists : \E channels \in SUBSET Channels, kind \in {"backfill", "drain"} :
          LoadMapping(i, lists) /\ Turns(i, kind, Stops(channels, lists))
    BY <1>4, StartStep
  <2>2. PICK channels \in SUBSET Channels, kind \in {"backfill", "drain"} :
          LoadMapping(i, lists) /\ Turns(i, kind, Stops(channels, lists))
    BY <2>1
  <2>3. /\ \A ch \in Channels : lists[ch] \in Routes[ch] \cup {<<>>}
        /\ \A j \in Instances : Cached(j)'
    BY <2>2, LoadOwn
  <2>4. PICK left : left = Stops(channels, lists)
    OBVIOUS
  <2>5. \A x \in left : x.chan \in Channels /\ x.route \in Routes[x.chan]
    BY <2>3, <2>4, StopsOwn
  <2>6. Own(i)'
    BY <2>2, <2>4, <2>5, TurnsOwn
  <2> QED
    BY <1>3, <2>2, <2>3, <2>6 DEF Turns
<1>5. CASE \E m \in Live : StartWebhook(i, m)
  <2>1. PICK m \in Live : StartWebhook(i, m)
    BY <1>5
  <2>2. PICK lists :
          /\ LoadMapping(i, lists)
          /\ Others(i)
          /\ \/ req'[i] = Idle
             \/ /\ lists[Channel[m]] # <<>>
                /\ req'[i].chan = Channel[m]
                /\ req'[i].route = lists[Channel[m]]
                /\ req'[i].left = {}
                /\ req'[i].todo = {[at |-> 0, msg |-> m]}
    BY <2>1, StartWebhookStep
  <2>3. /\ \A ch \in Channels : lists[ch] \in Routes[ch] \cup {<<>>}
        /\ \A j \in Instances : Cached(j)'
    BY <2>2, LoadOwn
  <2>4. Channel[m] \in Channels
    BY InputsAssumption
  <2>5. Own(i)'
    <3>1. CASE req'[i] = Idle
      BY <3>1 DEF Own, Idle
    <3>2. CASE req'[i] # Idle
      BY <2>2, <2>3, <2>4, <3>2 DEF Own
    <3> QED
      BY <3>1, <3>2
  <2> QED
    BY <1>3, <2>2, <2>3, <2>5
<1> QED
  BY <1>4, <1>5

LEMMA CrashApart ==
    ASSUME TypeInv, ApartInv, NEW i \in Instances, Crash(i)
    PROVE  ApartInv'
<1>1. Own(i)' /\ Others(i) /\ docs' = docs /\ mapping' = mapping
  BY CrashStep DEF Turns, Own, Crash, world
<1>2. /\ mapCache'[i].lists = [ch \in Channels |-> <<>>]
      /\ \A j \in Instances \ {i} : mapCache'[j] = mapCache[j]
  BY DEF Crash, Unloaded, TypeInv, TypeOK
<1>3. \A j \in Instances : Cached(j)'
  BY <1>2 DEF Cached, ApartInv
<1> QED
  BY <1>1, <1>3, SameDocsApart DEF ApartInv, Own, Others, Published

LEMMA SurroundingsApart ==
    ASSUME TypeInv, ApartInv,
           \/ \E i \in Instances : Expire(i)
           \/ \E m \in Live : Post(m) \/ DropRetry(m)
           \/ \E ch \in Channels : \E route \in Routes[ch] : EditRoute(ch, route)
           \/ UNCHANGED vars
    PROVE  ApartInv'
<1>1. docs' = docs /\ req' = req
  BY DEF Expire, Post, DropRetry, EditRoute, vars, store
<1>2. KeptApart' /\ \A i \in Instances : Own(i)'
  BY <1>1, SameDocsApart DEF Own, ApartInv
<1>3. \A i \in Instances : Cached(i)'
  <2>1. CASE mapCache' = mapCache
    BY <2>1 DEF Cached, ApartInv
  <2>2. CASE \E i \in Instances : Expire(i)
    <3>1. \A j \in Instances : mapCache'[j].lists = mapCache[j].lists
      BY <2>2 DEF Expire, MapEntry, TypeInv, TypeOK
    <3> QED
      BY <3>1 DEF Cached, ApartInv
  <2> QED
    BY <2>1, <2>2 DEF Post, DropRetry, EditRoute, vars
<1>4. Published'
  <2>1. CASE mapping' = mapping
    BY <2>1 DEF Published, ApartInv
  <2>2. ASSUME NEW ch \in Channels, NEW route \in Routes[ch], EditRoute(ch, route)
        PROVE  Published'
    BY <2>2 DEF EditRoute, Published, ApartInv, TypeInv, TypeOK, Lists
  <2> QED
    BY <2>1, <2>2 DEF Expire, Post, DropRetry, vars, world
<1> QED
  BY <1>2, <1>3, <1>4 DEF ApartInv

LEMMA ApartInit == Init => ApartInv
<1> SUFFICES ASSUME Init PROVE ApartInv
  OBVIOUS
<1>1. \A i \in Instances : Own(i)
  BY DEF Init, Own, Idle
<1>2. \A i \in Instances : Cached(i)
  BY DEF Init, Cached, Unloaded
<1>3. Published
  BY RoutesAssumption DEF Init, Published
<1>4. KeptApart
  BY DEF Init, KeptApart, ToSet
<1> QED
  BY <1>1, <1>2, <1>3, <1>4 DEF ApartInv

LEMMA ApartStep == TypeInv /\ ApartInv /\ [Next]_vars => ApartInv'
<1> SUFFICES ASSUME TypeInv, ApartInv, [Next]_vars PROVE ApartInv'
  OBVIOUS
<1>1. ASSUME NEW i \in Instances, Work(i) PROVE ApartInv'
  BY <1>1, WorkApart
<1> QED
  BY <1>1, StartApart, CrashApart, SurroundingsApart DEF Next, Quiet

\* A message is only ever written to docs of its own channel (slack_webhook,
\* handle_backfill and drain_channel, src/slack-sync/main.py), whatever lists the
\* other instances cached, however often the sheet is edited while they run.
THEOREM ChannelsKeptApart == Spec => []KeptApart
<1>1. ApartInv => KeptApart
  BY DEF ApartInv
<1> QED
  BY <1>1, TypeCorrect, ApartInit, ApartStep, PTL DEF Spec
-----------------------------------------------------------------------------
(* A request leaves none of its messages out *)

\* Which requests come to which point, and that a drain was asked for no message.
Kinds(i) ==
    /\ req[i].pc = "fetch" => req[i].kind = "backfill"
    /\ req[i].pc \in {"list", "delete"} => req[i].kind = "drain"
    /\ req[i].kind = "drain" => req[i].fetched = {}

\* What a request was asked for is present, or among what it has yet to handle.
Covered(i) ==
    \A m \in req[i].fetched : Present(m) \/ \E it \in req[i].todo : it.msg = m

CoverInv == \A i \in Instances : Kinds(i) /\ Covered(i)

LEMMA TurnsKinds ==
    ASSUME NEW i \in Instances, NEW kind, NEW left, Turns(i, kind, left)
    PROVE  Kinds(i)' /\ Covered(i)'
  BY DEF Turns, Kinds, Covered

LEMMA MovesKinds ==
    ASSUME NEW i \in Instances, Kinds(i), NEW pc, NEW todo, NEW bytes,
           Moves(i, pc, todo, bytes),
           pc = "fetch" => req[i].kind = "backfill",
           pc \in {"list", "delete"} => req[i].kind = "drain"
    PROVE  Kinds(i)'
  BY DEF Moves, Kinds

\* The header of a block that is somewhere stays somewhere.
LEMMA PresentGrows ==
    ASSUME TypeInv, DurableInv, [Next]_vars
    PROVE  \A m : Present(m) => Present(m)'
<1>1. [Delivered!Next]_<<InDocs, Buffered>>
  BY DeliveryStep
<1>2. InDocs \cup Buffered \subseteq (InDocs \cup Buffered)'
  BY <1>1 DEF Delivered!Next, Delivered!Write, Delivered!Queue, Delivered!Leave
<1> QED
  BY <1>2 DEF Present

\* The loop drops only items whose message is present by then.
LEMMA MovesCovers ==
    ASSUME TypeInv, NEW i \in Instances, Covered(i), \A m : Present(m) => Present(m)',
           NEW it \in req[i].todo, it.msg \in (InDocs \cup Buffered)' \/ Present(it.msg),
           NEW pc, NEW bytes, Moves(i, pc, Rest(i, it), bytes)
    PROVE  Covered(i)'
<1>1. Present(it.msg)'
  BY DEF Present
<1>2. ASSUME NEW m \in req[i].fetched
      PROVE  Present(m)' \/ \E x \in Rest(i, it) : x.msg = m
  BY <1>1 DEF Covered, Rest
<1> QED
  BY <1>2 DEF Covered, Moves

\* Nothing was asked of a drain.
LEMMA DrainCovers ==
    ASSUME NEW i \in Instances, Kinds(i), req[i].kind = "drain",
           NEW pc, NEW todo, NEW bytes, Moves(i, pc, todo, bytes)
    PROVE  Covered(i)'
  BY DEF Kinds, Moves, Covered

LEMMA SameTodoCovers ==
    ASSUME NEW i \in Instances, Covered(i), \A m : Present(m) => Present(m)',
           NEW pc, NEW bytes, Moves(i, pc, req[i].todo, bytes)
    PROVE  Covered(i)'
  BY DEF Moves, Covered

LEMMA WorkCovers ==
    ASSUME "enqueue" \notin FaultKinds, TypeInv, DurableInv, CoverInv,
           NEW i \in Instances, Work(i), \A m : Present(m) => Present(m)'
    PROVE  Kinds(i)' /\ Covered(i)' /\ Others(i)
<1>1. Kinds(i) /\ Covered(i)
  BY DEF CoverInv
<1>2. CASE Turns(i, req[i].kind, req[i].left)
  BY <1>2, TurnsKinds DEF Turns
<1>3. \A pc, todo, bytes : Moves(i, pc, todo, bytes) => Others(i)
  BY DEF Moves
<1>4. CASE ReadDoc(i)
  <2>1. PICK pc \in {"read", AfterRead(req[i].kind)}, bytes \in Nat :
          Moves(i, pc, req[i].todo, bytes)
    BY <1>4, ReadDocMoves
  <2>2. /\ pc = "fetch" => req[i].kind = "backfill"
        /\ pc \in {"list", "delete"} => req[i].kind = "drain"
    BY DEF AfterRead
  <2> QED
    BY <1>1, <1>3, <2>1, <2>2, MovesKinds, SameTodoCovers
<1>5. CASE Fetch(i)
  <2>1. CASE ~Turns(i, req[i].kind, req[i].left)
    <3>1. PICK got \in SUBSET {m \in Messages : Channel[m] = req[i].chan} :
            /\ Others(i)
            /\ req'[i].pc = "loop"
            /\ req'[i].fetched = got
            /\ req'[i].todo = {[at |-> 0, msg |-> m] : m \in got}
            /\ req'[i].kind = req[i].kind
      BY <1>5, <2>1, FetchStep
    <3>2. req[i].kind = "backfill"
      BY <1>1, <1>5 DEF Fetch, Kinds
    <3>3. ASSUME NEW m \in got
          PROVE  \E it \in req'[i].todo : it.msg = m
      <4>1. [at |-> 0, msg |-> m] \in req'[i].todo /\ [at |-> 0, msg |-> m].msg = m
        BY <3>1
      <4> QED
        BY <4>1
    <3> QED
      BY <3>1, <3>2, <3>3 DEF Kinds, Covered
  <2> QED
    BY <1>2, <2>1
<1>6. CASE ListPending(i)
  <2>1. req[i].kind = "drain"
    BY <1>1, <1>6 DEF ListPending, Kinds
  <2>2. CASE Moves(i, "loop", Waiting(req[i].chan), req[i].bytes)
    BY <1>1, <1>3, <2>1, <2>2, MovesKinds, DrainCovers
  <2> QED
    BY <1>2, <1>6, <2>2, ListPendingStep
<1>7. CASE SkipDup(i)
  <2>1. PICK it \in req[i].todo :
          IsDup(i, it.msg) /\ Moves(i, "loop", Rest(i, it), req[i].bytes)
    BY <1>7, SkipDupMoves
  <2>2. Present(it.msg)
    BY <2>1 DEF IsDup, Present, DurableInv, SeenIsWritten
  <2> QED
    BY <1>1, <1>3, <2>1, <2>2, MovesKinds, MovesCovers
<1>8. CASE SkipUnreadable(i)
  <2>1. PICK it \in req[i].todo : Moves(i, "loop", Rest(i, it), req[i].bytes)
    BY <1>8, SkipUnreadableMoves
  <2>2. req[i].kind = "drain"
    BY <1>8 DEF SkipUnreadable
  <2> QED
    BY <1>1, <1>3, <2>1, <2>2, MovesKinds, DrainCovers
<1>9. CASE Measure(i)
  BY <1>1, <1>3, <1>9, MeasureMoves, MovesKinds, SameTodoCovers
<1>10. CASE Insert(i)
  <2>1. PICK it \in req[i].todo :
          /\ Write(Target(i), req[i].end, it.msg)
          /\ IF req[i].kind = "drain"
             THEN Moves(i, "delete", req[i].todo, req[i].bytes + Size[it.msg])
             ELSE Moves(i, "loop", Rest(i, it), req[i].bytes + Size[it.msg])
    BY <1>10, InsertMoves
  <2>2. PICK size : size = req[i].bytes + Size[it.msg]
    OBVIOUS
  <2>3. CASE req[i].kind = "drain"
    <3>1. Moves(i, "delete", req[i].todo, size)
      BY <2>1, <2>2, <2>3
    <3> QED
      BY <1>1, <1>3, <2>3, <3>1, MovesKinds, DrainCovers
  <2>4. CASE req[i].kind # "drain"
    <3>1. Moves(i, "loop", Rest(i, it), size)
      BY <2>1, <2>2, <2>4
    <3>2. it.msg \in InDocs'
      <4>1. req[i].pc = "insert"
        BY <1>10 DEF Insert
      <4> QED
        BY <2>1, <4>1, WriteContent
    <3> QED
      BY <1>1, <1>3, <3>1, <3>2, MovesKinds, MovesCovers
  <2> QED
    BY <2>3, <2>4
<1>11. CASE InsertError(i)
  <2>1. PICK it \in req[i].todo :
          IF req[i].kind = "drain"
          THEN Moves(i, "loop", Rest(i, it), req[i].bytes)
          ELSE Turns(i, req[i].kind, req[i].left)
    BY <1>11, InsertErrorStep
  <2> QED
    BY <1>1, <1>2, <1>3, <2>1, MovesKinds, DrainCovers
<1>12. CASE Buffer(i)
  BY <1>1, <1>3, <1>12, BufferMoves, MovesKinds, SameTodoCovers
<1>16. CASE Upload(i)
  <2>1. PICK it \in req[i].todo, pc \in {"loop", "alert"} :
          Publish(req[i].stamp, it.msg) /\ Moves(i, pc, Rest(i, it), req[i].bytes)
    BY <1>16, UploadMoves DEF Fault
  <2>2. it.msg \in Buffered'
    <3>1. PICK new : new = [at |-> req[i].stamp, msg |-> it.msg]
      OBVIOUS
    <3>2. new \in pending' /\ new.msg = it.msg
      BY <2>1, <3>1 DEF Publish
    <3> QED
      BY <3>2 DEF Buffered
  <2> QED
    BY <1>1, <1>3, <2>1, <2>2, MovesKinds, MovesCovers
<1>13. CASE Alert(i)
  BY <1>1, <1>2, <1>3, <1>13, AlertStep, MovesKinds, SameTodoCovers
<1>14. CASE Delete(i)
  <2>1. PICK it \in req[i].todo : Moves(i, "loop", Rest(i, it), req[i].bytes)
    BY <1>14, DeleteMoves
  <2>2. req[i].kind = "drain"
    BY <1>1, <1>14 DEF Delete, Kinds
  <2> QED
    BY <1>1, <1>3, <2>1, <2>2, MovesKinds, DrainCovers
<1>15. CASE StopDrain(i) \/ Finish(i)
  BY <1>2, <1>15, EndTurns
<1> QED
  BY <1>4, <1>5, <1>6, <1>7, <1>8, <1>9, <1>10, <1>11, <1>12, <1>13, <1>14, <1>15,
     <1>16 DEF Work

LEMMA StartCovers ==
    ASSUME TypeInv, NEW i \in Instances,
           \/ StartBackfill(i) \/ StartDrain(i) \/ Crash(i)
           \/ \E m \in Live : StartWebhook(i, m)
    PROVE  Kinds(i)' /\ Covered(i)' /\ Others(i)
<1>1. CASE StartBackfill(i) \/ StartDrain(i)
  <2>1. PICK kind, left : Turns(i, kind, left)
    BY <1>1, StartStep
  <2> QED
    BY <2>1, TurnsKinds DEF Turns
<1>2. CASE Crash(i)
  <2>1. Turns(i, "none", {})
    BY <1>2, CrashStep
  <2> QED
    BY <2>1, TurnsKinds DEF Turns
<1>3. CASE \E m \in Live : StartWebhook(i, m)
  <2>1. PICK m \in Live : StartWebhook(i, m)
    BY <1>3
  <2>2. /\ Others(i)
        /\ \/ req'[i] = Idle
           \/ /\ req'[i].pc \in {"read", "loop"}
              /\ req'[i].kind = "webhook"
              /\ req'[i].fetched = {m}
              /\ req'[i].todo = {[at |-> 0, msg |-> m]}
    BY <2>1, StartWebhookStep
  <2>3. CASE req'[i] = Idle
    BY <2>2, <2>3 DEF Idle, Kinds, Covered
  <2>4. CASE req'[i] # Idle
    <3>1. PICK it : it = [at |-> 0, msg |-> m]
      OBVIOUS
    <3>2. it.msg = m /\ it \in req'[i].todo
      BY <2>2, <2>4, <3>1
    <3> QED
      BY <2>2, <2>4, <3>2 DEF Kinds, Covered
  <2> QED
    BY <2>3, <2>4
<1> QED
  BY <1>1, <1>2, <1>3

LEMMA CoverInit == Init => CoverInv
  BY DEF Init, CoverInv, Kinds, Covered, Idle

LEMMA CoverStep ==
    ASSUME "enqueue" \notin FaultKinds
    PROVE  TypeInv /\ DurableInv /\ CoverInv /\ [Next]_vars => CoverInv'
<1> SUFFICES ASSUME TypeInv, DurableInv, CoverInv, [Next]_vars PROVE CoverInv'
  OBVIOUS
<1>1. \A m : Present(m) => Present(m)'
  BY PresentGrows
<1>2. ASSUME NEW i \in Instances, Kinds(i)' /\ Covered(i)' /\ Others(i)
      PROVE  CoverInv'
  BY <1>1, <1>2 DEF CoverInv, Kinds, Covered, Others
<1>3. ASSUME NEW i \in Instances, Work(i) PROVE CoverInv'
  BY <1>1, <1>2, <1>3, WorkCovers
<1>4. ASSUME NEW i \in Instances,
             \/ StartBackfill(i) \/ StartDrain(i) \/ Crash(i)
             \/ \E m \in Live : StartWebhook(i, m)
      PROVE  CoverInv'
  BY <1>2, <1>4, StartCovers
<1>5. CASE req' = req
  BY <1>1, <1>5 DEF CoverInv, Kinds, Covered
<1> QED
  BY <1>3, <1>4, <1>5 DEF Next, Expire, Post, DropRetry, EditRoute, Quiet, vars

\* As long as no enqueue fails, a backfill or a webhook that gets to the end of its loop
\* has each of its messages, or one with the same header, in a doc or in the buffer
\* (handle_backfill and slack_webhook, src/slack-sync/main.py), whatever other requests
\* write, drain and delete.  Of a request that a failing append, a failing count or a
\* killed instance ends before that it says nothing.
THEOREM FinishedIsCovered ==
    ASSUME "enqueue" \notin FaultKinds
    PROVE  Spec => []FinishedCovers
<1>1. CoverInv => FinishedCovers
  BY DEF CoverInv, Covered, FinishedCovers
<1> QED
  BY <1>1, TypeCorrect, DurableCorrect, CoverInit, CoverStep, PTL DEF Spec
-----------------------------------------------------------------------------
(* Requests one after the other *)

OneAtATime ==
    \A i, j \in Instances : i # j => req[i].pc = "idle" \/ req[j].pc = "idle"

LEMMA WorkOthers ==
    ASSUME TypeInv, NEW i \in Instances, Work(i)
    PROVE  Others(i) /\ req[i].pc # "idle"
<1>1. req[i].pc # "idle"
  BY DEF Work, ReadDoc, Fetch, ListPending, SkipDup, SkipUnreadable, Measure, Insert,
         InsertError, Buffer, Upload, Alert, StopDrain, Delete, Finish
<1>2. \A pc, todo, bytes : Moves(i, pc, todo, bytes) => Others(i)
  BY DEF Moves
<1>3. Turns(i, req[i].kind, req[i].left) => Others(i)
  BY DEF Turns
<1>4. Others(i)
  BY <1>2, <1>3, ReadDocMoves, FetchStep, ListPendingStep, SkipDupMoves,
     SkipUnreadableMoves, MeasureMoves, InsertMoves, InsertErrorStep, BufferMoves,
     UploadMoves, AlertStep, DeleteMoves, EndTurns DEF Work
<1> QED
  BY <1>1, <1>4

LEMMA StartOthers ==
    ASSUME TypeInv, NEW i \in Instances,
           \/ StartBackfill(i) \/ StartDrain(i)
           \/ \E m \in Live : StartWebhook(i, m)
    PROVE  Others(i) /\ Ready(i)
<1>1. Ready(i)
  BY DEF StartBackfill, StartDrain, StartWebhook
<1>2. CASE StartBackfill(i) \/ StartDrain(i)
  BY <1>1, <1>2, StartStep DEF Turns
<1>3. CASE \E m \in Live : StartWebhook(i, m)
  BY <1>1, <1>3, StartWebhookStep
<1> QED
  BY <1>2, <1>3

LEMMA OneAtATimeInit == Init => OneAtATime
  BY DEF Init, OneAtATime, Idle

LEMMA OneAtATimeStep ==
    ASSUME Pace # "any"
    PROVE  TypeInv /\ OneAtATime /\ [Next]_vars => OneAtATime'
<1> SUFFICES ASSUME TypeInv, OneAtATime, [Next]_vars PROVE OneAtATime'
  OBVIOUS
<1>1. ASSUME NEW i \in Instances, Others(i),
             \A j \in Instances \ {i} : req[j].pc = "idle"
      PROVE  OneAtATime'
  BY <1>1 DEF Others, OneAtATime
<1>2. ASSUME NEW i \in Instances, Work(i) PROVE OneAtATime'
  BY <1>1, <1>2, WorkOthers DEF OneAtATime
<1>3. ASSUME NEW i \in Instances,
             \/ StartBackfill(i) \/ StartDrain(i)
             \/ \E m \in Live : StartWebhook(i, m)
      PROVE  OneAtATime'
  BY <1>1, <1>3, StartOthers DEF Ready
<1>4. ASSUME NEW i \in Instances, Crash(i) PROVE OneAtATime'
  <2>1. Others(i) /\ req'[i].pc = "idle"
    BY <1>4, BecomeStep DEF Crash, Idle
  <2> QED
    BY <2>1 DEF Others, OneAtATime
<1>5. CASE req' = req
  BY <1>5 DEF OneAtATime
<1> QED
  BY <1>2, <1>3, <1>4, <1>5 DEF Next, Expire, Post, DropRetry, EditRoute, Quiet, vars

-----------------------------------------------------------------------------
(* A drain keeps the order of its queue *)

\* The queue of the buffer is finite, and what is in it, or was when a request listed
\* it, was put there by now.
Clocked ==
    /\ IsFiniteSet(pending)
    /\ \A p \in pending : p.at <= now
    /\ \A i \in Instances : \A it \in req[i].todo : it.at <= now

\* What waits in the channel's queue and its drain will not come to any more,
\* although something later in the queue is still before it.
Passed(i) ==
    {p \in Waiting(req[i].chan) :
        p \notin req[i].todo /\ \E it \in req[i].todo : p.at < it.at}

Draining(i) == req[i].kind = "drain" /\ req[i].pc \notin {"idle", "read", "fetch", "list"}

\* Each failing call lets one item be passed.
InOrder(i) == Draining(i) => Cardinality(Passed(i)) <= faults

\* The name of the blob that a request is about to upload, while no other runs.
Stamped(i) == req[i].pc = "upload" => req[i].kind # "drain" /\ req[i].stamp = now

OrderInv ==
    /\ Clocked
    /\ OneAtATime
    /\ \A i \in Instances : InOrder(i) /\ Stamped(i)

\* What a step does to clock, queue and faults: new items come last.
QueueStep ==
    /\ faults' \in Nat /\ faults <= faults'
    /\ IsFiniteSet(pending')
    /\ \A p \in pending' : p.at <= now'
    /\ \A p \in pending' \ pending : now <= p.at
    /\ now <= now'

LEMMA FaultsNat == ASSUME TypeInv PROVE faults \in Nat /\ now \in Nat
  BY BoundsAssumption DEF TypeInv, TypeOK

LEMMA SameQueue ==
    ASSUME TypeInv, Clocked, pending' \subseteq pending, now' = now,
           faults' = faults \/ \E k : Fault(k)
    PROVE  QueueStep
<1>1. IsFiniteSet(pending')
  BY FS_Subset DEF Clocked
<1>2. faults' \in Nat /\ faults <= faults'
  BY FaultsNat DEF Fault
<1> QED
  BY <1>1, <1>2, FaultsNat DEF QueueStep, Clocked

LEMMA PublishQueue ==
    ASSUME TypeInv, Clocked, NEW m, Publish(now, m), now' = now, faults' = faults
    PROVE  QueueStep
<1>1. PICK new : new = [at |-> now, msg |-> m]
  OBVIOUS
<1>2. new.at = now /\ pending' = pending \cup {new}
  BY <1>1 DEF Publish
<1>3. IsFiniteSet(pending')
  BY <1>2, FS_AddElement DEF Clocked
<1>4. now \in Nat /\ faults \in Nat
  BY FaultsNat
<1> QED
  BY <1>2, <1>3, <1>4 DEF QueueStep, Clocked

LEMMA LaterQueue ==
    ASSUME TypeInv, Clocked, pending' = pending, now <= now', now' \in Nat, faults' = faults
    PROVE  QueueStep
<1>1. now \in Nat /\ faults \in Nat /\ \A p \in pending : p.at \in Nat /\ p.at <= now
  BY FaultsNat DEF Clocked, TypeInv, TypeOK, Item
<1> QED
  BY <1>1 DEF QueueStep, Clocked

LEMMA WorkQueue ==
    ASSUME TypeInv, TypeInv', OrderInv, NEW i \in Instances, Work(i)
    PROVE  QueueStep
<1>1. Clocked
  BY DEF OrderInv
<1>2. CASE Buffer(i)
  <2>1. pending' = pending /\ faults' = faults /\ now <= now'
    BY <1>2, BufferMoves DEF Buffer
  <2>2. now' \in Nat
    BY BoundsAssumption DEF TypeInv, TypeOK
  <2> QED
    BY <1>1, <2>1, <2>2, LaterQueue
<1>3. CASE Upload(i)
  <2>1. req[i].stamp = now /\ now' = now
    BY <1>3 DEF Upload, OrderInv, Stamped
  <2>2. PICK it : \/ Publish(now, it.msg) /\ faults' = faults
                  \/ Fault("enqueue") /\ pending' = pending
    BY <1>3, <2>1, UploadMoves
  <2> QED
    BY <1>1, <2>1, <2>2, PublishQueue, SameQueue
<1>4. CASE ~Buffer(i) /\ ~Upload(i)
  <2>1. now' = now /\ pending' \subseteq pending
    BY <1>4 DEF Work, ReadDoc, Fetch, ListPending, SkipDup, SkipUnreadable, Measure,
                Insert, InsertError, Alert, StopDrain, Delete, Finish, store
  <2>2. faults' = faults \/ \E k : Fault(k)
    BY <1>4 DEF Work, ReadDoc, Fetch, ListPending, SkipDup, SkipUnreadable, Measure,
                Insert, InsertError, Alert, StopDrain, Delete, Finish
  <2> QED
    BY <1>1, <2>1, <2>2, SameQueue
<1> QED
  BY <1>2, <1>3, <1>4

LEMMA NextQueue ==
    ASSUME TypeInv, TypeInv', OrderInv, [Next]_vars
    PROVE  QueueStep
<1>1. ASSUME NEW i \in Instances, Work(i) PROVE QueueStep
  BY <1>1, WorkQueue
<1>2. CASE ~\E i \in Instances : Work(i)
  <2>1. now' = now /\ pending' = pending
    BY <1>2 DEF Next, StartBackfill, StartDrain, StartWebhook, Crash, Expire, Post,
                DropRetry, EditRoute, Quiet, vars, store
  <2>2. faults' = faults \/ \E k : Fault(k)
    <3>1. \A i \in Instances : \A m : LoadMapping(i, m) => faults' = faults \/ \E k : Fault(k)
      BY Zenon DEF LoadMapping
    <3>2. \A i \in Instances : Crash(i) => \E k : Fault(k)
      BY Zenon DEF Crash
    <3>3. \/ \E i \in Instances : \E m : LoadMapping(i, m)
          \/ \E i \in Instances : Crash(i)
          \/ Fault("delivery")
          \/ faults' = faults
      BY <1>2 DEF Next, StartBackfill, StartDrain, StartWebhook,
                  Expire, Post, DropRetry, EditRoute, Quiet, vars
    <3> QED
      BY <3>1, <3>2, <3>3
  <2> QED
    BY <2>1, <2>2, SameQueue DEF OrderInv
<1> QED
  BY <1>1, <1>2

LEMMA PassedFinite ==
    ASSUME Clocked, NEW i
    PROVE  IsFiniteSet(Passed(i)) /\ Cardinality(Passed(i)) \in Nat
<1>1. Passed(i) \in SUBSET pending
  BY DEF Passed, Waiting
<1> QED
  BY <1>1, FS_Subset, FS_CardinalityType DEF Clocked

\* What the requests have listed is older than what comes to the queue: of the
\* items a drain has passed none is new.
LEMMA PassedShrinks ==
    ASSUME TypeInv, TypeInv', Clocked, QueueStep, NEW i \in Instances,
           req'[i].chan = req[i].chan, req'[i].todo = req[i].todo
    PROVE  Passed(i)' \subseteq Passed(i)
<1>1. ASSUME NEW p \in Passed(i)' PROVE p \in Passed(i)
  <2>1. PICK it \in req[i].todo : p.at < it.at
    BY DEF Passed
  <2>2. /\ p \in pending' /\ Channel[p.msg] = req[i].chan /\ p \notin req[i].todo
    BY DEF Passed, Waiting
  <2>3. p.at \in Nat /\ it.at \in Nat /\ now \in Nat
    BY <2>2, ItemType, FaultsNat DEF TypeInv, TypeOK, Item
  <2>4. p \in pending
    BY <2>1, <2>2, <2>3 DEF QueueStep, Clocked
  <2> QED
    BY <2>1, <2>2, <2>4 DEF Passed, Waiting
<1> QED
  BY <1>1

\* An item that its drain drops is passed if it still waits.
LEMMA PassedDrops ==
    ASSUME TypeInv, TypeInv', Clocked, QueueStep, NEW i \in Instances,
           NEW x \in req[i].todo,
           req'[i].chan = req[i].chan, req'[i].todo = Rest(i, x)
    PROVE  Passed(i)' \subseteq Passed(i) \cup ({x} \cap pending')
<1>1. ASSUME NEW p \in Passed(i)', p # x PROVE p \in Passed(i)
  <2>1. PICK it \in req[i].todo : p.at < it.at
    BY DEF Passed, Rest
  <2>2. /\ p \in pending' /\ Channel[p.msg] = req[i].chan /\ p \notin req[i].todo
    BY <1>1 DEF Passed, Waiting, Rest
  <2>3. p.at \in Nat /\ it.at \in Nat /\ now \in Nat
    BY <2>2, ItemType, FaultsNat DEF TypeInv, TypeOK, Item
  <2>4. p \in pending
    BY <2>1, <2>2, <2>3 DEF QueueStep, Clocked
  <2> QED
    BY <2>1, <2>2, <2>4 DEF Passed, Waiting
<1>2. Passed(i)' \subseteq pending'
  BY DEF Passed, Waiting
<1> QED
  BY <1>1, <1>2

LEMMA ShrunkInOrder ==
    ASSUME TypeInv, Clocked, QueueStep, NEW i \in Instances, InOrder(i), Draining(i),
           Passed(i)' \subseteq Passed(i)
    PROVE  InOrder(i)'
<1>1. IsFiniteSet(Passed(i)) /\ Cardinality(Passed(i)) \in Nat
  BY PassedFinite
<1>2. PICK passed \in SUBSET Passed(i) : passed = Passed(i)'
  OBVIOUS
<1>3. IsFiniteSet(passed) /\ Cardinality(passed) <= Cardinality(Passed(i))
  BY <1>1, <1>2, FS_Subset
<1>4. Cardinality(passed) \in Nat
  BY <1>3, FS_CardinalityType
<1>5. Cardinality(passed) <= faults'
  BY <1>1, <1>3, <1>4, FaultsNat DEF InOrder, QueueStep
<1> QED
  BY <1>2, <1>5 DEF InOrder

\* A fault makes room for one more.
LEMMA FaultInOrder ==
    ASSUME TypeInv, Clocked, NEW i \in Instances, InOrder(i), Draining(i),
           NEW k, Fault(k), NEW x, Passed(i)' \subseteq Passed(i) \cup {x}
    PROVE  InOrder(i)'
<1>1. PICK old : /\ old = Passed(i)
                 /\ IsFiniteSet(old) /\ Cardinality(old) \in Nat
  BY PassedFinite
<1>2. PICK more : more = old \cup {x}
  OBVIOUS
<1>3. /\ IsFiniteSet(more) /\ Cardinality(more) \in Nat
      /\ Cardinality(more) <= Cardinality(old) + 1
  <2>1. /\ IsFiniteSet(more)
        /\ Cardinality(more) = IF x \in old THEN Cardinality(old) ELSE Cardinality(old) + 1
    BY <1>1, <1>2, FS_AddElement
  <2> QED
    BY <1>1, <2>1
<1>4. PICK passed \in SUBSET more : passed = Passed(i)'
  BY <1>1, <1>2
<1>5. IsFiniteSet(passed) /\ Cardinality(passed) <= Cardinality(more)
  BY <1>3, <1>4, FS_Subset
<1>6. Cardinality(passed) \in Nat
  BY <1>5, FS_CardinalityType
<1>7. Cardinality(passed) <= faults'
  BY <1>1, <1>3, <1>5, <1>6, FaultsNat DEF InOrder, Fault
<1> QED
  BY <1>4, <1>7 DEF InOrder

\* Nothing is passed by a request that has nothing buffered to do.
LEMMA NonePassed ==
    ASSUME TypeInv, TypeInv', QueueStep, NEW i \in Instances,
           \A p \in Waiting(req[i].chan)', it \in req'[i].todo :
              p.at < it.at => p \in req'[i].todo,
           req'[i].chan = req[i].chan
    PROVE  InOrder(i)'
<1>1. Passed(i)' = {}
  BY DEF Passed, Waiting
<1>2. Cardinality(Passed(i)') = 0
  BY <1>1, FS_EmptySet
<1> QED
  BY <1>2 DEF InOrder, QueueStep

\* The clock of what a request has listed.
ListedBy(i) == \A it \in req[i].todo : it.at <= now

LEMMA TurnsInOrder ==
    ASSUME NEW i \in Instances, NEW kind, NEW left, Turns(i, kind, left)
    PROVE  InOrder(i)' /\ ListedBy(i)'
  BY DEF Turns, InOrder, Draining, ListedBy

LEMMA MovesListed ==
    ASSUME TypeInv, TypeInv', Clocked, QueueStep, NEW i \in Instances,
           NEW pc, NEW todo \in SUBSET req[i].todo, NEW bytes,
           Moves(i, pc, todo, bytes)
    PROVE  ListedBy(i)'
<1>1. \A it \in req'[i].todo : it.at \in Nat /\ it.at <= now
  BY ItemType DEF Moves, Clocked, Item
<1>2. now \in Nat /\ now' \in Nat /\ now <= now'
  BY FaultsNat, BoundsAssumption DEF QueueStep, TypeInv, TypeOK
<1> QED
  BY <1>1, <1>2 DEF ListedBy

\* A step that keeps what the request has to do.
LEMMA StayInOrder ==
    ASSUME TypeInv, TypeInv', Clocked, QueueStep, NEW i \in Instances, InOrder(i),
           NEW pc, NEW bytes, Moves(i, pc, req[i].todo, bytes),
           Draining(i)' => Draining(i)
    PROVE  InOrder(i)'
<1>1. Passed(i)' \subseteq Passed(i)
  BY PassedShrinks DEF Moves
<1> QED
  BY <1>1, ShrunkInOrder DEF InOrder

\* A step that drops an item: it is gone, or a call failed.
LEMMA DropInOrder ==
    ASSUME TypeInv, TypeInv', Clocked, QueueStep, NEW i \in Instances, InOrder(i),
           NEW x \in req[i].todo, NEW pc, NEW bytes, Moves(i, pc, Rest(i, x), bytes),
           Draining(i)' => Draining(i) /\ (x \notin pending' \/ \E k : Fault(k))
    PROVE  InOrder(i)'
<1>1. Passed(i)' \subseteq Passed(i) \cup ({x} \cap pending')
  BY PassedDrops DEF Moves
<1>2. CASE ~Draining(i)'
  BY <1>2 DEF InOrder
<1>3. CASE Draining(i) /\ x \notin pending'
  BY <1>1, <1>3, ShrunkInOrder
<1>4. CASE Draining(i) /\ \E k : Fault(k)
  BY <1>1, <1>4, FaultInOrder
<1> QED
  BY <1>2, <1>3, <1>4

LEMMA WorkInOrder ==
    ASSUME TypeInv, TypeInv', OrderInv, QueueStep, NEW i \in Instances, Work(i)
    PROVE  InOrder(i)' /\ ListedBy(i)' /\ Others(i)
<1>1. Clocked /\ InOrder(i) /\ \A it \in req[i].todo : Rest(i, it) \in SUBSET req[i].todo
  BY DEF OrderInv, Rest
<1>2. CASE Turns(i, req[i].kind, req[i].left)
  BY <1>2, TurnsInOrder DEF Turns
<1>3. \A pc, todo, bytes : Moves(i, pc, todo, bytes) => Others(i)
  BY DEF Moves
<1>4. CASE ReadDoc(i)
  <2>1. PICK pc \in {"read", AfterRead(req[i].kind)}, bytes \in Nat :
          Moves(i, pc, req[i].todo, bytes)
    BY <1>4, ReadDocMoves
  <2>2. ~Draining(i)'
    BY <2>1 DEF AfterRead, Draining, Moves
  <2> QED
    BY <1>1, <1>3, <2>1, <2>2, StayInOrder, MovesListed
<1>5. CASE Fetch(i)
  <2>1. CASE ~Turns(i, req[i].kind, req[i].left)
    <3>1. PICK got \in SUBSET {m \in Messages : Channel[m] = req[i].chan} :
            /\ Others(i)
            /\ req'[i].todo = {[at |-> 0, msg |-> m] : m \in got}
            /\ req'[i].chan = req[i].chan
      BY <1>5, <2>1, FetchStep
    <3>2. \A it \in req'[i].todo : it.at = 0
      BY <3>1
    <3>3. pending' \subseteq Item /\ now' \in Nat
      BY BoundsAssumption DEF TypeInv, TypeOK
    <3>4. \A p \in Waiting(req[i].chan)' : ~(p.at < 0)
      BY <3>3 DEF Waiting, Item
    <3>5. ListedBy(i)'
      BY <3>2, <3>3 DEF ListedBy
    <3>6. InOrder(i)'
      BY <3>1, <3>2, <3>4, NonePassed
    <3> QED
      BY <3>1, <3>5, <3>6
  <2> QED
    BY <1>2, <2>1
<1>6. CASE ListPending(i)
  <2>1. CASE Moves(i, "loop", Waiting(req[i].chan), req[i].bytes)
    <3>1. /\ pending' = pending /\ req'[i].chan = req[i].chan
          /\ req'[i].todo = Waiting(req[i].chan)
      BY <1>6, <2>1 DEF ListPending, Moves, store
    <3>2. Waiting(req[i].chan)' = req'[i].todo
      BY <3>1 DEF Waiting
    <3>3. InOrder(i)'
      BY <3>1, <3>2, NonePassed
    <3>4. ListedBy(i)'
      BY <3>1 DEF QueueStep, ListedBy, Waiting
    <3> QED
      BY <1>3, <2>1, <3>3, <3>4
  <2> QED
    BY <1>2, <1>6, <2>1, ListPendingStep
<1>7. CASE SkipDup(i)
  <2>1. PICK it \in req[i].todo : Moves(i, "loop", Rest(i, it), req[i].bytes)
    BY <1>7, SkipDupMoves
  <2>2. ~Draining(i)'
    BY <1>7, <2>1 DEF SkipDup, Moves, Draining
  <2> QED
    BY <1>1, <1>3, <2>1, <2>2, DropInOrder, MovesListed
<1>8. CASE SkipUnreadable(i)
  <2>1. PICK it \in req[i].todo :
          /\ it \notin pending \/ Fault("download")
          /\ Moves(i, "loop", Rest(i, it), req[i].bytes)
    BY <1>8, SkipUnreadableMoves
  <2>2. Draining(i) /\ pending' = pending
    BY <1>8 DEF SkipUnreadable, Draining, store
  <2> QED
    BY <1>1, <1>3, <2>1, <2>2, DropInOrder, MovesListed
<1>9. CASE Measure(i)
  <2>1. Draining(i)' => Draining(i)
    BY <1>9, MeasureMoves DEF Measure, Moves, Draining
  <2> QED
    BY <1>1, <1>3, <1>9, <2>1, MeasureMoves, StayInOrder, MovesListed
<1>10. CASE Insert(i)
  <2>1. PICK it \in req[i].todo :
          IF req[i].kind = "drain"
          THEN Moves(i, "delete", req[i].todo, req[i].bytes + Size[it.msg])
          ELSE Moves(i, "loop", Rest(i, it), req[i].bytes + Size[it.msg])
    BY <1>10, InsertMoves
  <2>2. PICK size : size = req[i].bytes + Size[it.msg]
    OBVIOUS
  <2>3. CASE req[i].kind = "drain"
    <3>1. Moves(i, "delete", req[i].todo, size)
      BY <2>1, <2>2, <2>3
    <3>2. Draining(i)
      BY <1>10, <2>3 DEF Insert, Draining
    <3> QED
      BY <1>1, <1>3, <3>1, <3>2, StayInOrder, MovesListed
  <2>4. CASE req[i].kind # "drain"
    <3>1. Moves(i, "loop", Rest(i, it), size)
      BY <2>1, <2>2, <2>4
    <3>2. ~Draining(i)'
      BY <2>4, <3>1 DEF Moves, Draining
    <3> QED
      BY <1>1, <1>3, <3>1, <3>2, DropInOrder, MovesListed
  <2> QED
    BY <2>3, <2>4
<1>11. CASE InsertError(i)
  <2>1. PICK it \in req[i].todo :
          /\ \E k : Fault(k)
          /\ IF req[i].kind = "drain"
             THEN Moves(i, "loop", Rest(i, it), req[i].bytes)
             ELSE Turns(i, req[i].kind, req[i].left)
    BY <1>11, InsertErrorStep
  <2>2. req[i].kind = "drain" => Draining(i)
    BY <1>11 DEF InsertError, Draining
  <2> QED
    BY <1>1, <1>2, <1>3, <2>1, <2>2, DropInOrder, MovesListed
<1>12. CASE Buffer(i)
  <2>1. ~Draining(i)'
    BY <1>12, BufferMoves DEF Buffer, Moves, Draining
  <2> QED
    BY <1>1, <1>3, <1>12, <2>1, BufferMoves, StayInOrder, MovesListed
<1>16. CASE Upload(i)
  <2>1. PICK it \in req[i].todo, pc \in {"loop", "alert"} :
          Moves(i, pc, Rest(i, it), req[i].bytes)
    BY <1>16, UploadMoves
  <2>2. ~Draining(i)'
    BY <1>16, <2>1 DEF OrderInv, Stamped, Upload, Moves, Draining
  <2> QED
    BY <1>1, <1>3, <2>1, <2>2, DropInOrder, MovesListed
<1>13. CASE Alert(i)
  <2>1. CASE Moves(i, "loop", req[i].todo, req[i].bytes)
    <3>1. Draining(i)' => Draining(i)
      BY <1>13, <2>1 DEF Alert, Moves, Draining
    <3> QED
      BY <1>1, <1>3, <2>1, <3>1, StayInOrder, MovesListed
  <2> QED
    BY <1>2, <1>13, <2>1, AlertStep
<1>14. CASE Delete(i)
  <2>1. PICK it \in req[i].todo :
          /\ pending' = pending \ {it} \/ Fault("delete")
          /\ Moves(i, "loop", Rest(i, it), req[i].bytes)
    BY <1>14, DeleteMoves
  <2>2. Draining(i)' => Draining(i)
    BY <1>14, <2>1 DEF Delete, Moves, Draining
  <2>3. it \notin pending' \/ \E k : Fault(k)
    BY <2>1
  <2> QED
    BY <1>1, <1>3, <2>1, <2>2, <2>3, DropInOrder, MovesListed
<1>15. CASE StopDrain(i) \/ Finish(i)
  BY <1>2, <1>15, EndTurns
<1> QED
  BY <1>4, <1>5, <1>6, <1>7, <1>8, <1>9, <1>10, <1>11, <1>12, <1>13, <1>14, <1>15,
     <1>16 DEF Work

\* Only Buffer takes a new millisecond, and comes to the upload.
LEMMA WorkStamped ==
    ASSUME TypeInv, OrderInv, NEW i \in Instances, Work(i)
    PROVE  Stamped(i)' /\ (now' = now \/ Buffer(i))
<1>1. CASE Buffer(i)
  <2>1. req[i].kind # "drain"
    BY <1>1 DEF Buffer
  <2>2. req'[i].kind = req[i].kind /\ req'[i].stamp = now'
    BY <1>1, BufferMoves DEF Moves
  <2> QED
    BY <1>1, <2>1, <2>2 DEF Stamped
<1>2. CASE ~Buffer(i)
  <2>1. now' = now
    BY <1>2 DEF Work, ReadDoc, Fetch, ListPending, SkipDup, SkipUnreadable, Measure,
                Insert, InsertError, Upload, Alert, StopDrain, Delete, Finish, store
  <2>2. req'[i].pc # "upload"
    <3>1. CASE Turns(i, req[i].kind, req[i].left)
      BY <3>1 DEF Turns
    <3>2. CASE \E pc, todo, bytes : pc # "upload" /\ Moves(i, pc, todo, bytes)
      BY <3>2 DEF Moves
    <3>3. CASE ReadDoc(i)
      <4>1. AfterRead(req[i].kind) # "upload"
        BY DEF AfterRead
      <4> QED
        BY <3>2, <3>3, <4>1, ReadDocMoves
    <3>4. CASE Insert(i)
      BY <3>2, <3>4, InsertMoves
    <3>5. CASE Fetch(i)
      BY <3>1, <3>5, FetchStep
    <3> QED
      BY <1>2, <3>1, <3>2, <3>3, <3>4, <3>5, ListPendingStep, SkipDupMoves,
         SkipUnreadableMoves, MeasureMoves, InsertErrorStep, UploadMoves, AlertStep,
         DeleteMoves, EndTurns DEF Work
  <2> QED
    BY <2>1, <2>2 DEF Stamped
<1> QED
  BY <1>1, <1>2

LEMMA StartInOrder ==
    ASSUME TypeInv, TypeInv', OrderInv, NEW i \in Instances,
           \/ StartBackfill(i) \/ StartDrain(i) \/ Crash(i)
           \/ \E m \in Live : StartWebhook(i, m)
    PROVE  InOrder(i)' /\ ListedBy(i)' /\ Stamped(i)' /\ Others(i)
<1>1. CASE StartBackfill(i) \/ StartDrain(i)
  <2>1. PICK kind, left : Turns(i, kind, left)
    BY <1>1, StartStep
  <2> QED
    BY <2>1, TurnsInOrder DEF Turns, Stamped
<1>2. CASE Crash(i)
  <2>1. Turns(i, "none", {})
    BY <1>2, CrashStep
  <2> QED
    BY <2>1, TurnsInOrder DEF Turns, Stamped
<1>3. CASE \E m \in Live : StartWebhook(i, m)
  <2>1. PICK m \in Live : StartWebhook(i, m)
    BY <1>3
  <2>2. /\ Others(i)
        /\ \/ req'[i] = Idle
           \/ /\ req'[i].kind = "webhook"
              /\ req'[i].pc \in {"read", "loop"}
              /\ req'[i].todo = {[at |-> 0, msg |-> m]}
    BY <2>1, StartWebhookStep
  <2>3. \A it \in req'[i].todo : it.at = 0
    BY <2>2 DEF Idle
  <2>4. now' \in Nat
    BY BoundsAssumption DEF TypeInv, TypeOK
  <2>5. req'[i].kind # "drain" /\ req'[i].pc # "upload"
    BY <2>2 DEF Idle
  <2> QED
    BY <2>2, <2>3, <2>4, <2>5 DEF InOrder, Draining, ListedBy, Stamped
<1> QED
  BY <1>1, <1>2, <1>3

LEMMA OrderInit == Init => OrderInv
<1> SUFFICES ASSUME Init PROVE OrderInv
  OBVIOUS
<1>1. /\ pending = {}
      /\ \A i \in Instances : req[i].todo = {} /\ req[i].kind = "none" /\ req[i].pc = "idle"
  BY DEF Init, Idle
<1> QED
  BY <1>1, OneAtATimeInit, FS_EmptySet DEF OrderInv, Clocked, InOrder, Draining, Stamped

LEMMA OrderStep ==
    ASSUME Pace # "any"
    PROVE  TypeInv /\ OrderInv /\ [Next]_vars => OrderInv'
<1> SUFFICES ASSUME TypeInv, OrderInv, [Next]_vars PROVE OrderInv'
  OBVIOUS
<1>1. QueueStep /\ TypeInv' /\ Clocked
  BY NextQueue, StepType DEF OrderInv
<1>2. OneAtATime'
  BY OneAtATimeStep DEF OrderInv
\* A request that does not move loses nothing: the queue grows at its end.
<1>3. ASSUME NEW j \in Instances, req'[j] = req[j]
      PROVE  InOrder(j)' /\ ListedBy(j)'
  <2>1. InOrder(j)'
    <3>1. Passed(j)' \subseteq Passed(j)
      BY <1>1, <1>3, PassedShrinks
    <3> QED
      BY <1>1, <1>3, <3>1, ShrunkInOrder DEF OrderInv, InOrder, Draining
  <2>2. ListedBy(j)'
    <3>1. \A it \in req[j].todo : it.at \in Nat /\ it.at <= now
      BY <1>1, ItemType DEF Clocked, Item
    <3>2. now \in Nat /\ now' \in Nat /\ now <= now'
      BY <1>1, FaultsNat, BoundsAssumption DEF QueueStep, TypeInv, TypeOK
    <3> QED
      BY <1>3, <3>1, <3>2 DEF ListedBy
  <2> QED
    BY <2>1, <2>2
<1>4. ASSUME \A j \in Instances : InOrder(j)' /\ ListedBy(j)' /\ Stamped(j)'
      PROVE  OrderInv'
  BY <1>1, <1>2, <1>4 DEF OrderInv, Clocked, ListedBy, QueueStep
<1>5. ASSUME now' = now, NEW j \in Instances, req'[j] = req[j]
      PROVE  Stamped(j)'
  BY <1>5 DEF OrderInv, Stamped
<1>6. ASSUME NEW i \in Instances, Work(i) PROVE OrderInv'
  <2>1. InOrder(i)' /\ ListedBy(i)' /\ Stamped(i)' /\ Others(i)
    BY <1>1, <1>6, WorkInOrder, WorkStamped
  <2>2. \A j \in Instances \ {i} : req'[j] = req[j] /\ req[j].pc = "idle"
    BY <1>6, <2>1, WorkOthers DEF Others, OrderInv, OneAtATime
  <2>3. \A j \in Instances \ {i} : Stamped(j)'
    BY <2>2 DEF Stamped
  <2> QED
    BY <1>3, <1>4, <2>1, <2>2, <2>3
<1>7. ASSUME NEW i \in Instances,
             \/ StartBackfill(i) \/ StartDrain(i) \/ Crash(i)
             \/ \E m \in Live : StartWebhook(i, m)
      PROVE  OrderInv'
  <2>1. InOrder(i)' /\ ListedBy(i)' /\ Stamped(i)' /\ Others(i)
    BY <1>1, <1>7, StartInOrder
  <2>2. now' = now
    BY <1>7 DEF StartBackfill, StartDrain, StartWebhook, Crash, store
  <2> QED
    BY <1>3, <1>4, <1>5, <2>1, <2>2 DEF Others
<1>8. CASE req' = req /\ now' = now
  BY <1>3, <1>4, <1>5, <1>8
<1> QED
  BY <1>6, <1>7, <1>8
     DEF Next, Expire, Post, DropRetry, EditRoute, Quiet, vars, store

\* When requests come one after the other, to whichever containers, an item is written
\* only when all that were buffered in an earlier millisecond are gone, but for one for
\* each call that failed (pending.drain, src/shared/pending.py, with the loop of
\* drain_channel, src/slack-sync/main.py).  What makes it so is that no other upload is
\* on its way when enqueue takes its millisecond.
THEOREM DrainsInOrder ==
    ASSUME Pace # "any"
    PROVE  Spec => []DrainFIFO
<1>1. TypeInv /\ OrderInv => DrainFIFO
  <2> SUFFICES ASSUME TypeInv, OrderInv, NEW i \in Instances, req[i].pc = "insert",
                      req[i].kind = "drain", NEW it \in req[i].todo, Current(i, it)
               PROVE  Cardinality({p \in Waiting(req[i].chan) : p.at < it.at}) <= faults
    BY DEF DrainFIFO
  <2> DEFINE before == {p \in Waiting(req[i].chan) : p.at < it.at}
  <2>1. ASSUME NEW p \in before PROVE p \in Passed(i)
    <3>1. p.at \in Nat /\ it.at \in Nat
      BY ItemType DEF Waiting, TypeInv, TypeOK, Item
    <3>2. p \notin req[i].todo
      BY <3>1 DEF Current, Before
    <3> QED
      BY <3>2 DEF Passed
  <2>2. before \in SUBSET Passed(i)
    BY <2>1
  <2> HIDE DEF before
  <2>3. IsFiniteSet(Passed(i)) /\ Cardinality(Passed(i)) \in Nat
    BY PassedFinite DEF OrderInv
  <2>4. /\ Cardinality(before) <= Cardinality(Passed(i))
        /\ Cardinality(before) \in Nat
    BY <2>2, <2>3, FS_Subset, FS_CardinalityType
  <2>5. Cardinality(Passed(i)) <= faults
    BY DEF OrderInv, InOrder, Draining
  <2> QED
    BY <2>3, <2>4, <2>5, FaultsNat DEF before
<1> QED
  BY <1>1, TypeCorrect, OrderInit, OrderStep, PTL DEF Spec
=============================================================================
