-------------------------- MODULE SlackSyncSequential --------------------------
(***************************************************************************)
(* Proofs about slack-sync when requests come one after the other, to      *)
(* whichever containers: insertions are appends, no doc passes the cap,    *)
(* and repeated backfills write a header once.                             *)
(***************************************************************************)
EXTENDS SlackSyncSafety

-----------------------------------------------------------------------------
(* Blocks stay whole *)

\* The index a request is about to insert at is still the end of the doc.
AtEnd(i) == req[i].pc = "insert" => req[i].end = Len(docs[Target(i)].text)

TornInv == NothingTorn /\ \A i \in Instances : AtEnd(i)

LEMMA TornWhole == NothingTorn <=> \A d \in DocIds : Whole(docs[d].text, Chars)
  BY DEF NothingTorn, Whole

\* The text of doc d, and what the write makes of it.
LEMMA WriteAppends ==
    ASSUME TypeInv, NEW i \in Instances, req[i].pc = "insert", AtEnd(i),
           NEW it \in req[i].todo, Write(Target(i), req[i].end, it.msg)
    PROVE  \E d \in DocIds, m \in Messages :
              /\ d = Target(i) /\ m = it.msg
              /\ Appends(docs[d].text, docs'[d].text, m, Chars[m])
              /\ Whole(docs[d].text, Chars) => Whole(docs'[d].text, Chars)
              /\ \A e \in DocIds \ {d} : docs'[e] = docs[e]
<1>1. PICK d \in DocIds, m \in Messages :
        \E k \in 0..Len(docs[d].text) :
           /\ d = Target(i) /\ m = it.msg /\ k = req[i].end
           /\ docs'[d].text = Spliced(docs[d].text, k, Block(m, Chars[m]))
           /\ \A e \in DocIds \ {d} : docs'[e] = docs[e]
  BY WriteContent
<1>2. PICK text, t, C : text = docs[d].text /\ t = docs'[d].text /\ C = Messages \X Nat
  OBVIOUS
<1>3. PICK n \in Nat : n = Chars[m]
  BY InputsAssumption
<1>4. text \in Seq(C) /\ Block(m, n) \in Seq(C)
  BY <1>2, BlockType DEF TypeInv, TypeOK, Doc
<1>5. t = Spliced(text, Len(text), Block(m, n))
  BY <1>1, <1>2, <1>3 DEF AtEnd
<1>6. Appends(text, t, m, n)
  BY <1>4, <1>5, AppendedPositions
<1>7. Whole(text, Chars) => Whole(t, Chars)
  BY <1>3, <1>4, <1>5, AppendedWhole
<1> QED
  BY <1>1, <1>2, <1>3, <1>6, <1>7

\* Only append_to_doc's first call makes a request about to insert.
LEMMA OnlyMeasure ==
    ASSUME TypeInv, NEW i \in Instances, Work(i), ~Measure(i)
    PROVE  req'[i].pc # "insert"
<1>1. Turns(i, req[i].kind, req[i].left) => req'[i].pc # "insert"
  BY DEF Turns
<1>2. \A pc, todo, bytes : pc # "insert" /\ Moves(i, pc, todo, bytes) => req'[i].pc # "insert"
  BY DEF Moves
<1>3. ReadDoc(i) => req'[i].pc # "insert"
  BY <1>2, ReadDocMoves DEF AfterRead
<1>4. Fetch(i) => req'[i].pc # "insert"
  BY <1>1, FetchStep
<1>5. Insert(i) \/ InsertError(i) => req'[i].pc # "insert"
  BY <1>1, <1>2, InsertMoves, InsertErrorStep
<1>6. ListPending(i) \/ Alert(i) => req'[i].pc # "insert"
  BY <1>1, <1>2, ListPendingStep, AlertStep
<1>7. SkipDup(i) \/ SkipUnreadable(i) \/ Delete(i) => req'[i].pc # "insert"
  BY <1>2, SkipDupMoves, SkipUnreadableMoves, DeleteMoves
<1>8. Buffer(i) \/ Upload(i) => req'[i].pc # "insert"
  BY <1>2, BufferMoves, UploadMoves
<1>9. StopDrain(i) \/ Finish(i) => req'[i].pc # "insert"
  BY <1>1, EndTurns
<1> QED
  BY <1>3, <1>4, <1>5, <1>6, <1>7, <1>8, <1>9 DEF Work

LEMMA MeasureAtEnd ==
    ASSUME TypeInv, NEW i \in Instances, Measure(i)
    PROVE  AtEnd(i)'
<1>1. req'[i].end = Len(docs[Target(i)].text) /\ req'[i].route = req[i].route
  BY MeasureMoves DEF Moves
<1>2. docs' = docs
  BY DEF Measure, store
<1> QED
  BY <1>1, <1>2 DEF AtEnd, Target

\* Nobody else is about to insert while a request writes.
LEMMA WorkTorn ==
    ASSUME TypeInv, OneAtATime, TornInv, NEW i \in Instances, Work(i)
    PROVE  TornInv'
<1>1. \A j \in Instances \ {i} : req'[j] = req[j] /\ req[j].pc = "idle"
  BY WorkOthers DEF Others, OneAtATime
<1>2. \A j \in Instances \ {i} : AtEnd(j)'
  BY <1>1 DEF AtEnd
<1>3. AtEnd(i)'
  BY OnlyMeasure, MeasureAtEnd DEF AtEnd
<1>4. NothingTorn'
  <2>1. CASE docs' = docs
    BY <2>1 DEF TornInv, NothingTorn
  <2>2. CASE /\ req[i].pc = "insert"
             /\ \E it \in req[i].todo : Write(Target(i), req[i].end, it.msg)
    <3>1. PICK d \in DocIds :
            /\ Whole(docs[d].text, Chars) => Whole(docs'[d].text, Chars)
            /\ \A e \in DocIds \ {d} : docs'[e] = docs[e]
      BY <2>2, WriteAppends DEF TornInv
    <3>2. \A e \in DocIds : Whole(docs[e].text, Chars)
      BY TornWhole DEF TornInv
    <3>3. \A e \in DocIds : Whole(docs'[e].text, Chars)
      BY <3>1, <3>2
    <3> QED
      BY <3>3 DEF NothingTorn, Whole
  <2> QED
    BY <2>1, <2>2, WorkWrites
<1> QED
  BY <1>2, <1>3, <1>4 DEF TornInv

LEMMA TornInit == Init => TornInv
<1> SUFFICES ASSUME Init PROVE TornInv
  OBVIOUS
<1>1. \A d \in DocIds : docs[d].text = <<>>
  BY DEF Init
<1>2. NothingTorn
  BY <1>1 DEF NothingTorn
<1>3. \A i \in Instances : AtEnd(i)
  BY DEF Init, AtEnd, Idle
<1> QED
  BY <1>2, <1>3 DEF TornInv

LEMMA TornStep ==
    ASSUME Pace # "any"
    PROVE  TypeInv /\ OneAtATime /\ TornInv /\ [Next]_vars => TornInv'
<1> SUFFICES ASSUME TypeInv, OneAtATime, TornInv, [Next]_vars PROVE TornInv'
  OBVIOUS
<1>1. ASSUME NEW i \in Instances, Others(i), req'[i].pc # "insert", docs' = docs
      PROVE  TornInv'
  BY <1>1 DEF Others, TornInv, NothingTorn, AtEnd, Target
<1>2. ASSUME NEW i \in Instances, StartBackfill(i) \/ StartDrain(i) PROVE TornInv'
  <2>1. PICK kind, left : Turns(i, kind, left)
    BY <1>2, StartStep
  <2> QED
    BY <1>1, <1>2, <2>1 DEF Turns, StartBackfill, StartDrain, store
<1>3. ASSUME NEW i \in Instances, NEW m \in Live, StartWebhook(i, m) PROVE TornInv'
  <2>1. Others(i) /\ req'[i].pc # "insert"
    BY <1>3, StartWebhookStep DEF Idle
  <2> QED
    BY <1>1, <1>3, <2>1 DEF StartWebhook, store
<1>4. ASSUME NEW i \in Instances, Crash(i) PROVE TornInv'
  BY <1>1, <1>4, CrashStep DEF Turns
<1>5. CASE docs' = docs /\ req' = req
  BY <1>5 DEF TornInv, NothingTorn, AtEnd, Target
<1> QED
  BY <1>2, <1>3, <1>4, <1>5, WorkTorn
     DEF Next, Expire, Post, DropRetry, EditRoute, Quiet, vars, store

\* When requests come one after the other, append_to_doc (src/shared/google_docs.py)
\* appends: the index its first call reads is the end of the doc at its second, and
\* every block in a doc stands there whole, whatever fails or crashes.
THEOREM SequentialWhole ==
    ASSUME Pace # "any"
    PROVE  Spec => []NothingTorn
<1>1. TornInv => NothingTorn
  BY DEF TornInv
<1> QED
  BY <1>1, TypeCorrect, OneAtATimeInit, OneAtATimeStep, TornInit, TornStep, PTL DEF Spec

-----------------------------------------------------------------------------
(* No doc passes the cap *)

\* Requests come one after the other, none is a webhook's (which trusts a text it
\* cached before other requests wrote), every doc can be read, and no insertion takes
\* effect whose reply is lost.
InTurn ==
    /\ Pace # "any"
    /\ Live = {}
    /\ FaultKinds \cap {"read", "appendReply"} = {}

\* The text a request has read is at least the tail doc's, and what it is about to
\* insert fits.
Measured(i) ==
    /\ req[i].pc \notin {"idle", "read"} => docs[Target(i)].bytes <= req[i].bytes
    /\ req[i].pc = "insert" =>
         \A it \in req[i].todo : Current(i, it) => req[i].bytes + Size[it.msg] <= Cap

CapInv == CapRespected /\ \A i \in Instances : Measured(i)

LEMMA TurnsMeasured ==
    ASSUME NEW i \in Instances, NEW kind, NEW left, Turns(i, kind, left)
    PROVE  Measured(i)'
  BY DEF Turns, Measured

\* The loop goes on, the docs and the request's text as they were.
LEMMA MovesMeasured ==
    ASSUME NEW i \in Instances, Measured(i), req[i].pc \notin {"idle", "read"},
           docs' = docs, NEW pc, NEW todo, Moves(i, pc, todo, req[i].bytes),
           pc # "insert"
    PROVE  Measured(i)'
  BY DEF Measured, Moves, Target

LEMMA SameDocsCap ==
    ASSUME CapRespected, docs' = docs
    PROVE  CapRespected'
  BY DEF CapRespected

LEMMA InsertCap ==
    ASSUME TypeInv, CapInv, NEW i \in Instances, Insert(i)
    PROVE  CapRespected' /\ Measured(i)'
<1>1. PICK it \in req[i].todo :
        /\ Current(i, it)
        /\ Write(Target(i), req[i].end, it.msg)
        /\ IF req[i].kind = "drain"
           THEN Moves(i, "delete", req[i].todo, req[i].bytes + Size[it.msg])
           ELSE Moves(i, "loop", Rest(i, it), req[i].bytes + Size[it.msg])
  BY InsertMoves
<1>2. req[i].pc = "insert"
  BY DEF Insert
<1>3. /\ Target(i) \in DocIds /\ it.msg \in Messages
      /\ docs'[Target(i)].bytes = docs[Target(i)].bytes + Size[it.msg]
      /\ \A e \in DocIds \ {Target(i)} : docs'[e] = docs[e]
  <2>1. PICK d \in DocIds, m \in Messages :
          /\ d = Target(i) /\ m = it.msg
          /\ docs'[d].bytes = docs[d].bytes + Size[m]
          /\ \A e \in DocIds \ {d} : docs'[e] = docs[e]
    BY <1>1, <1>2, WriteContent
  <2> QED
    BY <2>1
<1>4. /\ docs[Target(i)].bytes \in Nat /\ Size[it.msg] \in Nat
      /\ req[i].bytes \in Nat /\ Cap \in Nat
  BY <1>3, InputsAssumption, RequestFacts DEF TypeInv, TypeOK, Doc, Request
<1>5. /\ docs[Target(i)].bytes <= req[i].bytes
      /\ req[i].bytes + Size[it.msg] <= Cap
  BY <1>1, <1>2 DEF CapInv, Measured
<1>6. CapRespected'
  BY <1>3, <1>4, <1>5 DEF CapInv, CapRespected
<1>7. /\ req'[i].pc \in {"delete", "loop"}
      /\ req'[i].bytes = req[i].bytes + Size[it.msg]
      /\ req'[i].route = req[i].route
  BY <1>1 DEF Moves
<1>8. Measured(i)'
  BY <1>3, <1>4, <1>5, <1>7 DEF Measured, Target
<1> QED
  BY <1>6, <1>8

LEMMA WorkCap ==
    ASSUME InTurn, TypeInv, CapInv, NEW i \in Instances, Work(i)
    PROVE  CapRespected' /\ Measured(i)'
<1>1. Measured(i) /\ CapRespected
  BY DEF CapInv
<1>2. CASE Insert(i)
  BY <1>2, InsertCap
<1>3. CASE ~Insert(i)
  <2>1. docs' = docs
    <3>1. CASE InsertError(i)
      BY <3>1, InsertErrorStep DEF InTurn, Fault
    <3>2. CASE ~InsertError(i)
      BY <1>3, <3>2, WorkWrites
    <3> QED
      BY <3>1, <3>2
  <2>2. CapRespected'
    BY <1>1, <2>1, SameDocsCap
  <2>3. CASE Turns(i, req[i].kind, req[i].left)
    BY <2>2, <2>3, TurnsMeasured
  <2>4. CASE /\ req[i].pc \notin {"idle", "read"}
             /\ \E pc, todo : Moves(i, pc, todo, req[i].bytes) /\ pc # "insert"
    BY <1>1, <2>1, <2>2, <2>4, MovesMeasured
  <2>5. CASE ReadDoc(i)
    <3>1. PICK pc \in {"read", AfterRead(req[i].kind)}, bytes \in Nat :
            /\ Moves(i, pc, req[i].todo, bytes)
            /\ pc # "read" => docs[Target(i)].bytes <= bytes
      BY <2>5, ReadDocMoves DEF InTurn
    <3>2. pc # "insert"
      BY DEF AfterRead
    <3> QED
      BY <2>1, <2>2, <3>1, <3>2 DEF Measured, Moves, Target
  <2>6. CASE Fetch(i)
    <3>1. CASE ~Turns(i, req[i].kind, req[i].left)
      <4>1. /\ req'[i].pc = "loop" /\ req'[i].bytes = req[i].bytes
            /\ req'[i].route = req[i].route
        BY <2>6, <3>1, FetchStep
      <4>2. req[i].pc = "fetch"
        BY <2>6 DEF Fetch
      <4> QED
        BY <1>1, <2>1, <2>2, <4>1, <4>2 DEF Measured, Target
    <3> QED
      BY <2>3, <3>1
  <2>7. CASE Measure(i)
    <3>1. /\ Moves(i, "insert", req[i].todo, req[i].bytes)
          /\ \E it \in req[i].todo : Current(i, it) /\ ~IsFull(i, it.msg)
      BY <2>7, MeasureMoves
    <3>2. PICK x \in req[i].todo : Current(i, x) /\ ~IsFull(i, x.msg)
      BY <3>1
    <3>3. req[i].bytes + Size[x.msg] <= Cap
      <4>1. Size[x.msg] \in Nat /\ req[i].bytes \in Nat /\ Cap \in Nat
        BY ItemType, RequestFacts, InputsAssumption DEF Request
      <4> QED
        BY <3>2, <4>1 DEF IsFull
    <3>4. ASSUME NEW it \in req[i].todo, Current(i, it)
          PROVE  req[i].bytes + Size[it.msg] <= Cap
      <4>1. it = x
        BY <3>2, <3>4, CurrentUnique DEF TypeInv
      <4> QED
        BY <3>3, <4>1
    <3>5. req[i].pc = "loop"
      BY <2>7 DEF Measure
    <3>6. \A it : Current(i, it)' <=> Current(i, it)
      BY <3>1 DEF Current, Moves
    <3> QED
      BY <1>1, <2>1, <2>2, <3>1, <3>4, <3>5, <3>6 DEF Measured, Moves, Target
  <2>8. CASE ListPending(i)
    <3>1. req[i].pc = "list"
      BY <2>8 DEF ListPending
    <3> QED
      BY <2>3, <2>4, <2>8, <3>1, ListPendingStep
  <2>9. CASE SkipDup(i)
    <3>1. req[i].pc = "loop"
      BY <2>9 DEF SkipDup
    <3> QED
      BY <2>4, <2>9, <3>1, SkipDupMoves
  <2>10. CASE SkipUnreadable(i)
    <3>1. req[i].pc = "loop"
      BY <2>10 DEF SkipUnreadable
    <3> QED
      BY <2>4, <2>10, <3>1, SkipUnreadableMoves
  <2>11. CASE InsertError(i)
    <3>1. req[i].pc = "insert"
      BY <2>11 DEF InsertError
    <3> QED
      BY <2>3, <2>4, <2>11, <3>1, InsertErrorStep
  <2>12. CASE Buffer(i)
    <3>1. req[i].pc = "loop"
      BY <2>12 DEF Buffer
    <3> QED
      BY <2>4, <2>12, <3>1, BufferMoves
  <2>16. CASE Upload(i)
    <3>1. req[i].pc = "upload"
      BY <2>16 DEF Upload
    <3> QED
      BY <2>4, <2>16, <3>1, UploadMoves
  <2>13. CASE Alert(i)
    BY <2>3, <2>4, <2>13, AlertStep DEF Alert
  <2>14. CASE Delete(i)
    <3>1. req[i].pc = "delete"
      BY <2>14 DEF Delete
    <3> QED
      BY <2>4, <2>14, <3>1, DeleteMoves
  <2>15. CASE StopDrain(i) \/ Finish(i)
    BY <2>3, <2>15, EndTurns
  <2> QED
    BY <1>3, <2>5, <2>6, <2>7, <2>8, <2>9, <2>10, <2>11, <2>12, <2>13, <2>14, <2>15,
       <2>16 DEF Work
<1> QED
  BY <1>2, <1>3

LEMMA CapInit == Init => CapInv
<1> SUFFICES ASSUME Init PROVE CapInv
  OBVIOUS
<1>1. CapRespected
  BY InputsAssumption DEF Init, CapRespected
<1>2. \A i \in Instances : Measured(i)
  BY DEF Init, Measured, Idle
<1> QED
  BY <1>1, <1>2 DEF CapInv

LEMMA CapStep ==
    ASSUME InTurn
    PROVE  TypeInv /\ OneAtATime /\ CapInv /\ [Next]_vars => CapInv'
<1> SUFFICES ASSUME TypeInv, OneAtATime, CapInv, [Next]_vars PROVE CapInv'
  OBVIOUS
<1>1. ASSUME NEW i \in Instances, CapRespected', Measured(i)', Others(i),
             docs' = docs \/ \A j \in Instances \ {i} : req[j].pc = "idle"
      PROVE  CapInv'
  <2>1. ASSUME NEW j \in Instances \ {i} PROVE Measured(j)'
    <3>1. req'[j] = req[j] /\ Measured(j)
      BY <1>1 DEF Others, CapInv
    <3>2. CASE docs' = docs
      BY <3>1, <3>2 DEF Measured, Target, Current
    <3>3. CASE req[j].pc = "idle"
      BY <3>1, <3>3 DEF Measured
    <3> QED
      BY <1>1, <3>2, <3>3
  <2> QED
    BY <1>1, <2>1 DEF CapInv
<1>2. ASSUME NEW i \in Instances, Work(i) PROVE CapInv'
  <2>1. Others(i) /\ \A j \in Instances \ {i} : req[j].pc = "idle"
    BY <1>2, WorkOthers DEF OneAtATime
  <2> QED
    BY <1>1, <1>2, <2>1, WorkCap
<1>3. ASSUME NEW i \in Instances, StartBackfill(i) \/ StartDrain(i) PROVE CapInv'
  <2>1. PICK kind, left : Turns(i, kind, left)
    BY <1>3, StartStep
  <2>2. docs' = docs
    BY <1>3 DEF StartBackfill, StartDrain, store
  <2> QED
    BY <1>1, <2>1, <2>2, TurnsMeasured, SameDocsCap DEF CapInv, Turns
<1>4. ASSUME NEW i \in Instances, Crash(i) PROVE CapInv'
  <2>1. Turns(i, "none", {}) /\ docs' = docs
    BY <1>4, CrashStep
  <2> QED
    BY <1>1, <2>1, TurnsMeasured, SameDocsCap DEF CapInv, Turns
<1>5. CASE docs' = docs /\ req' = req
  BY <1>5, SameDocsCap DEF CapInv, Measured, Target, Current
<1> QED
  BY <1>2, <1>3, <1>4, <1>5
     DEF Next, InTurn, Expire, Post, DropRetry, EditRoute, Quiet, vars, store

\* When backfills and drains come one after the other, to whichever containers,
\* append_to_doc (src/shared/google_docs.py) never takes a doc past the cap, whatever
\* else fails, crashes or is edited, although it tests the text that the request read
\* at its start and counted on from there.
THEOREM SequentialCap ==
    ASSUME InTurn
    PROVE  Spec => []CapRespected
<1>1. CapInv => CapRespected
  BY DEF CapInv
<1>2. TypeInv /\ OneAtATime /\ CapInv /\ [Next]_vars => CapInv'
  BY CapStep
<1>3. TypeInv /\ OneAtATime /\ [Next]_vars => OneAtATime'
  BY OneAtATimeStep DEF InTurn
<1> QED
  BY <1>1, <1>2, <1>3, TypeCorrect, OneAtATimeInit, CapInit, PTL DEF Spec

-----------------------------------------------------------------------------
(* Repeated backfills write a header once *)

\* Besides, a request goes to the container of the one before or comes when what other
\* containers cached of the mapping has aged, and the mapping can be read.
Spaced == InTurn /\ Pace = "spaced" /\ "mapping" \notin FaultKinds

\* The operator puts docs into a channel's list and takes none out.
ListsExtend == \A ch \in Channels : ToSet(mapping[ch]) \subseteq ToSet(mapping'[ch])

\* The instance goes by the mapping it has cached.
Knows(i) == mapCache[i].fresh \/ req[i].pc # "idle"

\* While one is busy the mappings of the others have aged.
OneKnows ==
    \A i, j \in Instances : i # j /\ req[i].pc # "idle" => ~mapCache[j].fresh

\* A request works with lists of the mapping its instance has cached.
OfList(i) ==
    req[i].pc # "idle" =>
        /\ req[i].route = mapCache[i].lists[req[i].chan]
        /\ \A x \in req[i].left : x.route = mapCache[i].lists[x.chan]

Behind(i) == \A ch \in Channels : ToSet(mapCache[i].lists[ch]) \subseteq ToSet(mapping[ch])

\* A doc with text of a channel is in the channel's list, the published one and those
\* that instances go by.
Listed ==
    \A d \in DocIds : \A s \in DOMAIN docs[d].text :
        LET ch == Channel[docs[d].text[s][1]]
        IN  /\ d \in ToSet(mapping[ch])
            /\ \A i \in Instances : Knows(i) => d \in ToSet(mapCache[i].lists[ch])

\* The messages whose block begins in a text.
Headed(text) == {text[s][1] : s \in {u \in DOMAIN text : text[u][2] = 1}}

\* What the text that a request has read holds: all blocks of the docs read so far.
ReadAll(i) ==
    /\ req[i].pc = "read" =>
         \A k \in 1..req[i].nread :
             Headed(docs[req[i].route[k]].text) \subseteq req[i].seen
    /\ req[i].pc \notin {"idle", "read"} =>
         \A d \in ToSet(req[i].route) : Headed(docs[d].text) \subseteq req[i].seen

\* What a backfill is about to insert is not in that text, and what a drain handles
\* went through the buffer.
Fresh(i) ==
    /\ req[i].pc = "fetch" => req[i].kind # "drain"
    /\ req[i].pc = "insert" /\ req[i].kind # "drain" =>
         \A it \in req[i].todo : Current(i, it) => ~IsDup(i, it.msg)
    /\ req[i].kind = "drain" => \A it \in req[i].todo : it.msg \in accepted

OnceInv ==
    /\ \A i \in Instances : OfList(i) /\ Behind(i) /\ ReadAll(i) /\ Fresh(i)
    /\ Listed /\ OneKnows
    /\ Buffered \subseteq accepted
    /\ OncePerHeader

LEMMA ListTypes ==
    ASSUME TypeInv, NEW i \in Instances
    PROVE  mapping \in Lists /\ mapCache[i].lists \in Lists
  BY DEF TypeInv, TypeOK, MapEntry

LEMMA TurnsOnce ==
    ASSUME NEW i \in Instances, NEW kind, NEW left, Turns(i, kind, left),
           \A x \in left : x.route = mapCache'[i].lists[x.chan]
    PROVE  OfList(i)' /\ ReadAll(i)' /\ Fresh(i)'
<1>1. OfList(i)'
  BY DEF Turns, OfList
<1>2. ReadAll(i)' /\ Fresh(i)'
  BY DEF Turns, ReadAll, Fresh
<1> QED
  BY <1>1, <1>2

\* The loop goes on with some of the items it had.
LEMMA MovesOnce ==
    ASSUME NEW i \in Instances, OfList(i), ReadAll(i), Fresh(i),
           req[i].pc \notin {"idle", "read"},
           docs' = docs, mapCache' = mapCache, accepted \subseteq accepted',
           NEW pc, NEW todo, NEW bytes, Moves(i, pc, todo, bytes),
           pc \notin {"idle", "read", "fetch", "insert"},
           req[i].kind = "drain" => \A it \in todo : it.msg \in accepted
    PROVE  OfList(i)' /\ ReadAll(i)' /\ Fresh(i)'
<1>1. OfList(i)'
  BY DEF Moves, OfList
<1>2. ReadAll(i)'
  BY DEF Moves, ReadAll
<1>3. Fresh(i)'
  BY DEF Moves, Fresh
<1> QED
  BY <1>1, <1>2, <1>3

\* A search of a text of whole blocks finds the headers of all of them.
LEMMA HeadedIsLegible ==
    ASSUME TypeInv, NothingTorn, NEW d \in DocIds
    PROVE  Headed(docs[d].text) \subseteq Legible(docs[d].text)
<1>1. PICK text : text = docs[d].text
  OBVIOUS
<1>2. text \in Seq(Messages \X Nat) /\ Whole(text, Chars)
  BY <1>1, TornWhole DEF TypeInv, TypeOK, Doc
<1> SUFFICES ASSUME NEW s \in DOMAIN text, text[s][2] = 1
             PROVE  text[s][1] \in Legible(text)
  BY <1>1 DEF Headed
<1>3. s \in Int /\ text[s] \in Messages \X Nat
  BY <1>2
<1>4. PICK m \in Messages : m = text[s][1]
  BY <1>3
<1>5. PICK last \in Nat : last = HeaderEnd[m]
  BY InputsAssumption
<1>6. Chars[m] \in Nat /\ last <= Chars[m]
  BY <1>5, InputsAssumption
<1>7. Shows(text, text[s][1], 1, last)
  BY <1>2, <1>3, <1>4, <1>6, WholeShows
<1> QED
  BY <1>4, <1>5, <1>7 DEF Legible

\* What an append adds to the blocks of a doc.
LEMMA AppendHeads ==
    ASSUME NEW text, NEW t, NEW m, NEW n \in Nat, Appends(text, t, m, n)
    PROVE  Headed(t) \subseteq Headed(text) \cup {m}
<1> SUFFICES ASSUME NEW s \in DOMAIN t, t[s][2] = 1
             PROVE  t[s][1] \in Headed(text) \cup {m}
  BY DEF Headed
<1>1. CASE s \in DOMAIN text /\ t[s] = text[s]
  BY <1>1 DEF Headed
<1>2. CASE \E k \in 1..n : s = Len(text) + k /\ t[s] = <<m, k>>
  BY <1>2
<1> QED
  BY <1>1, <1>2 DEF Appends

\* No block that begins in a doc of the channel has the header of the one that a backfill
\* is about to insert.
LEMMA NoTwin ==
    ASSUME TypeInv, ApartInv, OnceInv, NEW i \in Instances, req[i].pc = "insert",
           NEW it \in req[i].todo, Current(i, it), it.msg \notin accepted,
           NEW e \in DocIds, NEW j \in DOMAIN docs[e].text, docs[e].text[j][2] = 1,
           NEW n, n = docs[e].text[j][1], Channel[n] = Channel[it.msg]
    PROVE  Key[n] # Key[it.msg]
<1>1. req[i].kind # "drain" /\ ~IsDup(i, it.msg)
  BY DEF OnceInv, Fresh
<1>2. Channel[it.msg] = req[i].chan /\ req[i].chan \in Channels
  BY DEF ApartInv, Own
<1>3. req[i].route = mapCache[i].lists[req[i].chan] /\ req[i].route # <<>>
  BY RequestFacts DEF OnceInv, OfList, RequestShape
<1>4. e \in ToSet(req[i].route)
  BY <1>2, <1>3 DEF OnceInv, Listed, Knows
<1>5. n \in Headed(docs[e].text)
  BY DEF Headed
<1>6. n \in req[i].seen
  BY <1>4, <1>5 DEF OnceInv, ReadAll
<1> QED
  BY <1>1, <1>6 DEF IsDup

LEMMA InsertOncePerHeader ==
    ASSUME TypeInv, ApartInv, OnceInv, NEW i \in Instances, req[i].pc = "insert", AtEnd(i),
           NEW it \in req[i].todo, Current(i, it),
           Write(Target(i), req[i].end, it.msg), accepted' = accepted
    PROVE  OncePerHeader'
<1>1. PICK x \in DocIds, m \in Messages :
        /\ x = Target(i) /\ m = it.msg
        /\ Appends(docs[x].text, docs'[x].text, m, Chars[m])
        /\ \A e \in DocIds \ {x} : docs'[e] = docs[e]
  BY WriteAppends
<1> DEFINE New(d, j) == d = x /\ j = Len(docs[x].text) + 1 /\ docs'[d].text[j][1] = m
           Old(d, j) == j \in DOMAIN docs[d].text /\ docs'[d].text[j] = docs[d].text[j]
<1>2. ASSUME NEW d \in DocIds, NEW j \in DOMAIN docs'[d].text, docs'[d].text[j][2] = 1
      PROVE  New(d, j) \/ Old(d, j)
  <2>1. CASE d = x
    BY <1>1, <1>2, <2>1 DEF Appends
  <2>2. CASE d # x
    BY <1>1, <2>2
  <2> QED
    BY <2>1, <2>2
<1> SUFFICES ASSUME NEW d \in DocIds, NEW e \in DocIds,
                    NEW j \in DOMAIN docs'[d].text, NEW k \in DOMAIN docs'[e].text,
                    NEW n, NEW o, n = docs'[d].text[j][1], o = docs'[e].text[k][1],
                    docs'[d].text[j][2] = 1, docs'[e].text[k][2] = 1,
                    Channel[n] = Channel[o], Key[n] = Key[o],
                    {n, o} \cap accepted = {}
             PROVE  d = e /\ j = k
  BY DEF OncePerHeader
<1>3. (New(d, j) \/ Old(d, j)) /\ (New(e, k) \/ Old(e, k))
  BY <1>2
<1>4. CASE New(d, j) /\ New(e, k)
  BY <1>4
<1>5. CASE New(d, j) /\ Old(e, k)
  <2>1. docs[e].text[k][2] = 1 /\ o = docs[e].text[k][1]
    BY <1>5
  <2>2. n = it.msg
    BY <1>1, <1>5
  <2> QED
    BY <1>5, <2>1, <2>2, NoTwin
<1>6. CASE New(e, k) /\ Old(d, j)
  <2>1. docs[d].text[j][2] = 1 /\ n = docs[d].text[j][1]
    BY <1>6
  <2>2. o = it.msg
    BY <1>1, <1>6
  <2> QED
    BY <1>6, <2>1, <2>2, NoTwin
<1>7. CASE Old(d, j) /\ Old(e, k)
  BY <1>7 DEF OnceInv, OncePerHeader
<1> QED
  BY <1>3, <1>4, <1>5, <1>6, <1>7

\* What an instance does leaves the requests of the others as they should be.
LEMMA OthersOnce ==
    ASSUME OnceInv, NEW i \in Instances, Others(i),
           docs' = docs \/ \A j \in Instances \ {i} : req[j].pc = "idle",
           \A j \in Instances \ {i} : mapCache'[j] = mapCache[j],
           mapping' = mapping, accepted \subseteq accepted',
           OfList(i)', Behind(i)', ReadAll(i)', Fresh(i)', Listed', OneKnows',
           Buffered' \subseteq accepted', OncePerHeader'
    PROVE  OnceInv'
<1>1. ASSUME NEW j \in Instances \ {i}
      PROVE  OfList(j)' /\ Behind(j)' /\ ReadAll(j)' /\ Fresh(j)'
  <2>1. req'[j] = req[j] /\ mapCache'[j] = mapCache[j]
    BY DEF Others
  <2>2. OfList(j) /\ Behind(j) /\ ReadAll(j) /\ Fresh(j)
    BY DEF OnceInv
  <2>3. OfList(j)' /\ Behind(j)'
    BY <2>1, <2>2 DEF OfList, Behind
  <2>4. ReadAll(j)'
    <3>1. CASE docs' = docs
      BY <2>1, <2>2, <3>1 DEF ReadAll
    <3>2. CASE req[j].pc = "idle"
      BY <2>1, <3>2 DEF ReadAll
    <3> QED
      BY <3>1, <3>2
  <2>5. Fresh(j)'
    BY <2>1, <2>2 DEF Fresh, Current, IsDup
  <2> QED
    BY <2>3, <2>4, <2>5
<1> QED
  BY <1>1 DEF OnceInv

LEMMA InsertOnce ==
    ASSUME TypeInv, OneAtATime, TornInv, ApartInv, OnceInv, NEW i \in Instances, Insert(i)
    PROVE  OfList(i)' /\ ReadAll(i)' /\ Fresh(i)' /\ Listed' /\ OncePerHeader'
<1>1. PICK it \in req[i].todo :
        /\ Current(i, it)
        /\ Write(Target(i), req[i].end, it.msg)
        /\ req'[i].seen = req[i].seen \cup {it.msg}
        /\ IF req[i].kind = "drain"
           THEN Moves(i, "delete", req[i].todo, req[i].bytes + Size[it.msg])
           ELSE Moves(i, "loop", Rest(i, it), req[i].bytes + Size[it.msg])
  BY InsertMoves
<1>2. req[i].pc = "insert" /\ mapping' = mapping /\ mapCache' = mapCache /\ accepted' = accepted
  BY DEF Insert, world
<1>3. PICK x \in DocIds, m \in Messages :
        /\ x = Target(i) /\ m = it.msg
        /\ Appends(docs[x].text, docs'[x].text, m, Chars[m])
        /\ \A e \in DocIds \ {x} : docs'[e] = docs[e]
  BY <1>1, <1>2, WriteAppends DEF TornInv
<1>4. /\ req'[i].pc \in {"delete", "loop"}
      /\ req'[i].kind = req[i].kind /\ req'[i].chan = req[i].chan
      /\ req'[i].route = req[i].route /\ req'[i].left = req[i].left
      /\ req[i].kind = "drain" => req'[i].todo = req[i].todo
  BY <1>1 DEF Moves
<1>5. OfList(i) /\ ReadAll(i) /\ Fresh(i) /\ Listed /\ Behind(i)
  BY DEF OnceInv
<1>6. OfList(i)'
  BY <1>2, <1>4, <1>5 DEF OfList
<1>7. req[i].route \in Seq(DocIds) /\ req[i].route # <<>>
  BY <1>2, RequestFacts DEF Request, RequestShape
<1>8. ReadAll(i)'
  <2> SUFFICES ASSUME NEW d \in ToSet(req[i].route)
               PROVE  Headed(docs'[d].text) \subseteq req'[i].seen
    BY <1>4 DEF ReadAll
  <2>1. d \in DocIds
    BY <1>7 DEF ToSet
  <2>2. Headed(docs[d].text) \subseteq req[i].seen
    BY <1>2, <1>5 DEF ReadAll
  <2>3. CASE d = x
    <3>1. Headed(docs'[x].text) \subseteq Headed(docs[x].text) \cup {m}
      BY <1>3, AppendHeads, InputsAssumption
    <3> QED
      BY <1>1, <1>3, <2>2, <2>3, <3>1
  <2>4. CASE d # x
    BY <1>1, <1>3, <2>1, <2>2, <2>4
  <2> QED
    BY <2>3, <2>4
<1>9. Fresh(i)'
  BY <1>2, <1>4, <1>5 DEF Fresh
<1>10. Listed'
  <2>1. x \in ToSet(req[i].route)
    <3>1. Len(req[i].route) \in DOMAIN req[i].route
      BY <1>7
    <3> QED
      BY <1>3, <3>1 DEF Target, Last, ToSet
  <2>2. Channel[m] = req[i].chan /\ req[i].chan \in Channels
    BY <1>2, <1>3 DEF ApartInv, Own
  <2>3. x \in ToSet(mapCache[i].lists[Channel[m]])
    BY <1>2, <1>5, <2>1, <2>2 DEF OfList
  <2>4. x \in ToSet(mapping[Channel[m]])
    BY <1>5, <2>2, <2>3 DEF Behind
  <2>5. ASSUME NEW j \in Instances, Knows(j)'
        PROVE  Knows(j) /\ (j # i => FALSE)
    <3>1. j # i => req'[j] = req[j] /\ req[j].pc = "idle"
      BY <1>2, <1>1 DEF Moves, Others, OneAtATime
    <3>2. j # i => ~mapCache[j].fresh
      BY <1>2 DEF OnceInv, OneKnows
    <3> QED
      BY <1>2, <2>5, <3>1, <3>2 DEF Knows
  <2>6. ASSUME NEW d \in DocIds, NEW s \in DOMAIN docs'[d].text
        PROVE  \/ s \in DOMAIN docs[d].text /\ docs'[d].text[s] = docs[d].text[s]
               \/ d = x /\ docs'[d].text[s][1] = m
    <3>1. CASE d = x
      BY <1>3, <3>1 DEF Appends
    <3>2. CASE d # x
      BY <1>3, <3>2
    <3> QED
      BY <3>1, <3>2
  <2> QED
    BY <1>2, <1>5, <2>3, <2>4, <2>5, <2>6 DEF Listed
<1>11. OncePerHeader'
  BY <1>1, <1>2, InsertOncePerHeader DEF TornInv
<1> QED
  BY <1>6, <1>8, <1>9, <1>10, <1>11

LEMMA SameDocsOnce ==
    ASSUME OncePerHeader, docs' = docs, accepted \subseteq accepted'
    PROVE  OncePerHeader'
  BY DEF OncePerHeader

\* What a request does to the buffer.
LEMMA WorkBuffers ==
    ASSUME TypeInv, NEW i \in Instances, Work(i), Buffered \subseteq accepted
    PROVE  Buffered' \subseteq accepted' /\ accepted \subseteq accepted'
<1>1. CASE pending' \subseteq pending /\ accepted' = accepted
  BY <1>1 DEF Buffered
<1>2. CASE \E at, m : Publish(at, m)
  BY <1>2 DEF Publish, Buffered
<1>3. CASE Upload(i)
  BY <1>1, <1>2, <1>3 DEF Upload
<1>4. CASE ~Upload(i)
  BY <1>1, <1>4 DEF Work, ReadDoc, Fetch, ListPending, SkipDup, SkipUnreadable, Measure,
                    Insert, InsertError, Buffer, Alert, StopDrain, Delete, Finish, store
<1> QED
  BY <1>3, <1>4

LEMMA ReadDocOnce ==
    ASSUME InTurn, TypeInv, NothingTorn, OnceInv, NEW i \in Instances, ReadDoc(i)
    PROVE  OfList(i)' /\ ReadAll(i)' /\ Fresh(i)'
<1>1. PICK pc \in {"read", AfterRead(req[i].kind)}, bytes \in Nat :
        /\ Moves(i, pc, req[i].todo, bytes)
        /\ req'[i].nread = req[i].nread + 1
        /\ pc # "read" => req[i].nread + 1 = Len(req[i].route)
        /\ Legible(docs[req[i].route[req[i].nread + 1]].text) \subseteq req'[i].seen
  BY ReadDocMoves DEF InTurn
<1>2. /\ req[i].pc = "read" /\ docs' = docs /\ mapCache' = mapCache
      /\ accepted' = accepted
  BY DEF ReadDoc, store
<1>3. OfList(i) /\ ReadAll(i) /\ Fresh(i)
  BY DEF OnceInv
<1>4. /\ req'[i].pc = pc /\ req'[i].kind = req[i].kind /\ req'[i].todo = req[i].todo
      /\ req'[i].chan = req[i].chan /\ req'[i].left = req[i].left
      /\ req'[i].route = req[i].route /\ req[i].seen \subseteq req'[i].seen
  BY <1>1 DEF Moves
<1>5. OfList(i)'
  BY <1>2, <1>3, <1>4 DEF OfList
<1>6. \A k \in 1..(req[i].nread + 1) :
        Headed(docs[req[i].route[k]].text) \subseteq req'[i].seen
  <2>1. req[i].nread \in Nat
    BY RequestFacts DEF Request
  <2>3. PICK d \in DocIds : d = req[i].route[req[i].nread + 1]
    BY <1>2, RequestFacts DEF Request, RequestShape
  <2>4. Headed(docs[d].text) \subseteq req'[i].seen
    BY <1>1, <2>3, HeadedIsLegible
  <2>2. ASSUME NEW k \in 1..(req[i].nread + 1)
        PROVE  k \in 1..req[i].nread \/ k = req[i].nread + 1
    BY <2>1
  <2> QED
    BY <1>2, <1>3, <1>4, <2>2, <2>3, <2>4 DEF ReadAll
<1>7. ReadAll(i)'
  <2>1. CASE pc = "read"
    BY <1>1, <1>2, <1>4, <1>6, <2>1 DEF ReadAll
  <2>2. CASE pc # "read"
    <3>1. req[i].route \in Seq(DocIds)
      BY RequestFacts DEF Request
    <3>2. ASSUME NEW d \in ToSet(req[i].route)
          PROVE  \E k \in 1..(req[i].nread + 1) : req[i].route[k] = d
      BY <1>1, <2>2, <3>1 DEF ToSet
    <3> QED
      BY <1>2, <1>4, <1>6, <2>2, <3>2 DEF ReadAll
  <2> QED
    BY <2>1, <2>2
<1>8. Fresh(i)'
  BY <1>2, <1>3, <1>4 DEF Fresh, AfterRead
<1> QED
  BY <1>5, <1>7, <1>8

\* The steps that leave the docs alone.
LEMMA LoopOnce ==
    ASSUME InTurn, TypeInv, NothingTorn, OnceInv, NEW i \in Instances,
           Work(i), ~Insert(i), docs' = docs
    PROVE  OfList(i)' /\ ReadAll(i)' /\ Fresh(i)'
<1>1. /\ OfList(i) /\ ReadAll(i) /\ Fresh(i)
      /\ mapping' = mapping /\ mapCache' = mapCache /\ accepted \subseteq accepted'
  BY WorkSame, WorkBuffers DEF OnceInv
<1>2. CASE Turns(i, req[i].kind, req[i].left) /\ req[i].pc # "idle"
  <2>1. \A x \in req[i].left : x.route = mapCache'[i].lists[x.chan]
    BY <1>1, <1>2 DEF OfList
  <2> QED
    BY <1>2, <2>1, TurnsOnce
<1>3. CASE /\ req[i].pc \notin {"idle", "read"}
           /\ \E pc, todo, bytes :
                /\ Moves(i, pc, todo, bytes)
                /\ pc \notin {"idle", "read", "fetch", "insert"}
                /\ req[i].kind = "drain" => \A it \in todo : it.msg \in accepted
  BY <1>1, <1>3, MovesOnce
<1>4. req[i].kind = "drain" => \A x \in req[i].todo : x.msg \in accepted
  BY <1>1 DEF Fresh
<1>5. req[i].kind = "drain" =>
        \A it \in req[i].todo : \A x \in Rest(i, it) : x.msg \in accepted
  BY <1>4 DEF Rest
<1>6. CASE ReadDoc(i)
  BY <1>6, ReadDocOnce
<1>7. CASE Fetch(i)
  <2>1. req[i].pc = "fetch"
    BY <1>7 DEF Fetch
  <2>2. CASE ~Turns(i, req[i].kind, req[i].left)
    <3>1. /\ req'[i].pc = "loop" /\ req'[i].kind = req[i].kind
          /\ req'[i].chan = req[i].chan /\ req'[i].left = req[i].left
          /\ req'[i].route = req[i].route /\ req'[i].seen = req[i].seen
      BY <1>7, <2>2, FetchStep
    <3>2. OfList(i)'
      BY <1>1, <2>1, <3>1 DEF OfList
    <3>3. ReadAll(i)'
      BY <1>1, <2>1, <3>1 DEF ReadAll
    <3>4. Fresh(i)'
      BY <1>1, <2>1, <3>1 DEF Fresh
    <3> QED
      BY <3>2, <3>3, <3>4
  <2> QED
    BY <1>2, <2>1, <2>2
<1>8. CASE Measure(i)
  <2>1. /\ Moves(i, "insert", req[i].todo, req[i].bytes)
        /\ req'[i].seen = req[i].seen
        /\ \E it \in req[i].todo :
              /\ Current(i, it)
              /\ req[i].kind # "drain" => ~IsDup(i, it.msg)
    BY <1>8, MeasureMoves
  <2>2. req[i].pc = "loop"
    BY <1>8 DEF Measure
  <2>3. /\ req'[i].pc = "insert" /\ req'[i].kind = req[i].kind
        /\ req'[i].todo = req[i].todo
    BY <2>1 DEF Moves
  <2>4. OfList(i)' /\ ReadAll(i)'
    BY <1>1, <2>1, <2>2 DEF Moves, OfList, ReadAll
  <2>5. PICK x \in req[i].todo :
          Current(i, x) /\ (req[i].kind # "drain" => ~IsDup(i, x.msg))
    BY <2>1
  <2>6. ASSUME NEW it \in req[i].todo, Current(i, it)', req[i].kind # "drain"
        PROVE  ~IsDup(i, it.msg)'
    <3>1. Current(i, it)
      BY <2>3, <2>6 DEF Current
    <3>2. it = x
      BY <2>5, <3>1, CurrentUnique DEF TypeInv
    <3> QED
      BY <2>1, <2>5, <2>6, <3>2 DEF IsDup
  <2>7. Fresh(i)'
    BY <1>1, <2>3, <2>6 DEF Fresh
  <2> QED
    BY <2>4, <2>7
<1>9. CASE ListPending(i)
  <2>1. req[i].pc = "list"
    BY <1>9 DEF ListPending
  <2>2. \A x \in Waiting(req[i].chan) : x.msg \in accepted
    BY DEF OnceInv, Waiting, Buffered
  <2> QED
    BY <1>2, <1>3, <1>9, <2>1, <2>2, ListPendingStep
<1>10. CASE SkipDup(i) \/ SkipUnreadable(i)
  <2>1. req[i].pc = "loop"
    BY <1>10 DEF SkipDup, SkipUnreadable
  <2> QED
    BY <1>3, <1>5, <1>10, <2>1, SkipDupMoves, SkipUnreadableMoves
<1>11. CASE InsertError(i)
  <2>1. req[i].pc = "insert"
    BY <1>11 DEF InsertError
  <2> QED
    BY <1>2, <1>3, <1>5, <1>11, <2>1, InsertErrorStep
<1>12. CASE Buffer(i)
  <2>1. req[i].pc = "loop"
    BY <1>12 DEF Buffer
  <2> QED
    BY <1>3, <1>4, <1>12, <2>1, BufferMoves
<1>16. CASE Upload(i)
  <2>1. req[i].pc = "upload"
    BY <1>16 DEF Upload
  <2> QED
    BY <1>3, <1>5, <1>16, <2>1, UploadMoves
<1>13. CASE Alert(i)
  <2>1. req[i].pc = "alert"
    BY <1>13 DEF Alert
  <2> QED
    BY <1>2, <1>3, <1>4, <1>13, <2>1, AlertStep
<1>14. CASE Delete(i)
  <2>1. req[i].pc = "delete"
    BY <1>14 DEF Delete
  <2> QED
    BY <1>3, <1>5, <1>14, <2>1, DeleteMoves
<1>15. CASE StopDrain(i) \/ Finish(i)
  <2>1. req[i].pc = "loop"
    BY <1>15 DEF StopDrain, Finish
  <2> QED
    BY <1>2, <1>15, <2>1, EndTurns
<1> QED
  BY <1>6, <1>7, <1>8, <1>9, <1>10, <1>11, <1>12, <1>13, <1>14, <1>15,
     <1>16 DEF Work

LEMMA WorkOnce ==
    ASSUME InTurn, TypeInv, OneAtATime, TornInv, ApartInv, OnceInv,
           NEW i \in Instances, Work(i)
    PROVE  OnceInv'
<1>1. /\ mapping' = mapping /\ mapCache' = mapCache
      /\ Buffered' \subseteq accepted' /\ accepted \subseteq accepted'
  BY WorkSame, WorkBuffers DEF OnceInv
<1>2. Others(i) /\ req[i].pc # "idle" /\ \A j \in Instances \ {i} : req[j].pc = "idle"
  BY WorkOthers DEF OneAtATime
<1>3. \A j \in Instances : Knows(j)' => Knows(j)
  BY <1>1, <1>2 DEF Knows, Others
<1>4. OfList(i)' /\ ReadAll(i)' /\ Fresh(i)' /\ Listed' /\ OncePerHeader'
  <2>1. CASE Insert(i)
    BY <2>1, InsertOnce
  <2>2. CASE ~Insert(i)
    <3>1. docs' = docs
      <4>1. CASE InsertError(i)
        BY <4>1, InsertErrorStep DEF InTurn, Fault
      <4>2. CASE ~InsertError(i)
        BY <2>2, <4>2, WorkWrites
      <4> QED
        BY <4>1, <4>2
    <3>2. Listed' /\ OncePerHeader'
      BY <1>1, <1>3, <3>1, SameDocsOnce DEF OnceInv, Listed
    <3> QED
      BY <2>2, <3>1, <3>2, LoopOnce DEF TornInv
  <2> QED
    BY <2>1, <2>2
<1>5. Behind(i)'
  BY <1>1 DEF OnceInv, Behind
<1>6. OneKnows'
  BY <1>1, <1>2 DEF OnceInv, OneKnows, Others
<1> QED
  BY <1>1, <1>2, <1>4, <1>5, <1>6, OthersOnce

\* load_mapping leaves the lists it returns in the cache of the instance.
LEMMA LoadCaches ==
    ASSUME Spaced, TypeInv, NEW i \in Instances, NEW m, LoadMapping(i, m)
    PROVE  /\ m = mapCache'[i].lists
           /\ (m = mapCache[i].lists /\ mapCache[i].fresh) \/ m = mapping
           /\ \A j \in Instances \ {i} : mapCache'[j] = mapCache[j]
<1>1. mapCache \in [Instances -> MapEntry]
  BY DEF TypeInv, TypeOK
<1>2. CASE mapCache' = mapCache /\ m = mapCache[i].lists /\ mapCache[i].fresh
  BY <1>2
<1>3. CASE /\ m = mapping
           /\ mapCache' = [mapCache EXCEPT ![i] = [lists |-> mapping, fresh |-> TRUE]]
  <2>1. /\ mapCache'[i].lists = mapping
        /\ \A j \in Instances \ {i} : mapCache'[j] = mapCache[j]
    BY <1>1, <1>3
  <2> QED
    BY <1>3, <2>1
<1> QED
  BY <1>2, <1>3 DEF LoadMapping, Spaced, Fault

LEMMA StartOnce ==
    ASSUME Spaced, TypeInv, OnceInv, NEW i \in Instances,
           StartBackfill(i) \/ StartDrain(i)
    PROVE  OnceInv'
<1>1. docs' = docs /\ pending' = pending /\ accepted' = accepted /\ mapping' = mapping
  BY DEF StartBackfill, StartDrain, store, world
<1>2. PICK lists : \E channels \in SUBSET Channels, kind \in {"backfill", "drain"} :
        LoadMapping(i, lists) /\ Turns(i, kind, Stops(channels, lists))
  BY StartStep
<1>3. PICK channels \in SUBSET Channels, kind \in {"backfill", "drain"} :
        LoadMapping(i, lists) /\ Turns(i, kind, Stops(channels, lists))
  BY <1>2
<1>4. /\ lists = mapCache'[i].lists
      /\ (lists = mapCache[i].lists /\ mapCache[i].fresh) \/ lists = mapping
      /\ \A j \in Instances \ {i} : mapCache'[j] = mapCache[j]
  BY <1>3, LoadCaches
<1>5. \A x \in Stops(channels, lists) : x.route = mapCache'[i].lists[x.chan]
  BY <1>4 DEF Stops
<1>6. OfList(i)' /\ ReadAll(i)' /\ Fresh(i)'
  BY <1>3, <1>5, TurnsOnce
<1>7. Behind(i)'
  BY <1>1, <1>4 DEF OnceInv, Behind
<1>8. Others(i) /\ \A j \in Instances \ {i} : req[j].pc = "idle" /\ ~mapCache[j].fresh
  BY StartOthers DEF Ready, Spaced
<1>9. OneKnows'
  BY <1>4, <1>8 DEF OneKnows, Others
<1>10. Listed'
  <2>1. ASSUME NEW j \in Instances \ {i} PROVE ~Knows(j)'
    BY <1>4, <1>8 DEF Knows, Others
  <2>2. ASSUME NEW d \in DocIds, NEW s \in DOMAIN docs[d].text,
               NEW ch, ch = Channel[docs[d].text[s][1]]
        PROVE  d \in ToSet(mapping[ch]) /\ d \in ToSet(mapCache'[i].lists[ch])
    BY <1>4, <2>2 DEF OnceInv, Listed, Knows
  <2> QED
    BY <1>1, <2>1, <2>2 DEF Listed
<1>11. OncePerHeader' /\ Buffered' \subseteq accepted'
  BY <1>1, SameDocsOnce DEF OnceInv, Buffered
<1> QED
  BY <1>1, <1>4, <1>6, <1>7, <1>8, <1>9, <1>10, <1>11, OthersOnce

LEMMA CrashOnce ==
    ASSUME TypeInv, OnceInv, NEW i \in Instances, Crash(i)
    PROVE  OnceInv'
<1>1. /\ docs' = docs /\ pending' = pending /\ accepted' = accepted /\ mapping' = mapping
      /\ Turns(i, "none", {})
  BY CrashStep DEF Crash, store, world
<1>2. /\ mapCache'[i].lists = [ch \in Channels |-> <<>>] /\ ~mapCache'[i].fresh
      /\ \A j \in Instances \ {i} : mapCache'[j] = mapCache[j]
  BY DEF Crash, TypeInv, TypeOK, Unloaded
<1>3. OfList(i)' /\ ReadAll(i)' /\ Fresh(i)'
  BY <1>1, TurnsOnce
<1>4. Behind(i)'
  BY <1>2 DEF Behind, ToSet
<1>5. Others(i) /\ req'[i].pc = "idle"
  BY <1>1 DEF Turns
<1>6. \A j \in Instances : Knows(j)' => Knows(j) /\ j # i
  BY <1>2, <1>5 DEF Knows, Others
<1>7. Listed'
  BY <1>1, <1>2, <1>6 DEF OnceInv, Listed
<1>8. OneKnows'
  <2>1. ASSUME NEW j \in Instances, NEW k \in Instances, j # k, req'[j].pc # "idle"
        PROVE  ~mapCache'[k].fresh
    <3>1. j # i /\ req'[j] = req[j]
      BY <1>5, <2>1 DEF Others
    <3> QED
      BY <1>2, <2>1, <3>1 DEF OnceInv, OneKnows
  <2> QED
    BY <2>1 DEF OneKnows
<1>9. OncePerHeader' /\ Buffered' \subseteq accepted'
  BY <1>1, SameDocsOnce DEF OnceInv, Buffered
<1> QED
  BY <1>1, <1>2, <1>3, <1>4, <1>5, <1>7, <1>8, <1>9, OthersOnce

\* The requests stay as they are: the cached mapping ages, or the operator edits.
LEMMA SurroundingsOnce ==
    ASSUME TypeInv, OnceInv, docs' = docs, pending' = pending, accepted' = accepted,
           req' = req, ListsExtend,
           \A i \in Instances : /\ mapCache'[i].lists = mapCache[i].lists
                                /\ mapCache'[i].fresh => mapCache[i].fresh
    PROVE  OnceInv'
<1>1. \A i \in Instances : OfList(i)' /\ ReadAll(i)' /\ Fresh(i)'
  BY DEF OnceInv, OfList, ReadAll, Fresh, Current, IsDup
<1>2. \A i \in Instances : Behind(i)'
  BY DEF OnceInv, Behind, ListsExtend
<1>3. Listed'
  <2>1. ASSUME NEW d \in DocIds, NEW s \in DOMAIN docs[d].text,
               NEW ch, ch = Channel[docs[d].text[s][1]]
        PROVE  /\ d \in ToSet(mapping'[ch])
               /\ \A i \in Instances : Knows(i)' => d \in ToSet(mapCache'[i].lists[ch])
    <3>1. docs[d].text[s] \in Messages \X Nat
      BY DEF TypeInv, TypeOK, Doc
    <3>2. ch \in Channels
      BY <2>1, <3>1, InputsAssumption
    <3>3. d \in ToSet(mapping'[ch])
      BY <2>1, <3>2 DEF OnceInv, Listed, ListsExtend
    <3> QED
      BY <2>1, <3>3 DEF OnceInv, Listed, Knows
  <2> QED
    BY <2>1 DEF Listed
<1>4. OncePerHeader' /\ Buffered' \subseteq accepted' /\ OneKnows'
  BY SameDocsOnce DEF OnceInv, Buffered, OneKnows
<1> QED
  BY <1>1, <1>2, <1>3, <1>4 DEF OnceInv

LEMMA OnceInit == Init => OnceInv
<1> SUFFICES ASSUME Init PROVE OnceInv
  OBVIOUS
<1>1. \A i \in Instances : OfList(i) /\ ReadAll(i) /\ Fresh(i)
  BY DEF Init, OfList, ReadAll, Fresh, Idle
<1>2. \A i \in Instances : Behind(i)
  BY DEF Init, Behind, Unloaded, ToSet
<1>3. \A d \in DocIds : docs[d].text = <<>>
  BY DEF Init
<1>4. Listed /\ OncePerHeader /\ OneKnows
  BY <1>3 DEF Init, Listed, OncePerHeader, OneKnows, Unloaded
<1>5. Buffered \subseteq accepted
  BY DEF Init, Buffered
<1> QED
  BY <1>1, <1>2, <1>4, <1>5 DEF OnceInv

LEMMA OnceStep ==
    ASSUME Spaced
    PROVE  /\ TypeInv /\ OneAtATime /\ TornInv /\ ApartInv /\ OnceInv
           /\ [Next]_vars /\ [ListsExtend]_vars
           => OnceInv'
<1> SUFFICES ASSUME TypeInv, OneAtATime, TornInv, ApartInv, OnceInv,
                    [Next]_vars, [ListsExtend]_vars
             PROVE  OnceInv'
  OBVIOUS
<1>1. ListsExtend
  BY DEF ListsExtend, vars, world
<1>2. ASSUME NEW i \in Instances, Work(i) PROVE OnceInv'
  BY <1>2, WorkOnce DEF Spaced
<1>3. ASSUME NEW i \in Instances, StartBackfill(i) \/ StartDrain(i) PROVE OnceInv'
  BY <1>3, StartOnce
<1>4. ASSUME NEW i \in Instances, Crash(i) PROVE OnceInv'
  BY <1>4, CrashOnce
<1>5. CASE /\ docs' = docs /\ pending' = pending /\ accepted' = accepted /\ req' = req
           /\ \A i \in Instances : /\ mapCache'[i].lists = mapCache[i].lists
                                   /\ mapCache'[i].fresh => mapCache[i].fresh
  BY <1>1, <1>5, SurroundingsOnce
<1>6. ASSUME NEW i \in Instances, Expire(i) PROVE OnceInv'
  <2>1. \A j \in Instances : /\ mapCache'[j].lists = mapCache[j].lists
                              /\ mapCache'[j].fresh => mapCache[j].fresh
    BY <1>6 DEF Expire, TypeInv, TypeOK, MapEntry
  <2> QED
    BY <1>5, <1>6, <2>1 DEF Expire, store
<1>7. CASE \/ \E m \in Live : Post(m) \/ DropRetry(m)
           \/ \E ch \in Channels : \E route \in Routes[ch] : EditRoute(ch, route)
           \/ UNCHANGED vars
  BY <1>5, <1>7 DEF Post, DropRetry, EditRoute, vars, store
<1> QED
  BY <1>2, <1>3, <1>4, <1>6, <1>7 DEF Next, Spaced, InTurn, Quiet

\* When backfills and drains come one after the other, each to the container of the one
\* before or once what others cached of the mapping has aged, and lists only grow, a
\* channel's docs get one block for each header (but for blocks that went through the
\* buffer, which a drain does not look for): the texts that backfill_channel
\* (src/slack-sync/main.py) reads are those of every doc that may hold the channel's
\* messages.
THEOREM SequentialOnce ==
    ASSUME Spaced
    PROVE  Spec /\ [][ListsExtend]_vars => []OncePerHeader
<1>1. OnceInv => OncePerHeader
  BY DEF OnceInv
<1>2. /\ TypeInv /\ OneAtATime /\ TornInv /\ ApartInv /\ OnceInv
      /\ [Next]_vars /\ [ListsExtend]_vars
      => OnceInv'
  BY OnceStep
<1>3. /\ TypeInv /\ OneAtATime /\ [Next]_vars => OneAtATime'
      /\ TypeInv /\ OneAtATime /\ TornInv /\ [Next]_vars => TornInv'
  BY OneAtATimeStep, TornStep DEF Spaced, InTurn
<1> QED
  BY <1>1, <1>2, <1>3, TypeCorrect, OneAtATimeInit, TornInit, ApartInit, ApartStep,
     OnceInit, PTL DEF Spec
=============================================================================
