--------------------------- MODULE ConfigSyncProofs ---------------------------
(***************************************************************************)
(* Proofs about ConfigSync, for any instances, keys, docs, first sheet,    *)
(* fault kinds and bounds.                                                 *)
(***************************************************************************)
EXTENDS ConfigSync, DataLemmas, TLAPS

-----------------------------------------------------------------------------
(* What a run computes *)

LEMMA EmptyType == Empty \in Mapping
  BY DEF Empty, Mapping

\* new_mapping maps every key to a doc list of some row, or to none.
LEMMA RebuildType ==
    ASSUME NEW rows \in Seq(Row)
    PROVE  Rebuild(rows) \in Mapping
<1>1. ASSUME NEW k \in Keys, Listed(rows, k) # {}
      PROVE  rows[CHOOSE n \in Listed(rows, k) :
                    \A o \in Listed(rows, k) : o <= n].doc \in Docs \cup {NoDoc}
  <2>1. Listed(rows, k) \in SUBSET (1..Len(rows))
    BY DEF Listed
  <2>2. \E n \in Listed(rows, k) : \A o \in Listed(rows, k) : o <= n
    <3>1. Len(rows) \in Nat
      OBVIOUS
    <3>2. Listed(rows, k) \in SUBSET (0..Len(rows))
      BY <2>1, <3>1
    <3> QED
      BY <1>1, <3>1, <3>2, GreatestExists, Zenon
  <2>3. (CHOOSE n \in Listed(rows, k) : \A o \in Listed(rows, k) : o <= n)
          \in Listed(rows, k)
    BY <2>2
  <2>4. \A n \in Listed(rows, k) : rows[n] \in Row
    BY <2>1
  <2> QED
    BY <2>3, <2>4 DEF Row
<1> QED
  BY <1>1 DEF Rebuild, Mapping

LEMMA NewRowsType ==
    ASSUME NEW rows \in Seq(Row), NEW current
    PROVE  NewRows(rows, current) \subseteq DOMAIN rows
  BY DEF NewRows

LEMMA IdleType == Idle \in Run
  BY EmptyType DEF Idle, Run, Tabs

LEMMA AfterTabType ==
    ASSUME NEW t \in Tabs
    PROVE  /\ AfterTab(t) \in Run
           /\ AfterTab(t).rows = <<>> /\ AfterTab(t).todo = {} /\ AfterTab(t).pc # "mark"
<1> DEFINE a == [Idle EXCEPT !.pc = "read", !.tab = "gong"]
           b == [Idle EXCEPT !.pc = "drain", !.tab = "gong"]
<1>1. Idle \in Run /\ Idle.rows = <<>> /\ Idle.todo = {}
  BY IdleType DEF Idle
<1>2. PICK idle \in Run : idle = Idle
  BY <1>1
<1>3. /\ [idle EXCEPT !.pc = "read", !.tab = "gong"] \in Run
      /\ [idle EXCEPT !.pc = "drain", !.tab = "gong"] \in Run
  BY DEF Run, Tabs
<1>4. /\ [idle EXCEPT !.pc = "read", !.tab = "gong"].rows = idle.rows
      /\ [idle EXCEPT !.pc = "read", !.tab = "gong"].todo = idle.todo
      /\ [idle EXCEPT !.pc = "read", !.tab = "gong"].pc # "mark"
      /\ [idle EXCEPT !.pc = "drain", !.tab = "gong"].rows = idle.rows
      /\ [idle EXCEPT !.pc = "drain", !.tab = "gong"].todo = idle.todo
      /\ [idle EXCEPT !.pc = "drain", !.tab = "gong"].pc # "mark"
  BY DEF Run
<1>5. \/ AfterTab(t) = [idle EXCEPT !.pc = "read", !.tab = "gong"]
      \/ AfterTab(t) = [idle EXCEPT !.pc = "drain", !.tab = "gong"]
  BY <1>2 DEF AfterTab
<1>6. CASE AfterTab(t) = [idle EXCEPT !.pc = "read", !.tab = "gong"]
  BY <1>1, <1>2, <1>3, <1>4, <1>6, Zenon
<1>7. CASE AfterTab(t) = [idle EXCEPT !.pc = "drain", !.tab = "gong"]
  BY <1>1, <1>2, <1>3, <1>4, <1>7, Zenon
<1> QED
  BY <1>5, <1>6, <1>7

LEMMA ProceedType ==
    ASSUME NEW q \in Run
    PROVE  Proceed(q) \in Run
  BY AfterTabType DEF Proceed, Run

LEMMA NextRowType ==
    ASSUME NEW q \in Run, NEW n
    PROVE  NextRow(q, n) \in Run
<1>1. [q EXCEPT !.todo = @ \ {n}] \in Run
  BY DEF Run
<1> QED
  BY <1>1, ProceedType DEF NextRow

LEMMA RunStep ==
    ASSUME TypeOK, NEW r \in Instances, NEW q \in Run, Become(r, q)
    PROVE  /\ run' \in [Instances -> Run]
           /\ run'[r] = q
           /\ \A j \in Instances \ {r} : run'[j] = run[j]
  BY DEF Become, TypeOK

LEMMA FaultType ==
    ASSUME TypeOK, NEW k, Fault(k)
    PROVE  faults' \in 0..MaxFaults
  BY BoundsAssumption DEF Fault, TypeOK

-----------------------------------------------------------------------------
(* Type correctness *)

\* An instance's cached mapping of one tab is replaced.
LEMMA CacheStep ==
    ASSUME TypeOK, NEW r \in Instances, NEW t \in Tabs, NEW e \in Entry,
           cache' = [cache EXCEPT ![r][t] = e]
    PROVE  cache' \in [Instances -> [Tabs -> Entry]]
<1>1. PICK c \in [Tabs -> Entry] : c = cache[r]
  BY DEF TypeOK
<1>2. [c EXCEPT ![t] = e] \in [Tabs -> Entry]
  OBVIOUS
<1>3. cache' = [cache EXCEPT ![r] = [c EXCEPT ![t] = e]]
  BY <1>1
<1> QED
  BY <1>2, <1>3 DEF TypeOK

LEMMA LoadType ==
    ASSUME TypeOK, NEW r \in Instances, NEW t \in Tabs, NEW current,
           LoadMapping(r, t, current)
    PROVE  /\ cache' \in [Instances -> [Tabs -> Entry]]
           /\ faults' \in 0..MaxFaults
<1>1. blob[t] \in Mapping
  BY DEF TypeOK
<1>2. [mapping |-> blob[t], fresh |-> TRUE] \in Entry
  BY <1>1 DEF Entry
<1>3. cache \in [Instances -> [Tabs -> Entry]] /\ faults \in 0..MaxFaults
  BY DEF TypeOK
<1>4. Fault("load") => faults' \in 0..MaxFaults
  BY FaultType
<1>5. cache' = cache \/ cache' = [cache EXCEPT ![r][t] = [mapping |-> blob[t],
                                                          fresh |-> TRUE]]
  BY DEF LoadMapping
<1>6. cache' \in [Instances -> [Tabs -> Entry]]
  BY <1>2, <1>3, <1>5, CacheStep
<1>7. faults' \in 0..MaxFaults
  BY <1>3, <1>4 DEF LoadMapping
<1> QED
  BY <1>6, <1>7

LEMMA StepLoadType ==
    ASSUME TypeOK, NEW r \in Instances, Load(r)
    PROVE  TypeOK'
<1>1. PICK p \in Run : p = run[r]
  BY DEF TypeOK
<1> DEFINE q(current) == [p EXCEPT !.mapping = Rebuild(p.rows),
                                   !.todo = NewRows(p.rows, current)]
           next(current) == IF Differ(q(current).mapping, current)
                            THEN [q(current) EXCEPT !.pc = "save"]
                            ELSE Proceed(q(current))
<1>2. PICK current : /\ LoadMapping(r, p.tab, current)
                     /\ Become(r, next(current))
  BY <1>1 DEF Load
<1>3. q(current) \in Run
  <2>1. Rebuild(p.rows) \in Mapping /\ NewRows(p.rows, current) \subseteq Nat
    BY RebuildType, NewRowsType DEF Run
  <2> QED
    BY <2>1 DEF Run
<1>4. next(current) \in Run
  <2>1. \A x \in Run : [x EXCEPT !.pc = "save"] \in Run
    BY DEF Run
  <2> HIDE DEF q
  <2> QED
    BY <1>3, <2>1, ProceedType
<1> HIDE DEF next
<1>5. run' \in [Instances -> Run]
  BY <1>2, <1>4, RunStep
<1>6. cache' \in [Instances -> [Tabs -> Entry]] /\ faults' \in 0..MaxFaults
  BY <1>2, LoadType DEF Run
<1> QED
  BY <1>5, <1>6 DEF Load, TypeOK

LEMMA ReadTabType ==
    ASSUME TypeOK, NEW r \in Instances, ReadTab(r)
    PROVE  TypeOK'
<1>1. PICK p \in Run : p = run[r]
  BY DEF TypeOK
<1> DEFINE q == IF sheet[p.tab] = <<>> THEN AfterTab(p.tab)
                ELSE [p EXCEPT !.pc = "load", !.rows = sheet[p.tab]]
<1>2. p.tab \in Tabs /\ sheet[p.tab] \in Seq(Row)
  BY DEF Run, TypeOK
<1>3. q \in Run
  <2>1. [p EXCEPT !.pc = "load", !.rows = sheet[p.tab]] \in Run
    BY <1>2 DEF Run
  <2> QED
    BY <1>2, <2>1, AfterTabType
<1>4. Become(r, q) \/ Become(r, Idle)
  BY <1>1 DEF ReadTab
<1> HIDE DEF q
<1>5. run' \in [Instances -> Run]
  BY <1>3, <1>4, IdleType, RunStep
<1>6. faults' \in 0..MaxFaults
  BY FaultType DEF ReadTab, TypeOK
<1> QED
  BY <1>5, <1>6 DEF ReadTab, TypeOK

LEMMA SaveType ==
    ASSUME TypeOK, NEW r \in Instances, Save(r)
    PROVE  TypeOK'
<1>1. PICK p \in Run : p = run[r]
  BY DEF TypeOK
<1>2. p.tab \in Tabs /\ p.mapping \in Mapping
  BY DEF Run
<1>3. Become(r, Proceed(p)) \/ Become(r, Idle)
  BY <1>1 DEF Save
<1>4. run' \in [Instances -> Run]
  BY <1>3, IdleType, ProceedType, RunStep
<1>5. ASSUME Publish(p.tab, p.mapping)
      PROVE  blob' \in [Tabs -> Mapping] /\ served' \in [Tabs -> SUBSET Keys]
  BY <1>2, <1>5 DEF Publish, TypeOK
<1>6. blob' \in [Tabs -> Mapping] /\ served' \in [Tabs -> SUBSET Keys]
  BY <1>1, <1>5 DEF Save, TypeOK
<1>7. cache' \in [Instances -> [Tabs -> Entry]]
  <2>1. [mapping |-> p.mapping, fresh |-> TRUE] \in Entry
    BY <1>2 DEF Entry
  <2>2. cache' = cache \/ cache' = [cache EXCEPT ![r][p.tab] = [mapping |-> p.mapping,
                                                                fresh |-> TRUE]]
    BY <1>1 DEF Save
  <2> QED
    BY <1>2, <2>1, <2>2, CacheStep DEF TypeOK
<1>8. faults' \in 0..MaxFaults
  BY FaultType DEF Save, TypeOK
<1> QED
  BY <1>4, <1>6, <1>7, <1>8 DEF Save, TypeOK

LEMMA HistoryStep ==
    ASSUME NEW h \in [Tabs -> SUBSET Keys], NEW t \in Tabs, NEW k \in Keys
    PROVE  [h EXCEPT ![t] = @ \cup {k}] \in [Tabs -> SUBSET Keys]
  OBVIOUS

LEMMA ArriveType ==
    ASSUME TypeOK, NEW t \in Tabs, NEW k \in Keys, Arrive(t, k)
    PROVE  svc' \in [Tabs -> Entry] /\ begun' \in [Tabs -> SUBSET Keys]
<1> DEFINE known == IF svc[t].fresh THEN svc[t].mapping ELSE blob[t]
<1>1. known \in Mapping
  BY DEF TypeOK, Entry
<1>2. [mapping |-> known, fresh |-> TRUE] \in Entry
  BY <1>1 DEF Entry
<1>3. svc' = [svc EXCEPT ![t] = [mapping |-> known, fresh |-> TRUE]]
  BY DEF Arrive
<1>4. begun' = begun \/ begun' = [begun EXCEPT ![t] = @ \cup {k}]
  BY DEF Arrive
<1> HIDE DEF known
<1> QED
  BY <1>2, <1>3, <1>4 DEF TypeOK

LEMMA DispatchFacts ==
    ASSUME TypeOK, NEW r \in Instances, Dispatch(r), NEW p \in Run, p = run[r]
    PROVE  \E n \in p.todo :
             /\ \/ /\ sent' = [sent EXCEPT ![p.tab] = @ \cup {p.rows[n].key}]
                   /\ Become(r, [p EXCEPT !.pc = "mark"])
                \/ sent' = sent /\ Become(r, NextRow(p, n))
             /\ served' = [served EXCEPT ![p.tab] = @ \cup {p.rows[n].key}]
             /\ Arrive(p.tab, p.rows[n].key) \/ UNCHANGED <<svc, begun>>
             /\ IsNext(r, n)
  BY DEF Dispatch, AfterError

\* The new rows of a run are rows of its snapshot, taken after the snapshot.
TodoFits(q) ==
    /\ q.todo \subseteq DOMAIN q.rows
    /\ q.pc = "read" => q.todo = {}

TodoInRows == \A r \in Instances : TodoFits(run[r])

LEMMA DispatchType ==
    ASSUME TypeOK, TodoInRows, NEW r \in Instances, Dispatch(r)
    PROVE  TypeOK'
<1>1. PICK p \in Run : p = run[r]
  BY DEF TypeOK
<1>2. PICK n \in p.todo :
        /\ \/ /\ sent' = [sent EXCEPT ![p.tab] = @ \cup {p.rows[n].key}]
              /\ Become(r, [p EXCEPT !.pc = "mark"])
           \/ sent' = sent /\ Become(r, NextRow(p, n))
        /\ served' = [served EXCEPT ![p.tab] = @ \cup {p.rows[n].key}]
        /\ Arrive(p.tab, p.rows[n].key) \/ UNCHANGED <<svc, begun>>
  BY <1>1, DispatchFacts
<1>3. p.tab \in Tabs /\ p.rows[n].key \in Keys
  <2>1. n \in DOMAIN p.rows /\ p.rows \in Seq(Row)
    BY <1>1 DEF TodoInRows, TodoFits, Run
  <2>2. p.rows[n] \in Row
    BY <2>1
  <2> QED
    BY <2>2 DEF Row, Run
<1>4. [p EXCEPT !.pc = "mark"] \in Run
  BY DEF Run
<1>5. run' \in [Instances -> Run]
  <2>1. NextRow(p, n) \in Run
    BY NextRowType
  <2> QED
    BY <1>2, <1>4, <2>1, RunStep
<1>6. sent' \in [Tabs -> SUBSET Keys] /\ served' \in [Tabs -> SUBSET Keys]
  <2>1. sent \in [Tabs -> SUBSET Keys] /\ served \in [Tabs -> SUBSET Keys]
    BY DEF TypeOK
  <2>2. /\ [sent EXCEPT ![p.tab] = @ \cup {p.rows[n].key}] \in [Tabs -> SUBSET Keys]
        /\ [served EXCEPT ![p.tab] = @ \cup {p.rows[n].key}] \in [Tabs -> SUBSET Keys]
    BY <1>3, <2>1, HistoryStep
  <2> QED
    BY <1>2, <2>1, <2>2
<1>7. svc' \in [Tabs -> Entry] /\ begun' \in [Tabs -> SUBSET Keys]
  BY <1>2, <1>3, ArriveType DEF TypeOK
<1>8. faults' \in 0..MaxFaults
  BY FaultType DEF Dispatch, TypeOK
<1> QED
  BY <1>5, <1>6, <1>7, <1>8 DEF Dispatch, TypeOK

\* Marking a row changes no key and no number of rows.
MarkRow(rows, n) ==
    [m \in DOMAIN rows |-> IF m = n THEN [rows[m] EXCEPT !.done = Mark] ELSE rows[m]]

LEMMA MarkRowType ==
    ASSUME NEW rows \in Seq(Row), NEW n
    PROVE  /\ MarkRow(rows, n) \in Seq(Row)
           /\ Len(MarkRow(rows, n)) = Len(rows)
           /\ \A m \in DOMAIN rows : /\ MarkRow(rows, n)[m].key = rows[m].key
                                     /\ m # n => MarkRow(rows, n)[m] = rows[m]
<1>1. Len(rows) \in Nat /\ DOMAIN rows = 1..Len(rows) /\ \A m \in DOMAIN rows : rows[m] \in Row
  OBVIOUS
<1>2. \A row \in Row : /\ [row EXCEPT !.done = Mark] \in Row
                       /\ [row EXCEPT !.done = Mark].key = row.key
  BY DEF Row, Mark
<1>3. MarkRow(rows, n) \in [1..Len(rows) -> Row]
  BY <1>1, <1>2 DEF MarkRow
<1>4. MarkRow(rows, n) \in Seq(Row) /\ Len(MarkRow(rows, n)) = Len(rows)
  BY <1>1, <1>3
<1>5. \A m \in DOMAIN rows : /\ MarkRow(rows, n)[m].key = rows[m].key
                             /\ m # n => MarkRow(rows, n)[m] = rows[m]
  BY <1>1, <1>2 DEF MarkRow
<1> QED
  BY <1>4, <1>5

LEMMA MarkDoneFacts ==
    ASSUME TypeOK, NEW r \in Instances, MarkDone(r), NEW p \in Run, p = run[r]
    PROVE  \E n \in p.todo :
             /\ IsNext(r, n)
             /\ \/ sheet' = [sheet EXCEPT ![p.tab] = MarkRow(@, n)]
                \/ sheet' = sheet
             /\ Become(r, NextRow(p, n))
  BY DEF MarkDone, MarkRow

LEMMA MarkDoneType ==
    ASSUME TypeOK, NEW r \in Instances, MarkDone(r)
    PROVE  TypeOK'
<1>1. PICK p \in Run : p = run[r]
  BY DEF TypeOK
<1>2. PICK n \in p.todo :
        /\ \/ sheet' = [sheet EXCEPT ![p.tab] = MarkRow(@, n)]
           \/ sheet' = sheet
        /\ Become(r, NextRow(p, n))
  BY <1>1, MarkDoneFacts
<1>3. p.tab \in Tabs /\ sheet \in [Tabs -> Seq(Row)]
  BY DEF Run, TypeOK
<1>4. MarkRow(sheet[p.tab], n) \in Seq(Row)
  BY <1>3, MarkRowType
<1>5. sheet' \in [Tabs -> Seq(Row)]
  BY <1>2, <1>3, <1>4
<1>6. run' \in [Instances -> Run]
  <2>1. NextRow(p, n) \in Run
    BY NextRowType
  <2> QED
    BY <1>2, <2>1, RunStep
<1>7. faults' \in 0..MaxFaults
  BY FaultType DEF MarkDone, TypeOK
<1> QED
  BY <1>5, <1>6, <1>7 DEF MarkDone, TypeOK

LEMMA OtherStepsType ==
    ASSUME TypeOK, NEW r \in Instances,
           Start(r) \/ FireDrain(r) \/ Crash(r) \/ \E t \in Tabs : Expire(r, t)
    PROVE  TypeOK'
<1>1. CASE Start(r)
  <2>1. PICK idle \in Run : idle = Idle
    BY IdleType
  <2>2. [idle EXCEPT !.pc = "read"] \in Run
    BY DEF Run
  <2>3. run' \in [Instances -> Run]
    BY <1>1, <2>1, <2>2, RunStep DEF Start
  <2> QED
    BY <1>1, <2>3 DEF Start, TypeOK
<1>2. CASE FireDrain(r)
  <2>1. run' \in [Instances -> Run]
    BY <1>2, IdleType, RunStep DEF FireDrain
  <2> QED
    BY <1>2, <2>1 DEF FireDrain, TypeOK
<1>3. CASE Crash(r)
  <2>1. run' \in [Instances -> Run]
    BY <1>3, IdleType, RunStep DEF Crash
  <2>2. Unloaded \in Entry
    BY EmptyType DEF Unloaded, Entry
  <2>3. cache' \in [Instances -> [Tabs -> Entry]]
    BY <1>3, <2>2 DEF Crash, TypeOK
  <2>4. faults' \in 0..MaxFaults
    BY <1>3, FaultType DEF Crash
  <2> QED
    BY <1>3, <2>1, <2>3, <2>4 DEF Crash, TypeOK
<1>4. ASSUME NEW t \in Tabs, Expire(r, t) PROVE TypeOK'
  <2>1. PICK e \in Entry : e = cache[r][t]
    BY DEF TypeOK
  <2>2. [e EXCEPT !.fresh = FALSE] \in Entry
    BY DEF Entry
  <2>3. cache' = [cache EXCEPT ![r][t] = [e EXCEPT !.fresh = FALSE]]
    BY <1>4, <2>1 DEF Expire
  <2>4. cache' \in [Instances -> [Tabs -> Entry]]
    BY <2>2, <2>3, CacheStep
  <2> QED
    BY <1>4, <2>4 DEF Expire, TypeOK
<1> QED
  BY <1>1, <1>2, <1>3, <1>4

LEMMA ServiceType ==
    ASSUME TypeOK, NEW t \in Tabs, ServiceLoad(t) \/ ServiceExpire(t)
    PROVE  TypeOK'
<1>1. [mapping |-> blob[t], fresh |-> TRUE] \in Entry /\ Unloaded \in Entry
  BY EmptyType DEF Entry, Unloaded, TypeOK
<1>2. svc' \in [Tabs -> Entry]
  BY <1>1 DEF ServiceLoad, ServiceExpire, TypeOK
<1> QED
  BY <1>2 DEF ServiceLoad, ServiceExpire, TypeOK

LEMMA EditType ==
    ASSUME TypeOK, NEW kind, NEW t \in Tabs, NEW rows \in Seq(Row), Edit(kind, t, rows)
    PROVE  TypeOK'
<1>1. sheet' \in [Tabs -> Seq(Row)]
  BY DEF Edit, TypeOK
<1>2. edits' \in 0..MaxEdits
  BY BoundsAssumption DEF Edit, TypeOK
<1> QED
  BY <1>1, <1>2 DEF Edit, TypeOK

\* An edit of one cell keeps the rows rows.
LEMMA CellType ==
    ASSUME NEW s \in Seq(Row), NEW n \in DOMAIN s
    PROVE  /\ \A d \in Docs \cup {NoDoc} : [s EXCEPT ![n].doc = d] \in Seq(Row)
           /\ \A f \in {"", "N"} : [s EXCEPT ![n].done = f] \in Seq(Row)
<1>1. PICK row \in Row : row = s[n]
  OBVIOUS
<1>2. \A r \in Row : [s EXCEPT ![n] = r] \in Seq(Row)
  OBVIOUS
<1>3. /\ \A d \in Docs \cup {NoDoc} : [row EXCEPT !.doc = d] \in Row
      /\ \A f \in {"", "N"} : [row EXCEPT !.done = f] \in Row
  BY DEF Row
<1>4. /\ \A d : [s EXCEPT ![n].doc = d] = [s EXCEPT ![n] = [row EXCEPT !.doc = d]]
      /\ \A f : [s EXCEPT ![n].done = f] = [s EXCEPT ![n] = [row EXCEPT !.done = f]]
  BY <1>1
<1> QED
  BY <1>2, <1>3, <1>4

\* It touches nothing else.
LEMMA DocKeeps ==
    ASSUME NEW s \in Seq(Row), NEW n \in DOMAIN s, NEW d, NEW z,
           z = [s EXCEPT ![n].doc = d]
    PROVE  /\ DOMAIN z = DOMAIN s
           /\ \A m \in DOMAIN s : z[m].key = s[m].key /\ z[m].done = s[m].done
<1>1. s[n] \in Row
  OBVIOUS
<1>2. z = [s EXCEPT ![n] = [s[n] EXCEPT !.doc = d]]
  OBVIOUS
<1>3. [s[n] EXCEPT !.doc = d].key = s[n].key /\ [s[n] EXCEPT !.doc = d].done = s[n].done
  BY <1>1 DEF Row
<1> QED
  BY <1>2, <1>3

LEMMA FlagKeeps ==
    ASSUME NEW s \in Seq(Row), NEW n \in DOMAIN s, NEW f, NEW z,
           z = [s EXCEPT ![n].done = f]
    PROVE  /\ DOMAIN z = DOMAIN s
           /\ \A m \in DOMAIN s : z[m].key = s[m].key /\ z[m].done \in {s[m].done, f}
<1>1. s[n] \in Row
  OBVIOUS
<1>2. z = [s EXCEPT ![n] = [s[n] EXCEPT !.done = f]]
  OBVIOUS
<1>3. [s[n] EXCEPT !.done = f].key = s[n].key /\ [s[n] EXCEPT !.done = f].done = f
  BY <1>1 DEF Row
<1> QED
  BY <1>2, <1>3

LEMMA OperatorType ==
    ASSUME TypeOK, Operator
    PROVE  TypeOK'
<1>1. PICK t \in Tabs :
        \/ \E k \in Keys, d \in Docs \cup {NoDoc} : AddRow(t, k, d)
        \/ \E n \in DOMAIN sheet[t] :
             \/ RemoveRow(t, n)
             \/ \E d \in Docs \cup {NoDoc} : SetDoc(t, n, d)
             \/ \E f \in {"", "N"} : SetFlag(t, n, f)
  BY DEF Operator
<1>2. PICK s \in Seq(Row) : s = sheet[t]
  BY DEF TypeOK
<1>3. ASSUME NEW k \in Keys, NEW d \in Docs \cup {NoDoc}, AddRow(t, k, d)
      PROVE  TypeOK'
  <2> DEFINE row == [key |-> k, doc |-> d, done |-> ""]
  <2>1. row \in Row
    BY DEF Row
  <2>2. Edit("append", t, Append(s, row)) \/ Edit("insert", t, <<row>> \o s)
    BY <1>2, <1>3 DEF AddRow
  <2> HIDE DEF row
  <2>3. Append(s, row) \in Seq(Row) /\ <<row>> \o s \in Seq(Row)
    BY <2>1
  <2> QED
    BY <2>2, <2>3, EditType
<1>4. ASSUME NEW n \in DOMAIN s, RemoveRow(t, n)
      PROVE  TypeOK'
  <2>1. RemoveAt(s, n) \in Seq(Row)
    BY DEF RemoveAt
  <2> QED
    BY <1>2, <1>4, <2>1, EditType DEF RemoveRow
<1>5. ASSUME NEW n \in DOMAIN s, NEW d \in Docs \cup {NoDoc}, SetDoc(t, n, d)
      PROVE  TypeOK'
  <2>1. [s EXCEPT ![n].doc = d] \in Seq(Row)
    BY CellType
  <2> QED
    BY <1>2, <1>5, <2>1, EditType DEF SetDoc
<1>6. ASSUME NEW n \in DOMAIN s, NEW f \in {"", "N"}, SetFlag(t, n, f)
      PROVE  TypeOK'
  <2>1. [s EXCEPT ![n].done = f] \in Seq(Row)
    BY CellType
  <2> QED
    BY <1>2, <1>6, <2>1, EditType DEF SetFlag
<1> QED
  BY <1>1, <1>2, <1>3, <1>4, <1>5, <1>6

LEMMA InitType == Init => TypeOK
<1> SUFFICES ASSUME Init PROVE TypeOK
  OBVIOUS
<1>1. sheet \in [Tabs -> Seq(Row)]
  BY SheetAssumption DEF Init
<1>2. \A t \in Tabs : Flagged(FirstSheet[t]) \in SUBSET Keys
  <2>1. ASSUME NEW t \in Tabs PROVE Flagged(FirstSheet[t]) \subseteq Keys
    <3>1. \A n \in DOMAIN FirstSheet[t] : FirstSheet[t][n] \in Row
      BY SheetAssumption
    <3> QED
      BY <3>1 DEF Flagged, Row
  <2> QED
    BY <2>1
<1>3. sent \in [Tabs -> SUBSET Keys] /\ served \in [Tabs -> SUBSET Keys]
      /\ begun \in [Tabs -> SUBSET Keys]
  BY <1>2 DEF Init
<1>4. blob \in [Tabs -> Mapping]
  <2>1. \A t \in Tabs : Rebuild(FirstSheet[t]) \in Mapping
    BY SheetAssumption, RebuildType
  <2>2. ASSUME NEW t \in Tabs
        PROVE  [k \in Keys |-> IF k \in Flagged(FirstSheet[t])
                               THEN Rebuild(FirstSheet[t])[k] ELSE NoDoc] \in Mapping
    BY <2>1 DEF Mapping
  <2> QED
    BY <2>2 DEF Init
<1>5. Unloaded \in Entry
  BY EmptyType DEF Unloaded, Entry
<1>6. /\ run \in [Instances -> Run]
      /\ cache \in [Instances -> [Tabs -> Entry]]
      /\ svc \in [Tabs -> Entry]
  BY <1>5, IdleType DEF Init
<1>7. faults \in 0..MaxFaults /\ edits \in 0..MaxEdits
  BY BoundsAssumption DEF Init
<1> QED
  BY <1>1, <1>3, <1>4, <1>6, <1>7 DEF TypeOK

-----------------------------------------------------------------------------
(* Where a run goes from a step *)

\* The run keeps its snapshot, or is done with it; it does not come to write Y.
Onward(p, q) ==
    /\ q.pc # "mark"
    /\ q.rows = <<>> \/ (q.rows = p.rows /\ q.tab = p.tab)

LEMMA IdleOnward ==
    ASSUME NEW p
    PROVE  Onward(p, Idle) /\ TodoFits(Idle)
  BY DEF Onward, TodoFits, Idle

LEMMA AfterTabOnward ==
    ASSUME NEW p, NEW t \in Tabs
    PROVE  Onward(p, AfterTab(t)) /\ TodoFits(AfterTab(t))
  BY AfterTabType DEF Onward, TodoFits

LEMMA ProceedOnward ==
    ASSUME NEW p, NEW q \in Run, q.rows = p.rows, q.tab = p.tab,
           q.todo \subseteq DOMAIN q.rows
    PROVE  Onward(p, Proceed(q)) /\ TodoFits(Proceed(q))
<1>1. q.tab \in Tabs
  BY DEF Run
<1>2. CASE q.todo = {}
  BY <1>1, <1>2, AfterTabOnward DEF Proceed
<1>3. CASE q.todo # {}
  <2>1. PICK d : d = [q EXCEPT !.pc = "dispatch"]
    OBVIOUS
  <2>2. d.pc = "dispatch" /\ d.rows = q.rows /\ d.tab = q.tab /\ d.todo = q.todo
    BY <2>1 DEF Run
  <2>3. Proceed(q) = d
    BY <1>3, <2>1 DEF Proceed
  <2> QED
    BY <2>2, <2>3 DEF Onward, TodoFits
<1> QED
  BY <1>2, <1>3

LEMMA NextRowOnward ==
    ASSUME NEW p \in Run, p.todo \subseteq DOMAIN p.rows, NEW n
    PROVE  Onward(p, NextRow(p, n)) /\ TodoFits(NextRow(p, n))
<1>1. PICK q : q = [p EXCEPT !.todo = @ \ {n}]
  OBVIOUS
<1>2. q \in Run /\ q.rows = p.rows /\ q.tab = p.tab /\ q.todo = p.todo \ {n}
  BY <1>1 DEF Run
<1>3. q.todo \subseteq DOMAIN q.rows
  BY <1>2
<1>4. NextRow(p, n) = Proceed(q)
  BY <1>1 DEF NextRow
<1> QED
  BY <1>2, <1>3, <1>4, ProceedOnward

\* Every step of a run but the two that matter to the mark goes onward.
LEMMA StepOnward ==
    ASSUME TypeOK, TodoInRows, NEW r \in Instances, NEW p \in Run, p = run[r],
           \/ Start(r) \/ Load(r) \/ Save(r) \/ MarkDone(r) \/ FireDrain(r) \/ Crash(r)
    PROVE  \E q \in Run : Become(r, q) /\ Onward(p, q) /\ TodoFits(q)
<1>1. p.todo \subseteq DOMAIN p.rows
  BY DEF TodoInRows, TodoFits
<1>2. CASE FireDrain(r) \/ Crash(r)
  BY <1>2, IdleType, IdleOnward DEF FireDrain, Crash
<1>3. CASE Start(r)
  <2>1. PICK idle \in Run : idle = Idle /\ idle.rows = <<>> /\ idle.todo = {}
    BY IdleType DEF Idle
  <2>2. PICK q \in Run : q = [idle EXCEPT !.pc = "read"]
    BY DEF Run
  <2>3. q.pc = "read" /\ q.rows = <<>> /\ q.todo = {}
    BY <2>1, <2>2 DEF Run
  <2> QED
    BY <1>3, <2>1, <2>2, <2>3 DEF Start, Onward, TodoFits
<1>4. CASE Load(r)
  <2>1. PICK current, q :
          /\ q = [p EXCEPT !.mapping = Rebuild(p.rows), !.todo = NewRows(p.rows, current)]
          /\ Become(r, IF Differ(q.mapping, current) THEN [q EXCEPT !.pc = "save"]
                       ELSE Proceed(q))
    BY <1>4 DEF Load
  <2>2. Rebuild(p.rows) \in Mapping /\ NewRows(p.rows, current) \subseteq DOMAIN p.rows
    BY RebuildType, NewRowsType DEF Run
  <2>3. q \in Run /\ q.rows = p.rows /\ q.tab = p.tab /\ q.todo \subseteq DOMAIN q.rows
    <3>1. DOMAIN p.rows \subseteq Nat
      BY DEF Run
    <3> QED
      BY <2>1, <2>2, <3>1 DEF Run
  <2>4. PICK s : s = [q EXCEPT !.pc = "save"]
    OBVIOUS
  <2>5. s \in Run /\ Onward(p, s) /\ TodoFits(s)
    BY <2>3, <2>4 DEF Run, Onward, TodoFits
  <2>6. Proceed(q) \in Run /\ Onward(p, Proceed(q)) /\ TodoFits(Proceed(q))
    BY <2>3, ProceedType, ProceedOnward
  <2> QED
    BY <2>1, <2>4, <2>5, <2>6
<1>5. CASE Save(r)
  <2>1. Become(r, Proceed(p)) \/ Become(r, Idle)
    BY <1>5 DEF Save
  <2> QED
    BY <1>1, <2>1, IdleType, IdleOnward, ProceedType, ProceedOnward
<1>6. CASE MarkDone(r)
  <2>1. PICK n : Become(r, NextRow(p, n))
    BY <1>6 DEF MarkDone
  <2> QED
    BY <1>1, <2>1, NextRowType, NextRowOnward
<1> QED
  BY <1>2, <1>3, <1>4, <1>5, <1>6

LEMMA ReadTabFacts ==
    ASSUME TypeOK, TodoInRows, NEW r \in Instances, NEW p \in Run, p = run[r], ReadTab(r)
    PROVE  \E q \in Run : /\ Become(r, q) /\ TodoFits(q) /\ q.pc # "mark"
                          /\ q.rows = <<>> \/ (q.rows = sheet[q.tab])
<1>1. p.tab \in Tabs /\ sheet[p.tab] \in Seq(Row) /\ p.todo = {}
  BY DEF Run, TypeOK, TodoInRows, TodoFits, ReadTab
<1>2. PICK q : q = [p EXCEPT !.pc = "load", !.rows = sheet[p.tab]]
  OBVIOUS
<1>3. q \in Run /\ q.pc = "load" /\ q.rows = sheet[q.tab] /\ q.todo = {}
  BY <1>1, <1>2 DEF Run
<1>4. Become(r, q) \/ Become(r, AfterTab(p.tab)) \/ Become(r, Idle)
  BY <1>2 DEF ReadTab
<1>5. TodoFits(q)
  BY <1>3 DEF TodoFits
<1>6. CASE Become(r, q)
  BY <1>3, <1>5, <1>6
<1>7. CASE Become(r, AfterTab(p.tab))
  BY <1>1, <1>7, AfterTabType, AfterTabOnward
<1>8. CASE Become(r, Idle)
  <2>1. Idle.pc # "mark" /\ Idle.rows = <<>>
    BY DEF Idle
  <2> QED
    BY <1>8, <2>1, IdleType, IdleOnward
<1> QED
  BY <1>4, <1>6, <1>7, <1>8

\* A dispatched row's run comes to the mark of that row, or goes on.
LEMMA DispatchGoes ==
    ASSUME TypeOK, TodoInRows, NEW r \in Instances, NEW p \in Run, p = run[r], Dispatch(r)
    PROVE  \E q \in Run, n \in p.todo :
             /\ Become(r, q) /\ TodoFits(q) /\ IsNext(r, n)
             /\ \/ Onward(p, q) /\ sent' = sent
                \/ /\ q = [p EXCEPT !.pc = "mark"]
                   /\ sent' = [sent EXCEPT ![p.tab] = @ \cup {p.rows[n].key}]
<1>1. p.todo \subseteq DOMAIN p.rows
  BY DEF TodoInRows, TodoFits
<1>2. PICK n \in p.todo :
        /\ \/ /\ sent' = [sent EXCEPT ![p.tab] = @ \cup {p.rows[n].key}]
              /\ Become(r, [p EXCEPT !.pc = "mark"])
           \/ sent' = sent /\ Become(r, NextRow(p, n))
        /\ IsNext(r, n)
  BY DispatchFacts
<1>3. PICK m : m = [p EXCEPT !.pc = "mark"]
  OBVIOUS
<1>4. m \in Run /\ TodoFits(m)
  BY <1>1, <1>3 DEF Run, TodoFits
<1>5. CASE sent' = sent /\ Become(r, NextRow(p, n))
  BY <1>1, <1>2, <1>5, NextRowType, NextRowOnward
<1>6. CASE /\ sent' = [sent EXCEPT ![p.tab] = @ \cup {p.rows[n].key}]
           /\ Become(r, m)
  BY <1>2, <1>3, <1>4, <1>6
<1> QED
  BY <1>2, <1>3, <1>5, <1>6

-----------------------------------------------------------------------------
(* The theorem of type correctness *)

TypeInv == TypeOK /\ TodoInRows

LEMMA TodoStep ==
    ASSUME TypeInv, NEW r \in Instances, NEW q \in Run, Become(r, q), TodoFits(q)
    PROVE  TodoInRows'
  BY RunStep DEF TypeInv, TodoInRows, TodoFits

LEMMA TypeStep == TypeInv /\ [Next]_vars => TypeInv'
<1> SUFFICES ASSUME TypeInv, [Next]_vars PROVE TypeInv'
  OBVIOUS
<1> USE DEF TypeInv
<1>1. ASSUME NEW r \in Instances,
             \/ Start(r) \/ Load(r) \/ Save(r) \/ MarkDone(r) \/ FireDrain(r) \/ Crash(r)
      PROVE  TypeInv'
  <2>1. PICK p \in Run : p = run[r]
    BY DEF TypeOK
  <2>2. TodoInRows'
    BY <1>1, <2>1, StepOnward, TodoStep
  <2>3. TypeOK'
    BY <1>1, StepLoadType, SaveType, MarkDoneType, OtherStepsType
  <2> QED
    BY <2>2, <2>3
<1>2. ASSUME NEW r \in Instances, ReadTab(r) PROVE TypeInv'
  <2>1. PICK p \in Run : p = run[r]
    BY DEF TypeOK
  <2>2. TodoInRows'
    BY <1>2, <2>1, ReadTabFacts, TodoStep
  <2> QED
    BY <1>2, <2>2, ReadTabType
<1>3. ASSUME NEW r \in Instances, Dispatch(r) PROVE TypeInv'
  <2>1. PICK p \in Run : p = run[r]
    BY DEF TypeOK
  <2>2. TodoInRows'
    BY <1>3, <2>1, DispatchGoes, TodoStep
  <2> QED
    BY <1>3, <2>2, DispatchType
<1>4. ASSUME NEW r \in Instances, NEW t \in Tabs, Expire(r, t) PROVE TypeInv'
  <2>1. TodoInRows'
    BY <1>4 DEF Expire, TodoInRows, TodoFits
  <2> QED
    BY <1>4, <2>1, OtherStepsType
<1>5. ASSUME NEW t \in Tabs, ServiceLoad(t) \/ ServiceExpire(t) PROVE TypeInv'
  <2>1. TodoInRows'
    BY <1>5 DEF ServiceLoad, ServiceExpire, TodoInRows, TodoFits
  <2> QED
    BY <1>5, <2>1, ServiceType
<1>6. CASE Operator
  <2>1. run' = run
    BY <1>6 DEF Operator, AddRow, RemoveRow, SetDoc, SetFlag, Edit
  <2>2. TodoInRows'
    BY <2>1 DEF TodoInRows, TodoFits
  <2> QED
    BY <1>6, <2>2, OperatorType
<1>7. CASE UNCHANGED vars
  BY <1>7 DEF vars, TypeOK, TodoInRows, TodoFits
<1> QED
  BY <1>1, <1>2, <1>3, <1>4, <1>5, <1>6, <1>7 DEF Next, Step

THEOREM TypeCorrect == Spec => []TypeInv
<1>1. Init => TypeInv
  <2>1. Init => TodoInRows
    BY DEF Init, TodoInRows, TodoFits, Idle
  <2> QED
    BY <2>1, InitType DEF TypeInv
<1> QED
  BY <1>1, TypeStep, PTL DEF Spec

\* Every state of config-sync has the types TypeOK states, whatever the operator
\* does to the sheet and whichever calls fail.
THEOREM TypeSafety == Spec => []TypeOK
<1>1. TypeInv => TypeOK
  BY DEF TypeInv
<1> QED
  BY <1>1, TypeCorrect, PTL

-----------------------------------------------------------------------------
(* "Y" is written for dispatched keys only, if no edit moves a row *)

RowsStay == EditKinds \cap {"insert", "remove"} = {}

\* What a run read of the sheet is still there, and the row it is about to mark
\* was dispatched.
Faithful(q) ==
    /\ \A n \in DOMAIN q.rows : /\ n \in DOMAIN sheet[q.tab]
                                /\ sheet[q.tab][n].key = q.rows[n].key
    /\ q.pc = "mark" => \A n \in q.todo :
                           (\A o \in q.todo : n <= o) => q.rows[n].key \in sent[q.tab]

MarkInv == DoneWasDispatched /\ \A r \in Instances : Faithful(run[r])

\* No row moves or changes its key, and no dispatch is forgotten.
Kept ==
    /\ \A t \in Tabs : \A n \in DOMAIN sheet[t] :
         n \in DOMAIN sheet'[t] /\ sheet'[t][n].key = sheet[t][n].key
    /\ \A t \in Tabs : sent[t] \subseteq sent'[t]

LEMMA KeptFaithful ==
    ASSUME Kept, NEW q \in Run, Faithful(q)
    PROVE  Faithful(q)'
<1>1. q.tab \in Tabs
  BY DEF Run
<1> QED
  BY <1>1 DEF Kept, Faithful

LEMMA OnwardFaithful ==
    ASSUME Kept, NEW p \in Run, NEW q \in Run, Faithful(p), Onward(p, q)
    PROVE  Faithful(q)'
<1>1. p.tab \in Tabs
  BY DEF Run
<1> QED
  BY <1>1 DEF Kept, Faithful, Onward

LEMMA FaithfulStep ==
    ASSUME TypeOK, MarkInv, Kept, NEW r \in Instances, NEW q \in Run, Become(r, q),
           Faithful(q)'
    PROVE  \A j \in Instances : Faithful(run[j])'
<1>1. run'[r] = q /\ \A j \in Instances \ {r} : run'[j] = run[j] /\ run[j] \in Run
  BY RunStep DEF TypeOK
<1>2. Faithful(run[r])'
  BY <1>1 DEF Faithful
<1>3. ASSUME NEW j \in Instances \ {r} PROVE Faithful(run[j])'
  <2>1. PICK p \in Run : p = run[j] /\ run'[j] = p
    BY <1>1
  <2>2. Faithful(p)'
    BY <2>1, KeptFaithful DEF MarkInv
  <2> QED
    BY <2>1, <2>2 DEF Faithful
<1> QED
  BY <1>2, <1>3

\* A step that leaves the sheet alone keeps what the sheet says.
LEMMA SheetSame ==
    ASSUME TypeOK, DoneWasDispatched, sheet' = sheet, \A t \in Tabs : sent[t] \subseteq sent'[t]
    PROVE  Kept /\ DoneWasDispatched'
  BY DEF Kept, DoneWasDispatched

LEMMA OnwardMark ==
    ASSUME TypeInv, MarkInv, NEW r \in Instances,
           \/ Start(r) \/ Load(r) \/ Save(r) \/ FireDrain(r) \/ Crash(r)
    PROVE  MarkInv'
<1>1. sheet' = sheet /\ sent' = sent
  BY DEF Start, Load, Save, FireDrain, Crash
<1>2. Kept /\ DoneWasDispatched'
  BY <1>1, SheetSame DEF TypeInv, MarkInv
<1>3. PICK p \in Run : p = run[r]
  BY DEF TypeInv, TypeOK
<1>4. PICK q \in Run : Become(r, q) /\ Onward(p, q)
  BY <1>3, StepOnward DEF TypeInv
<1>5. Faithful(q)'
  BY <1>2, <1>3, <1>4, OnwardFaithful DEF MarkInv
<1> QED
  BY <1>2, <1>4, <1>5, FaithfulStep DEF TypeInv, MarkInv

LEMMA ReadTabMark ==
    ASSUME TypeInv, MarkInv, NEW r \in Instances, ReadTab(r)
    PROVE  MarkInv'
<1>1. sheet' = sheet /\ sent' = sent
  BY DEF ReadTab
<1>2. Kept /\ DoneWasDispatched'
  BY <1>1, SheetSame DEF TypeInv, MarkInv
<1>3. PICK p \in Run : p = run[r]
  BY DEF TypeInv, TypeOK
<1>4. PICK q \in Run : /\ Become(r, q) /\ q.pc # "mark"
                       /\ q.rows = <<>> \/ q.rows = sheet[q.tab]
  BY <1>3, ReadTabFacts DEF TypeInv
<1>5. Faithful(q)'
  BY <1>1, <1>4 DEF Faithful
<1> QED
  BY <1>2, <1>4, <1>5, FaithfulStep DEF TypeInv, MarkInv

LEMMA DispatchMark ==
    ASSUME TypeInv, MarkInv, NEW r \in Instances, Dispatch(r)
    PROVE  MarkInv'
<1>1. PICK p \in Run : p = run[r]
  BY DEF TypeInv, TypeOK
<1>2. PICK q \in Run, n \in p.todo :
        /\ Become(r, q) /\ IsNext(r, n)
        /\ \/ Onward(p, q) /\ sent' = sent
           \/ /\ q = [p EXCEPT !.pc = "mark"]
              /\ sent' = [sent EXCEPT ![p.tab] = @ \cup {p.rows[n].key}]
  BY <1>1, DispatchGoes DEF TypeInv
<1>3. sheet' = sheet
  BY DEF Dispatch
<1>4. p.tab \in Tabs /\ p.todo \subseteq Nat
  BY DEF Run
<1>5. \A t \in Tabs : sent[t] \subseteq sent'[t]
  <2>1. PICK k : k = p.rows[n].key
    OBVIOUS
  <2>2. sent \in [Tabs -> SUBSET Keys]
    BY DEF TypeInv, TypeOK
  <2>3. sent' = sent \/ sent' = [sent EXCEPT ![p.tab] = @ \cup {k}]
    BY <1>2, <2>1
  <2> QED
    BY <1>4, <2>2, <2>3
<1>6. Kept /\ DoneWasDispatched'
  BY <1>3, <1>5, SheetSame DEF TypeInv, MarkInv
<1>7. CASE Onward(p, q) /\ sent' = sent
  <2>1. Faithful(q)'
    BY <1>1, <1>6, <1>7, OnwardFaithful DEF MarkInv
  <2> QED
    BY <1>2, <1>6, <2>1, FaithfulStep DEF TypeInv, MarkInv
<1>8. CASE /\ q = [p EXCEPT !.pc = "mark"]
           /\ sent' = [sent EXCEPT ![p.tab] = @ \cup {p.rows[n].key}]
  <2>1. q.rows = p.rows /\ q.tab = p.tab /\ q.todo = p.todo
    BY <1>8 DEF Run
  <2>2. p.rows[n].key \in sent'[p.tab]
    BY <1>4, <1>8 DEF TypeInv, TypeOK
  <2>3. \A m \in p.todo : (\A o \in p.todo : m <= o) => m = n
    BY <1>1, <1>2, <1>4 DEF IsNext
  <2>4. Faithful(p)'
    BY <1>1, <1>6, KeptFaithful DEF MarkInv
  <2>5. Faithful(q)'
    BY <2>1, <2>2, <2>3, <2>4 DEF Faithful
  <2> QED
    BY <1>2, <1>6, <2>5, FaithfulStep DEF TypeInv, MarkInv
<1> QED
  BY <1>2, <1>7, <1>8

LEMMA MarkDoneMark ==
    ASSUME TypeInv, MarkInv, NEW r \in Instances, MarkDone(r)
    PROVE  MarkInv'
<1>1. PICK p \in Run : p = run[r]
  BY DEF TypeInv, TypeOK
<1>2. PICK n \in p.todo :
        /\ IsNext(r, n)
        /\ \/ sheet' = [sheet EXCEPT ![p.tab] = MarkRow(@, n)]
           \/ sheet' = sheet
        /\ Become(r, NextRow(p, n))
  BY <1>1, MarkDoneFacts DEF TypeInv
<1>3. p.tab \in Tabs /\ sheet \in [Tabs -> Seq(Row)]
  BY DEF Run, TypeInv, TypeOK
<1>4. sent' = sent /\ p.pc = "mark"
  BY <1>1 DEF MarkDone
<1>5. PICK s \in Seq(Row) : s = sheet[p.tab]
  BY <1>3
<1>6. PICK z : z = MarkRow(s, n)
  OBVIOUS
<1>7. /\ z \in Seq(Row) /\ DOMAIN z = DOMAIN s
      /\ \A m \in DOMAIN s : /\ z[m].key = s[m].key
                             /\ m # n => z[m] = s[m]
  BY <1>6, MarkRowType
<1>8. sheet' = sheet \/ sheet' = [sheet EXCEPT ![p.tab] = z]
  BY <1>2, <1>5, <1>6
<1>9. Kept
  BY <1>3, <1>4, <1>5, <1>7, <1>8 DEF Kept
<1>10. ASSUME n \in DOMAIN s PROVE s[n].key \in sent[p.tab]
  <2>1. n \in DOMAIN p.rows /\ Faithful(p)
    BY <1>1 DEF TypeInv, TodoInRows, TodoFits, MarkInv
  <2>2. p.rows[n].key \in sent[p.tab]
    BY <1>1, <1>2, <1>4, <2>1 DEF Faithful, IsNext
  <2> QED
    BY <1>5, <2>1, <2>2 DEF Faithful
<1>11. DoneWasDispatched'
  <2>1. CASE sheet' = sheet
    BY <1>4, <2>1 DEF MarkInv, DoneWasDispatched
  <2>2. CASE sheet' = [sheet EXCEPT ![p.tab] = z]
    <3>1. ASSUME NEW t \in Tabs, NEW m \in DOMAIN sheet'[t], sheet'[t][m].done = "Y"
          PROVE  sheet'[t][m].key \in sent'[t]
      <4>1. CASE t # p.tab
        BY <1>3, <1>4, <2>2, <3>1, <4>1 DEF MarkInv, DoneWasDispatched
      <4>2. CASE t = p.tab /\ m = n
        BY <1>3, <1>4, <1>7, <1>10, <2>2, <3>1, <4>2
      <4>3. CASE t = p.tab /\ m # n
        BY <1>3, <1>4, <1>5, <1>7, <2>2, <3>1, <4>3 DEF MarkInv, DoneWasDispatched
      <4> QED
        BY <4>1, <4>2, <4>3
    <3> QED
      BY <3>1 DEF DoneWasDispatched
  <2> QED
    BY <1>8, <2>1, <2>2
<1>12. NextRow(p, n) \in Run /\ Onward(p, NextRow(p, n))
  BY <1>1, NextRowType, NextRowOnward DEF TypeInv, TodoInRows, TodoFits
<1>13. Faithful(NextRow(p, n))'
  BY <1>1, <1>9, <1>12, OnwardFaithful DEF MarkInv
<1> QED
  BY <1>2, <1>9, <1>11, <1>12, <1>13, FaithfulStep DEF TypeInv, MarkInv

LEMMA OperatorMark ==
    ASSUME RowsStay, TypeInv, MarkInv, Operator
    PROVE  MarkInv'
<1>1. PICK t \in Tabs, s \in Seq(Row), z \in Seq(Row) :
        /\ s = sheet[t] /\ sheet' = [sheet EXCEPT ![t] = z]
        /\ \A n \in DOMAIN s : n \in DOMAIN z /\ z[n].key = s[n].key
        /\ \A n \in DOMAIN z : z[n].done = "Y" => n \in DOMAIN s /\ s[n].done = "Y"
  <2>1. PICK t \in Tabs :
          \/ \E k \in Keys, d \in Docs \cup {NoDoc} : AddRow(t, k, d)
          \/ \E n \in DOMAIN sheet[t] :
               \/ RemoveRow(t, n)
               \/ \E d \in Docs \cup {NoDoc} : SetDoc(t, n, d)
               \/ \E f \in {"", "N"} : SetFlag(t, n, f)
    BY DEF Operator
  <2>2. PICK s \in Seq(Row) : s = sheet[t]
    BY DEF TypeInv, TypeOK
  <2>3. ASSUME NEW k \in Keys, NEW d \in Docs \cup {NoDoc}, AddRow(t, k, d)
        PROVE  sheet' = [sheet EXCEPT ![t] = Append(s, [key |-> k, doc |-> d, done |-> ""])]
    BY <2>2, <2>3 DEF AddRow, Edit, RowsStay
  <2>4. ASSUME NEW k \in Keys, NEW d \in Docs \cup {NoDoc}, AddRow(t, k, d)
        PROVE  \E z \in Seq(Row) :
                 /\ sheet' = [sheet EXCEPT ![t] = z]
                 /\ \A n \in DOMAIN s : n \in DOMAIN z /\ z[n].key = s[n].key
                 /\ \A n \in DOMAIN z : z[n].done = "Y" => n \in DOMAIN s /\ s[n].done = "Y"
    <3>1. PICK row \in Row : row = [key |-> k, doc |-> d, done |-> ""] /\ row.done = ""
      <4>1. [key |-> k, doc |-> d, done |-> ""] \in Row
        BY DEF Row
      <4> QED
        BY <4>1
    <3>2. /\ Append(s, row) \in Seq(Row)
          /\ \A n \in DOMAIN s : n \in DOMAIN Append(s, row) /\ Append(s, row)[n] = s[n]
          /\ \A n \in DOMAIN Append(s, row) : n \in DOMAIN s \/ Append(s, row)[n] = row
      OBVIOUS
    <3>3. sheet' = [sheet EXCEPT ![t] = Append(s, row)]
      BY <2>3, <2>4, <3>1
    <3> QED
      BY <3>1, <3>2, <3>3
  <2>5. ASSUME NEW n \in DOMAIN sheet[t], RemoveRow(t, n) PROVE FALSE
    BY <2>5 DEF RemoveRow, Edit, RowsStay
  <2>6. ASSUME NEW n \in DOMAIN s, NEW d \in Docs \cup {NoDoc}, SetDoc(t, n, d)
        PROVE  \E z \in Seq(Row) :
                 /\ sheet' = [sheet EXCEPT ![t] = z]
                 /\ \A m \in DOMAIN s : m \in DOMAIN z /\ z[m].key = s[m].key
                 /\ \A m \in DOMAIN z : z[m].done = "Y" => m \in DOMAIN s /\ s[m].done = "Y"
    <3>1. PICK z \in Seq(Row) : z = [s EXCEPT ![n].doc = d]
      BY CellType
    <3>2. sheet' = [sheet EXCEPT ![t] = z]
      BY <2>2, <2>6, <3>1 DEF SetDoc, Edit
    <3>3. DOMAIN z = DOMAIN s /\ \A m \in DOMAIN s : /\ z[m].key = s[m].key
                                                     /\ z[m].done = s[m].done
      BY <3>1, DocKeeps
    <3> QED
      BY <3>2, <3>3
  <2>7. ASSUME NEW n \in DOMAIN s, NEW f, f # "Y", [s EXCEPT ![n].done = f] \in Seq(Row),
               SetFlag(t, n, f)
        PROVE  \E z \in Seq(Row) :
                 /\ sheet' = [sheet EXCEPT ![t] = z]
                 /\ \A m \in DOMAIN s : m \in DOMAIN z /\ z[m].key = s[m].key
                 /\ \A m \in DOMAIN z : z[m].done = "Y" => m \in DOMAIN s /\ s[m].done = "Y"
    <3>1. PICK z \in Seq(Row) : z = [s EXCEPT ![n].done = f]
      BY <2>7
    <3>2. sheet' = [sheet EXCEPT ![t] = z]
      BY <2>2, <2>7, <3>1 DEF SetFlag, Edit
    <3>3. DOMAIN z = DOMAIN s /\ \A m \in DOMAIN s : /\ z[m].key = s[m].key
                                                     /\ z[m].done \in {s[m].done, f}
      BY <3>1, FlagKeeps
    <3> QED
      BY <2>7, <3>2, <3>3
  <2>8. ASSUME NEW n \in DOMAIN s, NEW f \in {"", "N"}, SetFlag(t, n, f)
        PROVE  \E z \in Seq(Row) :
                 /\ sheet' = [sheet EXCEPT ![t] = z]
                 /\ \A m \in DOMAIN s : m \in DOMAIN z /\ z[m].key = s[m].key
                 /\ \A m \in DOMAIN z : z[m].done = "Y" => m \in DOMAIN s /\ s[m].done = "Y"
    <3>1. [s EXCEPT ![n].done = f] \in Seq(Row)
      BY CellType
    <3>2. f # "Y"
      OBVIOUS
    <3> QED
      BY <2>7, <2>8, <3>1, <3>2
  <2> QED
    BY <2>1, <2>2, <2>4, <2>5, <2>6, <2>8
<1>2. run' = run /\ sent' = sent
  BY DEF Operator, AddRow, RemoveRow, SetDoc, SetFlag, Edit
<1>3. Kept
  BY <1>1, <1>2 DEF Kept, TypeInv, TypeOK
<1>4. DoneWasDispatched'
  BY <1>1, <1>2, <1>3 DEF MarkInv, DoneWasDispatched, Kept, TypeInv, TypeOK
<1>5. ASSUME NEW r \in Instances PROVE Faithful(run[r])'
  <2>1. PICK q \in Run : q = run[r] /\ run'[r] = q
    BY <1>2 DEF TypeInv, TypeOK
  <2>2. Faithful(q)'
    BY <1>3, <2>1, KeptFaithful DEF MarkInv
  <2> QED
    BY <2>1, <2>2 DEF Faithful
<1> QED
  BY <1>4, <1>5 DEF MarkInv

LEMMA MarkStep == RowsStay /\ TypeInv /\ MarkInv /\ [Next]_vars => MarkInv'
<1> SUFFICES ASSUME RowsStay, TypeInv, MarkInv, [Next]_vars PROVE MarkInv'
  OBVIOUS
<1>1. ASSUME NEW r \in Instances,
             \/ Start(r) \/ Load(r) \/ Save(r) \/ FireDrain(r) \/ Crash(r)
      PROVE  MarkInv'
  BY <1>1, OnwardMark
<1>2. ASSUME NEW r \in Instances, ReadTab(r) PROVE MarkInv'
  BY <1>2, ReadTabMark
<1>3. ASSUME NEW r \in Instances, Dispatch(r) PROVE MarkInv'
  BY <1>3, DispatchMark
<1>4. ASSUME NEW r \in Instances, MarkDone(r) PROVE MarkInv'
  BY <1>4, MarkDoneMark
<1>5. CASE sheet' = sheet /\ sent' = sent /\ run' = run
  BY <1>5 DEF MarkInv, DoneWasDispatched, Faithful
<1>6. ASSUME NEW r \in Instances, NEW t \in Tabs, Expire(r, t) PROVE MarkInv'
  BY <1>5, <1>6 DEF Expire
<1>7. ASSUME NEW t \in Tabs, ServiceLoad(t) \/ ServiceExpire(t) PROVE MarkInv'
  BY <1>5, <1>7 DEF ServiceLoad, ServiceExpire
<1>8. CASE Operator
  BY <1>8, OperatorMark
<1>9. CASE UNCHANGED vars
  BY <1>5, <1>9 DEF vars
<1> QED
  BY <1>1, <1>2, <1>3, <1>4, <1>6, <1>7, <1>8, <1>9 DEF Next, Step

LEMMA MarkInit == Init => MarkInv
<1> SUFFICES ASSUME Init PROVE MarkInv
  OBVIOUS
<1>1. DoneWasDispatched
  BY DEF Init, DoneWasDispatched, Flagged
<1>2. \A r \in Instances : Faithful(run[r])
  BY DEF Init, Faithful, Idle
<1> QED
  BY <1>1, <1>2 DEF MarkInv

\* While the operator neither inserts nor removes rows, "Y" stands only at keys
\* whose backfill was dispatched: process_slack_tab and process_gong_tab
\* (src/config-sync/main.py) write the cell by the row number of their snapshot,
\* and however runs overlap, fail or are killed it is still the same row.
THEOREM DoneIsDispatched ==
    ASSUME RowsStay
    PROVE  Spec => []DoneWasDispatched
<1>1. MarkInv => DoneWasDispatched
  BY DEF MarkInv
<1>2. RowsStay
  OBVIOUS
<1>3. TypeInv /\ MarkInv /\ [Next]_vars => MarkInv'
  BY <1>2, MarkStep
<1> QED
  BY <1>1, <1>3, MarkInit, TypeCorrect, PTL DEF Spec

-----------------------------------------------------------------------------
(* What a step does to the run of its instance *)

\* Between tabs, or before the new rows are known.
Leaves(x) == x.pc \in {"idle", "read", "load", "drain"}

\* x is p, but for the place it is at and the rows left.
GoesOn(p, x) == x.rows = p.rows /\ x.tab = p.tab /\ x.mapping = p.mapping

LEMMA ProceedStep ==
    ASSUME NEW q \in Run
    PROVE  LET x == Proceed(q)
           IN  /\ x \in Run
               /\ \/ Leaves(x)
                  \/ x.pc = "dispatch" /\ GoesOn(q, x) /\ x.todo = q.todo
<1>1. PICK x \in Run : x = Proceed(q)
  BY ProceedType
<1>2. CASE q.todo = {}
  <2>1. q.tab \in Tabs
    BY DEF Run
  <2>2. PICK a, b : /\ a = [Idle EXCEPT !.pc = "read", !.tab = "gong"]
                    /\ b = [Idle EXCEPT !.pc = "drain", !.tab = "gong"]
    OBVIOUS
  <2>3. a.pc = "read" /\ b.pc = "drain"
    BY <2>2 DEF Idle
  <2>4. x = a \/ x = b
    BY <1>1, <1>2, <2>2 DEF Proceed, AfterTab
  <2> QED
    BY <1>1, <2>3, <2>4 DEF Leaves
<1>3. CASE q.todo # {}
  <2>1. x = [q EXCEPT !.pc = "dispatch"]
    BY <1>1, <1>3 DEF Proceed
  <2>2. x.pc = "dispatch" /\ GoesOn(q, x) /\ x.todo = q.todo
    BY <2>1 DEF Run, GoesOn
  <2> QED
    BY <1>1, <2>2
<1> QED
  BY <1>2, <1>3

LEMMA NextRowStep ==
    ASSUME NEW q \in Run, NEW n
    PROVE  LET x == NextRow(q, n)
           IN  /\ x \in Run
               /\ \/ Leaves(x)
                  \/ x.pc = "dispatch" /\ GoesOn(q, x) /\ x.todo = q.todo \ {n}
<1>1. PICK p : p = [q EXCEPT !.todo = @ \ {n}]
  OBVIOUS
<1>2. p \in Run /\ GoesOn(q, p) /\ p.todo = q.todo \ {n}
  BY <1>1 DEF Run, GoesOn
<1>3. PICK x : x = Proceed(p)
  OBVIOUS
<1>4. x \in Run /\ (Leaves(x) \/ (x.pc = "dispatch" /\ GoesOn(p, x) /\ x.todo = p.todo))
  BY <1>2, <1>3, ProceedStep
<1>5. NextRow(q, n) = x
  BY <1>1, <1>3 DEF NextRow
<1> QED
  BY <1>2, <1>4, <1>5 DEF GoesOn

LEMMA DispatchStep ==
    ASSUME TypeOK, NEW r \in Instances, Dispatch(r), NEW p \in Run, p = run[r]
    PROVE  \E n \in p.todo :
             /\ IsNext(r, n)
             /\ served' = [served EXCEPT ![p.tab] = @ \cup {p.rows[n].key}]
             /\ \/ Leaves(run'[r])
                \/ /\ run'[r].pc = "mark" /\ GoesOn(p, run'[r])
                   /\ run'[r].todo = p.todo
                \/ /\ run'[r].pc = "dispatch" /\ GoesOn(p, run'[r])
                   /\ run'[r].todo = p.todo \ {n}
<1>1. PICK n \in p.todo :
        /\ IsNext(r, n)
        /\ served' = [served EXCEPT ![p.tab] = @ \cup {p.rows[n].key}]
        /\ Become(r, [p EXCEPT !.pc = "mark"]) \/ Become(r, NextRow(p, n))
  BY DispatchFacts
<1>2. CASE Become(r, [p EXCEPT !.pc = "mark"])
  <2>1. PICK x : x = [p EXCEPT !.pc = "mark"]
    OBVIOUS
  <2>2. x \in Run /\ x.pc = "mark" /\ GoesOn(p, x) /\ x.todo = p.todo
    BY <2>1 DEF Run, GoesOn
  <2>3. run'[r] = x
    BY <1>2, <2>1, <2>2, RunStep
  <2> QED
    BY <1>1, <2>2, <2>3
<1>3. CASE Become(r, NextRow(p, n))
  <2>1. PICK x : x = NextRow(p, n)
    OBVIOUS
  <2>2. x \in Run /\ (Leaves(x) \/ (x.pc = "dispatch" /\ GoesOn(p, x) /\ x.todo = p.todo \ {n}))
    BY <2>1, NextRowStep
  <2>3. run'[r] = x
    BY <1>3, <2>1, <2>2, RunStep
  <2> QED
    BY <1>1, <2>2, <2>3
<1> QED
  BY <1>1, <1>2, <1>3

LEMMA MarkDoneStep ==
    ASSUME TypeOK, NEW r \in Instances, MarkDone(r), NEW p \in Run, p = run[r]
    PROVE  \E n \in p.todo :
             /\ IsNext(r, n)
             /\ \/ Leaves(run'[r])
                \/ /\ run'[r].pc = "dispatch" /\ GoesOn(p, run'[r])
                   /\ run'[r].todo = p.todo \ {n}
<1>1. PICK n \in p.todo : IsNext(r, n) /\ Become(r, NextRow(p, n))
  BY MarkDoneFacts
<1>2. PICK x : x = NextRow(p, n)
  OBVIOUS
<1>3. x \in Run /\ (Leaves(x) \/ (x.pc = "dispatch" /\ GoesOn(p, x) /\ x.todo = p.todo \ {n}))
  BY <1>2, NextRowStep
<1>4. run'[r] = x
  BY <1>1, <1>2, <1>3, RunStep
<1> QED
  BY <1>1, <1>3, <1>4

LEMMA SaveStep ==
    ASSUME TypeOK, NEW r \in Instances, Save(r), NEW p \in Run, p = run[r]
    PROVE  \/ /\ Publish(p.tab, p.mapping)
              /\ cache' = [cache EXCEPT ![r][p.tab] = [mapping |-> p.mapping, fresh |-> TRUE]]
              /\ \/ Leaves(run'[r])
                 \/ /\ run'[r].pc = "dispatch" /\ GoesOn(p, run'[r])
                    /\ run'[r].todo = p.todo
           \/ /\ Publish(p.tab, p.mapping) \/ UNCHANGED <<blob, served>>
              /\ cache' = cache
              /\ Leaves(run'[r])
<1>1. CASE /\ Publish(p.tab, p.mapping)
           /\ cache' = [cache EXCEPT ![r][p.tab] = [mapping |-> p.mapping, fresh |-> TRUE]]
           /\ Become(r, Proceed(p))
  <2>1. PICK x : x = Proceed(p)
    OBVIOUS
  <2>2. x \in Run /\ (Leaves(x) \/ (x.pc = "dispatch" /\ GoesOn(p, x) /\ x.todo = p.todo))
    BY <2>1, ProceedStep
  <2>3. run'[r] = x
    BY <1>1, <2>1, <2>2, RunStep
  <2> QED
    BY <1>1, <2>2, <2>3
<1>2. CASE /\ Publish(p.tab, p.mapping) \/ UNCHANGED <<blob, served>>
           /\ cache' = cache
           /\ Become(r, Idle)
  <2>1. run'[r] = Idle /\ Leaves(Idle)
    BY <1>2, IdleType, RunStep DEF Leaves, Idle
  <2> QED
    BY <1>2, <2>1
<1> QED
  BY <1>1, <1>2 DEF Save

\* The step leads to, or stays, between tabs.
LEMMA LeavesStep ==
    ASSUME TypeOK, NEW r \in Instances,
           Start(r) \/ ReadTab(r) \/ FireDrain(r) \/ Crash(r)
    PROVE  Leaves(run'[r])
<1>1. PICK p \in Run : p = run[r]
  BY DEF TypeOK
<1>2. CASE Become(r, Idle)
  BY <1>2, IdleType, RunStep DEF Leaves, Idle
<1>3. CASE Start(r)
  <2>1. PICK x : x = [Idle EXCEPT !.pc = "read"]
    OBVIOUS
  <2>2. x \in Run /\ x.pc = "read"
    BY <2>1, IdleType DEF Run, Idle
  <2> QED
    BY <1>3, <2>1, <2>2, RunStep DEF Start, Leaves
<1>4. CASE ReadTab(r)
  <2>1. p.tab \in Tabs /\ sheet[p.tab] \in Seq(Row)
    BY DEF Run, TypeOK
  <2>2. PICK x, y : /\ x = [p EXCEPT !.pc = "load", !.rows = sheet[p.tab]]
                    /\ y = AfterTab(p.tab)
    OBVIOUS
  <2>3. x \in Run /\ y \in Run /\ x.pc = "load"
    BY <2>1, <2>2, AfterTabType DEF Run
  <2>4. y.pc \in {"read", "drain"}
    BY <2>2 DEF AfterTab, Idle
  <2>5. Become(r, x) \/ Become(r, y) \/ Become(r, Idle)
    BY <1>1, <1>4, <2>2 DEF ReadTab
  <2> QED
    BY <1>2, <2>3, <2>4, <2>5, RunStep DEF Leaves
<1> QED
  BY <1>2, <1>3, <1>4 DEF FireDrain, Crash

\* The rows that are new in a snapshot are rows that its new mapping has.
LEMMA NewRowsListed ==
    ASSUME NEW rows \in Seq(Row), NEW current, NEW n \in NewRows(rows, current)
    PROVE  Rebuild(rows)[rows[n].key] # NoDoc
<1>1. PICK k \in Keys : k = rows[n].key
  <2>1. n \in DOMAIN rows
    BY DEF NewRows
  <2>2. rows[n] \in Row
    BY <2>1
  <2> QED
    BY <2>2 DEF Row
<1>2. n \in Listed(rows, k)
  BY <1>1 DEF NewRows, Listed
<1>3. PICK c : c = CHOOSE g \in Listed(rows, k) : \A o \in Listed(rows, k) : o <= g
  OBVIOUS
<1>4. c \in Listed(rows, k)
  <2>1. Listed(rows, k) \in SUBSET (0..Len(rows)) /\ Len(rows) \in Nat
    BY DEF Listed
  <2>2. \E g \in Listed(rows, k) : \A o \in Listed(rows, k) : o <= g
    BY <1>2, <2>1, GreatestExists, Zenon
  <2> QED
    BY <1>3, <2>2
<1>5. Rebuild(rows)[k] = rows[c].doc
  BY <1>2, <1>3 DEF Rebuild
<1> QED
  BY <1>1, <1>4, <1>5 DEF Listed, Complete

\* Where the mapping that a load returns comes from.
LEMMA LoadFrom ==
    ASSUME TypeOK, NEW r \in Instances, NEW t \in Tabs, NEW current,
           LoadMapping(r, t, current)
    PROVE  /\ \A i \in Instances, u \in Tabs :
                <<i, u>> # <<r, t>> => cache'[i][u] = cache[i][u]
           /\ \/ /\ cache' = cache /\ current = cache[r][t].mapping
                 /\ cache[r][t].fresh \/ Fault("load")
              \/ /\ ~cache[r][t].fresh /\ current = blob[t]
                 /\ cache'[r][t] = [mapping |-> blob[t], fresh |-> TRUE]
<1>1. cache \in [Instances -> [Tabs -> Entry]]
  BY DEF TypeOK
<1>2. CASE /\ cache' = cache /\ current = cache[r][t].mapping
           /\ cache[r][t].fresh \/ Fault("load")
  BY <1>2
<1>3. CASE /\ cache' = [cache EXCEPT ![r][t] = [mapping |-> blob[t], fresh |-> TRUE]]
           /\ ~cache[r][t].fresh /\ current = blob[t]
  <2>1. cache'[r][t] = [mapping |-> blob[t], fresh |-> TRUE]
    BY <1>1, <1>3
  <2>2. \A i \in Instances, u \in Tabs : <<i, u>> # <<r, t>> => cache'[i][u] = cache[i][u]
    BY <1>1, <1>3
  <2> QED
    BY <1>3, <2>1, <2>2
<1> QED
  BY <1>2, <1>3 DEF LoadMapping

\* The load of a tab: where the run goes, with what.
LEMMA LoadStep ==
    ASSUME TypeOK, NEW r \in Instances, Load(r), NEW p \in Run, p = run[r]
    PROVE  \E current :
             /\ LoadMapping(r, p.tab, current)
             /\ \/ Leaves(run'[r])
                \/ /\ run'[r].pc = "save" /\ run'[r].tab = p.tab
                   /\ \A n \in run'[r].todo :
                        /\ run'[r].mapping[run'[r].rows[n].key] # NoDoc
                        /\ current[run'[r].rows[n].key] = NoDoc
<1>1. PICK current :
        /\ LoadMapping(r, p.tab, current)
        /\ LET q == [p EXCEPT !.mapping = Rebuild(p.rows),
                              !.todo = NewRows(p.rows, current)]
           IN  Become(r, IF Differ(q.mapping, current) THEN [q EXCEPT !.pc = "save"]
                         ELSE Proceed(q))
  BY DEF Load
<1>2. PICK mapping, todo : mapping = Rebuild(p.rows) /\ todo = NewRows(p.rows, current)
  OBVIOUS
<1>3. PICK q : q = [p EXCEPT !.mapping = mapping, !.todo = todo]
  OBVIOUS
<1>4. p.rows \in Seq(Row) /\ Len(p.rows) \in Nat
  BY DEF Run
<1>5. mapping \in Mapping /\ todo \subseteq Nat
  BY <1>2, <1>4, RebuildType, NewRowsType
<1>6. /\ q \in Run /\ q.mapping = mapping /\ q.todo = todo
      /\ q.rows = p.rows /\ q.tab = p.tab
  BY <1>3, <1>5 DEF Run
<1>7. Become(r, IF Differ(q.mapping, current) THEN [q EXCEPT !.pc = "save"]
                ELSE Proceed(q))
  BY <1>1, <1>2, <1>3
<1>8. \A n \in todo : mapping[p.rows[n].key] # NoDoc /\ current[p.rows[n].key] = NoDoc
  BY <1>2, <1>4, NewRowsListed DEF NewRows
<1>9. CASE Differ(q.mapping, current)
  <2>1. PICK x : x = [q EXCEPT !.pc = "save"]
    OBVIOUS
  <2>2. /\ x \in Run /\ x.pc = "save" /\ x.tab = p.tab /\ x.rows = p.rows
        /\ x.mapping = mapping /\ x.todo = todo
    BY <1>6, <2>1 DEF Run
  <2>3. run'[r] = x
    BY <1>7, <1>9, <2>1, <2>2, RunStep
  <2> QED
    BY <1>1, <1>8, <2>2, <2>3
<1>10. CASE ~Differ(q.mapping, current)
  <2>1. todo = {}
    BY <1>6, <1>8, <1>10 DEF Differ
  <2>2. PICK x : x = AfterTab(p.tab)
    OBVIOUS
  <2>3. p.tab \in Tabs
    BY DEF Run
  <2>4. x \in Run /\ x.pc \in {"read", "drain"}
    BY <2>2, <2>3, AfterTabType DEF AfterTab, Idle
  <2>5. Become(r, x)
    BY <1>6, <1>7, <1>10, <2>1, <2>2 DEF Proceed
  <2> QED
    BY <1>1, <2>4, <2>5, RunStep DEF Leaves
<1> QED
  BY <1>9, <1>10

-----------------------------------------------------------------------------
(* Runs that do not overlap *)

\* At most one instance is in a run.
OneAtATime ==
    \A i, j \in Instances : i # j => run[i].pc = "idle" \/ run[j].pc = "idle"

\* No other container has a fresh mapping while one is in a run.
OneKnows ==
    \A i, j \in Instances :
        i # j /\ run[i].pc # "idle" => \A t \in Tabs : ~cache[j][t].fresh

\* The other instances are left alone.
Others(r) == \A j \in Instances \ {r} : run'[j] = run[j] /\ cache'[j] = cache[j]

\* The other instances are left alone, in no run and with no fresh mapping.
Apart(r) ==
    /\ Others(r)
    /\ \A j \in Instances \ {r} : run[j].pc = "idle" /\ \A t \in Tabs : ~cache[j][t].fresh

LEMMA StepOthers ==
    ASSUME TypeOK, NEW r \in Instances, Start(r) \/ Step(r) \/ Crash(r)
    PROVE  Others(r)
<1>1. \E q : Become(r, q)
  BY DEF Start, Step, ReadTab, Load, Save, Dispatch, MarkDone, FireDrain, Crash
<1>2. \A j \in Instances \ {r} : run'[j] = run[j]
  BY <1>1 DEF Become, TypeOK
<1>3. \A j \in Instances \ {r} : cache'[j] = cache[j]
  <2>1. CASE cache' = cache
    BY <2>1
  <2>2. CASE \E x : cache' = [cache EXCEPT ![r] = x]
    BY <2>2 DEF TypeOK
  <2> QED
    BY <2>1, <2>2 DEF Start, Step, ReadTab, Load, LoadMapping, Save, Dispatch, MarkDone,
                      FireDrain, Crash
<1> QED
  BY <1>2, <1>3 DEF Others

LEMMA StepRuns ==
    ASSUME NEW r \in Instances, Step(r)
    PROVE  run[r].pc # "idle"
  BY DEF Step, ReadTab, Load, Save, Dispatch, MarkDone, FireDrain

\* A crash ends the run and empties the cache.
LEMMA CrashEnds ==
    ASSUME TypeOK, NEW r \in Instances, Crash(r)
    PROVE  run'[r].pc = "idle" /\ \A t \in Tabs : ~cache'[r][t].fresh
<1>1. run'[r] = Idle
  BY IdleType, RunStep DEF Crash
<1>2. cache'[r] = [t \in Tabs |-> Unloaded]
  BY DEF Crash, TypeOK
<1> QED
  BY <1>1, <1>2 DEF Idle, Unloaded

LEMMA OneAtATimeInit == Init => OneAtATime
  BY DEF Init, OneAtATime, Idle

LEMMA OneAtATimeStep ==
    ASSUME Pace # "any"
    PROVE  TypeInv /\ OneAtATime /\ [Next]_vars => OneAtATime'
<1> SUFFICES ASSUME TypeOK, OneAtATime, [Next]_vars PROVE OneAtATime'
  BY DEF TypeInv
<1>1. ASSUME NEW r \in Instances, Start(r) PROVE OneAtATime'
  BY <1>1, StepOthers DEF Start, Ready, Others, OneAtATime
<1>2. ASSUME NEW r \in Instances, Step(r) PROVE OneAtATime'
  BY <1>2, StepOthers, StepRuns DEF Others, OneAtATime
<1>3. ASSUME NEW r \in Instances, Crash(r) PROVE OneAtATime'
  BY <1>3, StepOthers, CrashEnds DEF Others, OneAtATime
<1>4. CASE run' = run
  BY <1>4 DEF OneAtATime
<1>5. CASE Operator
  BY <1>4, <1>5 DEF Operator, AddRow, RemoveRow, SetDoc, SetFlag, Edit
<1> QED
  BY <1>1, <1>2, <1>3, <1>4, <1>5 DEF Next, Expire, ServiceLoad, ServiceExpire, vars

LEMMA OneKnowsInit == Init => OneKnows
  BY DEF Init, OneKnows, Idle

LEMMA OneKnowsStep ==
    ASSUME Pace = "spaced"
    PROVE  TypeInv /\ OneAtATime /\ OneKnows /\ [Next]_vars => OneKnows'
<1> SUFFICES ASSUME TypeOK, OneAtATime, OneKnows, [Next]_vars PROVE OneKnows'
  BY DEF TypeInv
<1>1. ASSUME NEW r \in Instances, Start(r) PROVE OneKnows'
  BY <1>1, StepOthers DEF Start, Ready, Others, OneKnows
<1>2. ASSUME NEW r \in Instances, Step(r) PROVE OneKnows'
  BY <1>2, StepOthers, StepRuns DEF Others, OneAtATime, OneKnows
<1>3. ASSUME NEW r \in Instances, Crash(r) PROVE OneKnows'
  BY <1>3, StepOthers, CrashEnds DEF Others, OneKnows
<1>4. CASE run' = run /\ cache' = cache
  BY <1>4 DEF OneKnows
<1>5. ASSUME NEW r \in Instances, NEW t \in Tabs, Expire(r, t) PROVE OneKnows'
  <2>1. \A i \in Instances, u \in Tabs : cache'[i][u].fresh => cache[i][u].fresh
    BY <1>5 DEF Expire, TypeOK, Entry
  <2> QED
    BY <1>5, <2>1 DEF Expire, OneKnows
<1>6. CASE Operator
  BY <1>4, <1>6 DEF Operator, AddRow, RemoveRow, SetDoc, SetFlag, Edit
<1> QED
  BY <1>1, <1>2, <1>3, <1>4, <1>5, <1>6 DEF Next, ServiceLoad, ServiceExpire, vars

-----------------------------------------------------------------------------
(* A key is published before it is dispatched *)

\* The new rows a run treats are in its new mapping, which is in the blob, and in the
\* instance's cache, once the run has saved it.
Prepared(r) ==
    /\ run[r].pc \in {"save", "dispatch", "mark"} =>
         \A n \in run[r].todo : run[r].mapping[run[r].rows[n].key] # NoDoc
    /\ run[r].pc \in {"dispatch", "mark"} =>
         /\ blob[run[r].tab] = run[r].mapping
         /\ cache[r][run[r].tab].mapping = run[r].mapping

PreparedInv == \A r \in Instances : Prepared(r)

LEMMA LeavesPrepared ==
    ASSUME NEW r \in Instances, Leaves(run'[r])
    PROVE  Prepared(r)'
  BY DEF Leaves, Prepared

LEMMA GoesOnPrepared ==
    ASSUME NEW r \in Instances, Prepared(r), run[r].pc \in {"dispatch", "mark"},
           GoesOn(run[r], run'[r]), run'[r].pc \in {"dispatch", "mark"},
           run'[r].todo \subseteq run[r].todo, blob' = blob, cache' = cache
    PROVE  Prepared(r)'
  BY DEF Prepared, GoesOn

LEMMA StepPrepared ==
    ASSUME TypeOK, NEW r \in Instances, Prepared(r), Step(r)
    PROVE  Prepared(r)'
<1>1. PICK p \in Run : p = run[r]
  BY DEF TypeOK
<1>2. CASE ReadTab(r) \/ FireDrain(r)
  BY <1>2, LeavesStep, LeavesPrepared
<1>3. CASE Load(r)
  BY <1>1, <1>3, LoadStep, LeavesPrepared DEF Prepared
<1>4. CASE Save(r)
  <2>1. p.tab \in Tabs /\ p.pc = "save"
    BY <1>1, <1>4 DEF Run, Save
  <2>2. CASE /\ Publish(p.tab, p.mapping)
             /\ cache' = [cache EXCEPT ![r][p.tab] = [mapping |-> p.mapping, fresh |-> TRUE]]
             /\ run'[r].pc = "dispatch" /\ GoesOn(p, run'[r]) /\ run'[r].todo = p.todo
    <3>1. blob'[p.tab] = p.mapping
      BY <2>1, <2>2 DEF Publish, TypeOK
    <3>2. cache'[r][p.tab].mapping = p.mapping
      BY <2>1, <2>2 DEF TypeOK
    <3> QED
      BY <1>1, <2>1, <2>2, <3>1, <3>2 DEF Prepared, GoesOn
  <2> QED
    BY <1>1, <1>4, <2>2, SaveStep, LeavesPrepared
<1>5. CASE Dispatch(r)
  <2>1. run[r].pc = "dispatch" /\ blob' = blob /\ cache' = cache
    BY <1>5 DEF Dispatch
  <2> QED
    BY <1>1, <1>5, <2>1, DispatchStep, GoesOnPrepared, LeavesPrepared
<1>6. CASE MarkDone(r)
  <2>1. run[r].pc = "mark" /\ blob' = blob /\ cache' = cache
    BY <1>6 DEF MarkDone
  <2> QED
    BY <1>1, <1>6, <2>1, MarkDoneStep, GoesOnPrepared, LeavesPrepared
<1> QED
  BY <1>2, <1>3, <1>4, <1>5, <1>6 DEF Step

LEMMA PreparedStep == TypeInv /\ OneAtATime /\ PreparedInv /\ [Next]_vars => PreparedInv'
<1> SUFFICES ASSUME TypeInv, OneAtATime, PreparedInv, [Next]_vars PROVE PreparedInv'
  OBVIOUS
<1> USE DEF TypeInv
<1>2. ASSUME NEW r \in Instances, Step(r) PROVE PreparedInv'
  <2>1. Prepared(r)'
    BY <1>2, StepPrepared DEF PreparedInv
  <2>2. \A j \in Instances \ {r} : run'[j].pc = "idle"
    BY <1>2, StepOthers, StepRuns DEF Others, OneAtATime
  <2>3. \A j \in Instances \ {r} : Prepared(j)'
    BY <2>2 DEF Prepared
  <2> QED
    BY <2>1, <2>3 DEF PreparedInv
<1>3. ASSUME NEW r \in Instances, Start(r) \/ Crash(r) PROVE PreparedInv'
  <2>1. Prepared(r)'
    BY <1>3, LeavesStep, LeavesPrepared
  <2>2. Others(r) /\ blob' = blob
    BY <1>3, StepOthers DEF Start, Crash
  <2>3. \A j \in Instances \ {r} : Prepared(j)'
    BY <2>2 DEF PreparedInv, Prepared, Others
  <2> QED
    BY <2>1, <2>3 DEF PreparedInv
<1>4. ASSUME NEW r \in Instances, NEW t \in Tabs, Expire(r, t) PROVE PreparedInv'
  <2>1. \A i \in Instances, u \in Tabs : cache'[i][u].mapping = cache[i][u].mapping
    BY <1>4 DEF Expire, TypeOK, Entry
  <2>2. \A i \in Instances : run[i].tab \in Tabs
    BY DEF TypeOK, Run
  <2> QED
    BY <1>4, <2>1, <2>2 DEF Expire, PreparedInv, Prepared
<1>5. CASE blob' = blob /\ run' = run /\ cache' = cache
  BY <1>5 DEF PreparedInv, Prepared
<1>6. CASE Operator
  BY <1>5, <1>6 DEF Operator, AddRow, RemoveRow, SetDoc, SetFlag, Edit
<1>7. CASE (\E t \in Tabs : ServiceLoad(t) \/ ServiceExpire(t)) \/ UNCHANGED vars
  BY <1>5, <1>7 DEF ServiceLoad, ServiceExpire, vars
<1> QED
  BY <1>2, <1>3, <1>4, <1>6, <1>7 DEF Next

\* When runs do not overlap, whichever containers serve them, a key is in the blob by
\* the time its backfill is dispatched, whatever fails, crashes or is edited:
\* process_slack_tab and process_gong_tab (src/config-sync/main.py) save the mapping
\* first, and do so whenever there is a new row.
THEOREM SerialPublishes ==
    ASSUME Pace # "any"
    PROVE  Spec => []PublishedFirst
<1>1. Init => PreparedInv
  BY DEF Init, PreparedInv, Prepared, Idle
<1>2. PreparedInv => PublishedFirst
  BY DEF PreparedInv, Prepared, PublishedFirst
<1>3. TypeInv /\ OneAtATime /\ [Next]_vars => OneAtATime'
  BY OneAtATimeStep
<1> QED
  BY <1>1, <1>2, <1>3, TypeCorrect, OneAtATimeInit, PreparedStep, PTL DEF Spec

-----------------------------------------------------------------------------
(* No later run dispatches a key again *)

\* What was dispatched since it was last published is in the blob, and in what an
\* instance will take for the blob.
ServedKnown ==
    \A t \in Tabs : \A k \in served[t] :
        /\ blob[t][k] # NoDoc
        /\ \A r \in Instances : cache[r][t].fresh => cache[r][t].mapping[k] # NoDoc

\* The key of row n was dispatched only if an earlier row of the snapshot has it.
After(q, n) ==
    q.rows[n].key \in served[q.tab] => \E m \in 1..(n - 1) : q.rows[m].key = q.rows[n].key

\* The new rows of a run have keys that were not dispatched, until the run does it.
Unserved(r) ==
    /\ run[r].pc = "save" => \A n \in run[r].todo : run[r].rows[n].key \notin served[run[r].tab]
    /\ run[r].pc = "dispatch" => \A n \in run[r].todo : After(run[r], n)
    /\ run[r].pc = "mark" => \A n \in run[r].todo : IsNext(r, n) \/ After(run[r], n)

ServedInv == ServedKnown /\ \A r \in Instances : Unserved(r)

\* Nobody else is in a run, so what holds of r's holds of all.
LEMMA ApartServed ==
    ASSUME NEW r \in Instances, Apart(r), Unserved(r)', ServedKnown'
    PROVE  ServedInv'
<1>1. \A j \in Instances \ {r} : Unserved(j)'
  BY DEF Apart, Others, Unserved
<1> QED
  BY <1>1 DEF ServedInv

LEMMA LeavesUnserved ==
    ASSUME NEW r \in Instances, Leaves(run'[r])
    PROVE  Unserved(r)'
  BY DEF Leaves, Unserved

LEMMA LoadServed ==
    ASSUME "load" \notin FaultKinds, TypeOK, ServedInv,
           NEW r \in Instances, Load(r), Apart(r)
    PROVE  ServedInv'
<1>1. PICK p \in Run : p = run[r]
  BY DEF TypeOK
<1>2. PICK current :
        /\ LoadMapping(r, p.tab, current)
        /\ \/ Leaves(run'[r])
           \/ /\ run'[r].pc = "save" /\ run'[r].tab = p.tab
              /\ \A n \in run'[r].todo : current[run'[r].rows[n].key] = NoDoc
  BY <1>1, LoadStep
<1>3. p.tab \in Tabs /\ blob' = blob /\ served' = served
  BY DEF Run, Load
<1>4. /\ \A i \in Instances, u \in Tabs :
             <<i, u>> # <<r, p.tab>> => cache'[i][u] = cache[i][u]
      /\ \/ /\ cache' = cache /\ current = cache[r][p.tab].mapping
            /\ cache[r][p.tab].fresh
         \/ /\ current = blob[p.tab]
            /\ cache'[r][p.tab] = [mapping |-> blob[p.tab], fresh |-> TRUE]
  BY <1>2, <1>3, LoadFrom DEF Fault
<1>5. \A k \in served[p.tab] : current[k] # NoDoc
  BY <1>3, <1>4 DEF ServedInv, ServedKnown
<1>6. Unserved(r)'
  BY <1>2, <1>3, <1>5, LeavesUnserved DEF Unserved
<1>7. ServedKnown'
  <2> SUFFICES ASSUME NEW t \in Tabs, NEW k \in served[t], NEW i \in Instances, cache'[i][t].fresh
               PROVE  cache'[i][t].mapping[k] # NoDoc
    BY <1>3 DEF ServedInv, ServedKnown
  <2>1. CASE cache'[i][t] = cache[i][t]
    BY <2>1 DEF ServedInv, ServedKnown
  <2>2. CASE <<i, t>> = <<r, p.tab>> /\ cache'[r][p.tab].mapping = blob[p.tab]
    BY <2>2 DEF ServedInv, ServedKnown
  <2> QED
    BY <1>4, <2>1, <2>2
<1> QED
  BY <1>6, <1>7, ApartServed

LEMMA SaveServed ==
    ASSUME TypeOK, ServedInv, NEW r \in Instances, Save(r), Apart(r)
    PROVE  ServedInv'
<1>1. PICK p \in Run : p = run[r]
  BY DEF TypeOK
<1>2. p.pc = "save" /\ p.tab \in Tabs /\ \A n \in p.todo : p.rows[n].key \notin served[p.tab]
  BY <1>1 DEF Save, Run, ServedInv, Unserved
<1>3. \/ /\ Publish(p.tab, p.mapping)
         /\ cache' = [cache EXCEPT ![r][p.tab] = [mapping |-> p.mapping, fresh |-> TRUE]]
         /\ \/ Leaves(run'[r])
            \/ /\ run'[r].pc = "dispatch" /\ GoesOn(p, run'[r])
               /\ run'[r].todo = p.todo
      \/ /\ Publish(p.tab, p.mapping) \/ UNCHANGED <<blob, served>>
         /\ cache' = cache
         /\ Leaves(run'[r])
  BY <1>1, SaveStep
<1>4. ASSUME Publish(p.tab, p.mapping)
      PROVE  /\ blob'[p.tab] = p.mapping
             /\ served'[p.tab] = {k \in served[p.tab] : p.mapping[k] # NoDoc}
             /\ \A t \in Tabs \ {p.tab} : blob'[t] = blob[t] /\ served'[t] = served[t]
  BY <1>2, <1>4 DEF Publish, TypeOK
<1>5. Unserved(r)'
  BY <1>2, <1>3, <1>4, LeavesUnserved DEF Unserved, GoesOn, After
<1>6. ASSUME Publish(p.tab, p.mapping),
             \A i \in Instances, t \in Tabs :
                cache'[i][t] = cache[i][t] \/ (t = p.tab /\ cache'[i][t].mapping = p.mapping)
      PROVE  ServedKnown'
  BY <1>4, <1>6 DEF ServedInv, ServedKnown
<1>7. ASSUME ServedKnown' PROVE ServedInv'
  BY <1>5, <1>7, ApartServed
<1>8. CASE Publish(p.tab, p.mapping) /\ cache' = cache
  BY <1>6, <1>7, <1>8
<1>9. CASE /\ Publish(p.tab, p.mapping)
           /\ cache' = [cache EXCEPT ![r][p.tab] = [mapping |-> p.mapping, fresh |-> TRUE]]
  <2>1. cache \in [Instances -> [Tabs -> Entry]]
    BY DEF TypeOK
  <2>2. \A i \in Instances, t \in Tabs :
          cache'[i][t] = cache[i][t] \/ (t = p.tab /\ cache'[i][t].mapping = p.mapping)
    BY <1>2, <1>9, <2>1
  <2> QED
    BY <1>6, <1>7, <1>9, <2>2
<1>10. CASE UNCHANGED <<blob, served, cache>>
  <2>1. ServedKnown'
    BY <1>10 DEF ServedInv, ServedKnown
  <2> QED
    BY <1>7, <2>1
<1> QED
  BY <1>3, <1>8, <1>9, <1>10

\* While the row it is at has been dispatched, what comes after it is as before.
LEMMA DispatchServed ==
    ASSUME TypeInv, PreparedInv, ServedInv, NEW r \in Instances, Dispatch(r), Apart(r)
    PROVE  ServedInv'
<1>1. PICK p \in Run : p = run[r]
  BY DEF TypeInv, TypeOK
<1>2. PICK n \in p.todo :
        /\ IsNext(r, n)
        /\ served' = [served EXCEPT ![p.tab] = @ \cup {p.rows[n].key}]
        /\ \/ Leaves(run'[r])
           \/ /\ run'[r].pc = "mark" /\ GoesOn(p, run'[r])
              /\ run'[r].todo = p.todo
           \/ /\ run'[r].pc = "dispatch" /\ GoesOn(p, run'[r])
              /\ run'[r].todo = p.todo \ {n}
  BY <1>1, DispatchStep DEF TypeInv
<1>3. /\ p.pc = "dispatch" /\ p.tab \in Tabs /\ blob' = blob /\ cache' = cache
      /\ p.todo \subseteq Nat /\ p.todo \subseteq DOMAIN p.rows
      /\ DOMAIN p.rows = 1..Len(p.rows) /\ Len(p.rows) \in Nat
  BY <1>1 DEF Dispatch, Run, TypeInv, TodoInRows, TodoFits
<1>4. /\ served'[p.tab] = served[p.tab] \cup {p.rows[n].key}
      /\ \A t \in Tabs \ {p.tab} : served'[t] = served[t]
  BY <1>2, <1>3 DEF TypeInv, TypeOK
<1>5. /\ blob[p.tab][p.rows[n].key] # NoDoc
      /\ cache[r][p.tab].mapping[p.rows[n].key] # NoDoc
  BY <1>1, <1>3 DEF PreparedInv, Prepared
<1>6. \A i \in Instances \ {r}, t \in Tabs : ~cache[i][t].fresh
  BY DEF Apart
<1>7. ServedKnown'
  <2> SUFFICES ASSUME NEW t \in Tabs, NEW k \in served'[t]
               PROVE  /\ blob[t][k] # NoDoc
                      /\ cache[r][t].fresh => cache[r][t].mapping[k] # NoDoc
    BY <1>3, <1>6 DEF ServedKnown
  <2>1. CASE k \in served[t]
    BY <2>1 DEF ServedInv, ServedKnown
  <2>2. CASE t = p.tab /\ k = p.rows[n].key
    BY <1>5, <2>2
  <2> QED
    BY <1>4, <2>1, <2>2
<1>8. ASSUME NEW m \in p.todo \ {n}, p.rows[m].key \in served'[p.tab]
      PROVE  \E l \in 1..(m - 1) : p.rows[l].key = p.rows[m].key
  <2>1. CASE p.rows[m].key \in served[p.tab]
    BY <1>1, <1>3, <2>1 DEF ServedInv, Unserved, After
  <2>2. CASE p.rows[m].key = p.rows[n].key
    <3>1. n \in 1..(m - 1)
      BY <1>1, <1>2, <1>3 DEF IsNext
    <3> QED
      BY <2>2, <3>1
  <2> QED
    BY <1>4, <1>8, <2>1, <2>2
<1>9. Unserved(r)'
  <2>1. CASE run'[r].pc = "dispatch" /\ GoesOn(p, run'[r]) /\ run'[r].todo = p.todo \ {n}
    BY <1>8, <2>1 DEF Unserved, GoesOn, After
  <2>2. CASE run'[r].pc = "mark" /\ GoesOn(p, run'[r]) /\ run'[r].todo = p.todo
    <3>1. IsNext(r, n)'
      BY <1>1, <1>2, <2>2 DEF IsNext
    <3> QED
      BY <1>8, <2>2, <3>1 DEF Unserved, GoesOn, After
  <2> QED
    BY <1>2, <2>1, <2>2, LeavesUnserved
<1> QED
  BY <1>7, <1>9, ApartServed

LEMMA MarkServed ==
    ASSUME TypeInv, ServedInv, NEW r \in Instances, MarkDone(r), Apart(r)
    PROVE  ServedInv'
<1>1. PICK p \in Run : p = run[r]
  BY DEF TypeInv, TypeOK
<1>2. PICK n \in p.todo :
        /\ IsNext(r, n)
        /\ \/ Leaves(run'[r])
           \/ /\ run'[r].pc = "dispatch" /\ GoesOn(p, run'[r])
              /\ run'[r].todo = p.todo \ {n}
  BY <1>1, MarkDoneStep DEF TypeInv
<1>3. /\ p.pc = "mark" /\ blob' = blob /\ cache' = cache /\ served' = served
      /\ p.todo \subseteq Nat
  BY <1>1 DEF MarkDone, Run
<1>4. \A m \in p.todo \ {n} : ~IsNext(r, m)
  BY <1>1, <1>2, <1>3 DEF IsNext
<1>5. \A m \in p.todo \ {n} : After(p, m)
  BY <1>1, <1>3, <1>4 DEF ServedInv, Unserved
<1>6. Unserved(r)'
  BY <1>2, <1>3, <1>5, LeavesUnserved DEF Unserved, GoesOn, After
<1>7. ServedKnown'
  BY <1>3 DEF ServedInv, ServedKnown
<1> QED
  BY <1>6, <1>7, ApartServed

\* A step between tabs, which dispatches nothing, and a crash.
LEMMA IdlingServed ==
    ASSUME TypeOK, ServedInv, NEW r \in Instances,
           Start(r) \/ ReadTab(r) \/ FireDrain(r) \/ Crash(r)
    PROVE  ServedInv'
<1>1. blob' = blob /\ served' = served
  BY DEF Start, ReadTab, FireDrain, Crash
<1>2. Others(r)
  BY StepOthers DEF Step
<1>3. cache'[r] = cache[r] \/ \A t \in Tabs : ~cache'[r][t].fresh
  BY CrashEnds DEF Start, ReadTab, FireDrain
<1>4. ServedKnown'
  BY <1>1, <1>2, <1>3 DEF Others, ServedInv, ServedKnown
<1>5. Unserved(r)'
  BY LeavesStep, LeavesUnserved
<1>6. \A j \in Instances \ {r} : Unserved(j)'
  BY <1>1, <1>2 DEF Others, ServedInv, Unserved, After, IsNext
<1> QED
  BY <1>4, <1>5, <1>6 DEF ServedInv

LEMMA ServedInit == Init => ServedInv
<1> SUFFICES ASSUME Init PROVE ServedInv
  OBVIOUS
<1>1. \A r \in Instances : Unserved(r)
  BY DEF Init, Unserved, Idle
<1>2. ServedKnown
  BY DEF Init, ServedKnown, Unloaded
<1> QED
  BY <1>1, <1>2 DEF ServedInv

LEMMA ServedStep ==
    ASSUME "load" \notin FaultKinds
    PROVE  /\ TypeInv /\ OneAtATime /\ OneKnows /\ PreparedInv /\ ServedInv
           /\ [Next]_vars
           => ServedInv'
<1> SUFFICES ASSUME TypeInv, OneAtATime, OneKnows, PreparedInv, ServedInv, [Next]_vars
             PROVE  ServedInv'
  OBVIOUS
<1>0. TypeOK
  BY DEF TypeInv
<1>1. ASSUME NEW r \in Instances, Start(r) \/ ReadTab(r) \/ FireDrain(r) \/ Crash(r)
      PROVE  ServedInv'
  BY <1>0, <1>1, IdlingServed
<1>2. ASSUME NEW r \in Instances, Step(r) PROVE ServedInv'
  <2>1. Apart(r)
    BY <1>0, <1>2, StepOthers, StepRuns DEF Apart, Others, OneAtATime, OneKnows
  <2> QED
    BY <1>0, <1>1, <1>2, <2>1, LoadServed, SaveServed, DispatchServed, MarkServed DEF Step
<1>4. CASE /\ blob' = blob /\ served' = served /\ run' = run
           /\ \A r \in Instances, t \in Tabs : /\ cache'[r][t].mapping = cache[r][t].mapping
                                               /\ cache'[r][t].fresh => cache[r][t].fresh
  <2>1. ServedKnown'
    BY <1>4 DEF ServedInv, ServedKnown
  <2>2. \A r \in Instances : Unserved(r)'
    BY <1>4 DEF ServedInv, Unserved, After, IsNext
  <2> QED
    BY <2>1, <2>2 DEF ServedInv
<1>5. ASSUME NEW r \in Instances, NEW t \in Tabs, Expire(r, t) PROVE ServedInv'
  <2>1. \A i \in Instances, u \in Tabs : /\ cache'[i][u].mapping = cache[i][u].mapping
                                         /\ cache'[i][u].fresh => cache[i][u].fresh
    BY <1>0, <1>5 DEF Expire, TypeOK, Entry
  <2> QED
    BY <1>4, <1>5, <2>1 DEF Expire
<1>6. CASE Operator
  BY <1>4, <1>6 DEF Operator, AddRow, RemoveRow, SetDoc, SetFlag, Edit
<1>7. CASE (\E t \in Tabs : ServiceLoad(t) \/ ServiceExpire(t)) \/ UNCHANGED vars
  BY <1>4, <1>7 DEF ServiceLoad, ServiceExpire, vars
<1> QED
  BY <1>1, <1>2, <1>5, <1>6, <1>7 DEF Next

\* When runs do not overlap, the blob can be read, and no run comes to a container that
\* still trusts a mapping it cached before the last run of another, a key that was
\* dispatched is not dispatched by a later run before the operator took it out, however
\* the run ended: what process_slack_tab and process_gong_tab (src/config-sync/main.py)
\* take for new is not in the mapping, and the mapping is saved before the dispatch.
THEOREM SerialDispatchesOnce ==
    ASSUME "load" \notin FaultKinds, Pace = "spaced"
    PROVE  Spec => []DispatchedOnce
<1>1. Init => PreparedInv
  BY DEF Init, PreparedInv, Prepared, Idle
<1>2. ServedInv => DispatchedOnce
  BY DEF ServedInv, Unserved, After, DispatchedOnce
<1>3. TypeInv /\ OneAtATime /\ [Next]_vars => OneAtATime'
  BY OneAtATimeStep
<1>4. TypeInv /\ OneAtATime /\ OneKnows /\ [Next]_vars => OneKnows'
  BY OneKnowsStep
<1>5. /\ TypeInv /\ OneAtATime /\ OneKnows /\ PreparedInv /\ ServedInv
      /\ [Next]_vars
      => ServedInv'
  BY ServedStep
<1> QED
  BY <1>1, <1>2, <1>3, <1>4, <1>5, OneAtATimeInit, OneKnowsInit, PreparedStep, ServedInit,
     TypeCorrect, PTL DEF Spec
=============================================================================
