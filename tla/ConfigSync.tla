------------------------------ MODULE ConfigSync ------------------------------
(***************************************************************************)
(* The config-sync Cloud Function and what it acts upon: the onboarding    *)
(* sheet, which an operator edits meanwhile, the mapping blobs in GCS, and *)
(* the sync service behind each tab, which keeps the mapping cached.  A    *)
(* run treats the slack tab, then the gong tab, then fires the slack drain; *)
(* each remote call is a step.  Runs may overlap: the hourly trigger and a *)
(* trigger by hand reach different instances.                              *)
(*                                                                         *)
(* A mapping gives every key (channel id or email domain) its document-id  *)
(* cell; NoDoc is a blank cell in the sheet and an absent key in a mapping. *)
(***************************************************************************)
EXTENDS Integers, Sequences, SequencesExt

CONSTANTS
    Instances,   \* warm containers of config-sync
    Pace,        \* how runs follow one another; see Ready
    Keys,        \* channel ids, email domains
    Docs,        \* contents of a document-id cell
    NoDoc,       \* a blank cell
    FirstSheet,  \* the sheet at the start
    EditKinds,   \* what the operator does: "append", "insert", "remove",
                 \* "doc", "flag", "duplicate"
    FaultKinds,  \* which remote calls may fail
    MaxFaults,   \* bound: failures in a behaviour
    MaxEdits     \* bound: edits of the sheet

Tabs == {"slack", "gong"}

Row == [key : Keys, doc : Docs \cup {NoDoc}, done : {"", "Y", "N"}]

Mapping == [Keys -> Docs \cup {NoDoc}]

ASSUME DocAssumption == NoDoc \notin Docs

ASSUME PaceAssumption == Pace \in {"any", "serial", "spaced"}

ASSUME SheetAssumption == FirstSheet \in [Tabs -> Seq(Row)]

ASSUME BoundsAssumption == MaxFaults \in Nat /\ MaxEdits \in Nat

VARIABLES
    sheet,    \* Tabs -> rows, top to bottom
    blob,     \* Tabs -> the mapping blob
    run,      \* the run each instance is in
    cache,    \* gcs_mapping._cache of each instance of config-sync
    svc,      \* gcs_mapping._cache of the service behind each tab
    sent,     \* history: keys with a dispatch taken for accepted
    served,   \* history: keys dispatched since they were last published
    begun,    \* history: keys whose backfill found its mapping
    faults, edits   \* how much of each bound is spent

vars == <<sheet, blob, run, cache, svc, sent, served, begun, faults, edits>>

-----------------------------------------------------------------------------
(* Types *)

Run == [pc      : {"idle", "read", "load", "save", "dispatch", "mark", "drain"},
        tab     : Tabs,
        rows    : Seq(Row),       \* what read_tab returned
        mapping : Mapping,        \* new_mapping
        todo    : SUBSET Nat]     \* _row_index of the new rows not yet handled

Empty == [k \in Keys |-> NoDoc]

Idle == [pc |-> "idle", tab |-> "slack", rows |-> <<>>, mapping |-> Empty, todo |-> {}]

Entry == [mapping : Mapping, fresh : BOOLEAN]

Unloaded == [mapping |-> Empty, fresh |-> FALSE]

TypeOK ==
    /\ sheet \in [Tabs -> Seq(Row)]
    /\ blob \in [Tabs -> Mapping]
    /\ run \in [Instances -> Run]
    /\ cache \in [Instances -> [Tabs -> Entry]]
    /\ svc \in [Tabs -> Entry]
    /\ sent \in [Tabs -> SUBSET Keys]
    /\ served \in [Tabs -> SUBSET Keys]
    /\ begun \in [Tabs -> SUBSET Keys]
    /\ faults \in 0..MaxFaults
    /\ edits \in 0..MaxEdits

-----------------------------------------------------------------------------
(* What a run computes *)

Complete(row) == row.doc # NoDoc

\* The rows that give key k its mapping: flagged Y, or not flagged yet.
Listed(rows, k) ==
    {n \in DOMAIN rows : rows[n].key = k /\ Complete(rows[n]) /\ rows[n].done # "N"}

\* new_mapping: of several rows with one key the last counts.
Rebuild(rows) ==
    [k \in Keys |-> IF Listed(rows, k) = {} THEN NoDoc
                    ELSE rows[CHOOSE n \in Listed(rows, k) :
                                \A o \in Listed(rows, k) : o <= n].doc]

\* Mutant: new_channels is every row not flagged yet.
NewUnflagged(rows, current) ==
    {n \in DOMAIN rows : Complete(rows[n]) /\ rows[n].done = ""}

\* Mutant: the key is looked up in new_mapping.
NewUnlisted(rows, current) ==
    {n \in DOMAIN rows : /\ Complete(rows[n]) /\ rows[n].done = ""
                         /\ Rebuild(rows)[rows[n].key] = NoDoc}

\* new_channels, new_accounts: rows not flagged whose key has no mapping yet.
NewRows(rows, current) ==
    {n \in DOMAIN rows : /\ Complete(rows[n]) /\ rows[n].done = ""
                         /\ current[rows[n].key] = NoDoc}

\* Mutant: the mappings are compared by their keys.
KeysDiffer(new, current) == \E k \in Keys : (new[k] = NoDoc) # (current[k] = NoDoc)

\* new_mapping != current_mapping
Differ(new, current) == new # current

\* The new row the loop is at.
IsNext(r, n) == n \in run[r].todo /\ \A o \in run[r].todo : n <= o

\* The tab is done: on to the next one, or to the drain.
AfterTab(tab) ==
    IF tab = "slack" THEN [Idle EXCEPT !.pc = "read", !.tab = "gong"]
    ELSE [Idle EXCEPT !.pc = "drain", !.tab = "gong"]

\* The loop over new rows, or what follows it.
Proceed(q) == IF q.todo = {} THEN AfterTab(q.tab) ELSE [q EXCEPT !.pc = "dispatch"]

NextRow(q, n) == Proceed([q EXCEPT !.todo = @ \ {n}])

\* Mutant: a row is marked whatever became of its dispatch.
AfterErrorMark(q, n) == [q EXCEPT !.pc = "mark"]

\* A dispatch that raised leaves the row's cell blank.
AfterError(q, n) == NextRow(q, n)

\* Mutant: the status of the dispatch is written.
MarkStatus == "dispatched"

Mark == "Y"

Become(r, q) == run' = [run EXCEPT ![r] = q]

\* A call of kind k fails: possible only where the run's FaultKinds allow it.
Fault(k) ==
    /\ k \in FaultKinds
    /\ faults < MaxFaults
    /\ faults' = faults + 1

-----------------------------------------------------------------------------
(* Runs *)

Flagged(rows) == {rows[n].key : n \in {m \in DOMAIN rows : rows[m].done = "Y"}}

\* Rows flagged Y at the start were onboarded by earlier runs.
Init ==
    /\ sheet = FirstSheet
    /\ blob = [t \in Tabs |-> [k \in Keys |-> IF k \in Flagged(FirstSheet[t])
                                              THEN Rebuild(FirstSheet[t])[k] ELSE NoDoc]]
    /\ run = [r \in Instances |-> Idle]
    /\ cache = [r \in Instances |-> [t \in Tabs |-> Unloaded]]
    /\ svc = [t \in Tabs |-> Unloaded]
    /\ sent = [t \in Tabs |-> Flagged(FirstSheet[t])]
    /\ served = [t \in Tabs |-> {k \in sent[t] : blob[t][k] # NoDoc}]
    /\ begun = sent
    /\ faults = 0
    /\ edits = 0

\* Instance r may take a trigger.  At any pace it may while others run.  Of serial
\* runs one is over before the next starts, in whichever container.  Spaced ones go
\* in addition to the container of the one before, or come when the mappings that
\* other containers cached have aged: the hourly trigger, against 5 minutes.
Ready(r) ==
    /\ run[r].pc = "idle"
    /\ Pace # "any" => \A o \in Instances : run[o].pc = "idle"
    /\ Pace = "spaced" => \A o \in Instances \ {r}, t \in Tabs : ~cache[o][t].fresh

Start(r) ==
    /\ Ready(r)
    /\ Become(r, [Idle EXCEPT !.pc = "read"])
    /\ UNCHANGED <<sheet, blob, cache, svc, sent, served, begun, faults, edits>>

\* Mutant: a tab without rows ends the run.
ReadTabOrEnd(r) ==
    /\ run[r].pc = "read"
    /\ LET q == run[r]
       IN  Become(r, IF sheet[q.tab] = <<>> THEN Idle
                     ELSE [q EXCEPT !.pc = "load", !.rows = sheet[q.tab]])
    /\ UNCHANGED <<sheet, blob, cache, svc, sent, served, begun, faults, edits>>

\* read_tab.  A tab without rows is passed over, its mapping untouched; an
\* exception is caught nowhere and ends the run.
ReadTab(r) ==
    /\ run[r].pc = "read"
    /\ LET q == run[r]
       IN  \/ /\ Become(r, IF sheet[q.tab] = <<>> THEN AfterTab(q.tab)
                           ELSE [q EXCEPT !.pc = "load", !.rows = sheet[q.tab]])
              /\ UNCHANGED faults
           \/ Fault("sheet") /\ Become(r, Idle)
    /\ UNCHANGED <<sheet, blob, cache, svc, sent, served, begun, edits>>

\* load_mapping: the cached mapping while it is fresh, else the blob, else (on a
\* failed read) the stale cache or the empty mapping.
LoadMapping(r, t, current) ==
    \/ /\ cache[r][t].fresh
       /\ current = cache[r][t].mapping
       /\ UNCHANGED <<cache, faults>>
    \/ /\ ~cache[r][t].fresh
       /\ current = blob[t]
       /\ cache' = [cache EXCEPT ![r][t] = [mapping |-> blob[t], fresh |-> TRUE]]
       /\ UNCHANGED faults
    \/ /\ ~cache[r][t].fresh
       /\ Fault("load")
       /\ current = cache[r][t].mapping
       /\ UNCHANGED cache

\* The current mapping is loaded; the new one and the new rows follow from it.
Load(r) ==
    /\ run[r].pc = "load"
    /\ \E current \in {cache[r][run[r].tab].mapping, blob[run[r].tab]} :
         /\ LoadMapping(r, run[r].tab, current)
         /\ LET q == [run[r] EXCEPT !.mapping = Rebuild(run[r].rows),
                                    !.todo = NewRows(run[r].rows, current)]
            IN  Become(r, IF Differ(q.mapping, current) THEN [q EXCEPT !.pc = "save"]
                          ELSE Proceed(q))
    /\ UNCHANGED <<sheet, blob, svc, sent, served, begun, edits>>

\* The upload: a key that the new mapping drops is unpublished.
Publish(t, mapping) ==
    /\ blob' = [blob EXCEPT ![t] = mapping]
    /\ served' = [served EXCEPT ![t] = {k \in @ : mapping[k] # NoDoc}]

\* Mutant: a failing upload is printed and the run goes on.
SaveOrGoOn(r) ==
    /\ run[r].pc = "save"
    /\ LET q == run[r]
       IN  \/ /\ Publish(q.tab, q.mapping)
              /\ cache' = [cache EXCEPT ![r][q.tab] = [mapping |-> q.mapping, fresh |-> TRUE]]
              /\ Become(r, Proceed(q))
              /\ UNCHANGED faults
           \/ /\ Fault("save")
              /\ Become(r, Proceed(q))
              /\ UNCHANGED <<blob, served, cache>>
    /\ UNCHANGED <<sheet, svc, sent, begun, edits>>

\* save_mapping, before anything is dispatched.  An upload that raises, whether
\* or not it took effect, ends the run.
Save(r) ==
    /\ run[r].pc = "save"
    /\ LET q == run[r]
       IN  \/ /\ Publish(q.tab, q.mapping)
              /\ cache' = [cache EXCEPT ![r][q.tab] = [mapping |-> q.mapping, fresh |-> TRUE]]
              /\ Become(r, Proceed(q))
              /\ UNCHANGED faults
           \/ /\ \/ Fault("save") /\ UNCHANGED <<blob, served>>
                 \/ Fault("saveReply") /\ Publish(q.tab, q.mapping)
              /\ Become(r, Idle)
              /\ UNCHANGED cache
    /\ UNCHANGED <<sheet, svc, sent, begun, edits>>

\* The service takes the backfill of key k: it looks k up in its own cached
\* mapping, and answers 404 or an error result if k is not there.
Arrive(t, k) ==
    LET known == IF svc[t].fresh THEN svc[t].mapping ELSE blob[t]
    IN  /\ svc' = [svc EXCEPT ![t] = [mapping |-> known, fresh |-> TRUE]]
        /\ begun' = IF known[k] = NoDoc THEN begun ELSE [begun EXCEPT ![t] = @ \cup {k}]

\* _dispatch.  Any response and any timeout, of the connection too, counts as
\* dispatched; any other exception, before or after the request got through,
\* as an error.
Dispatch(r) ==
    /\ run[r].pc = "dispatch"
    /\ \E n \in run[r].todo :
         LET q == run[r]
             t == q.tab
             k == q.rows[n].key
         IN  /\ IsNext(r, n)
             /\ \/ /\ \/ Arrive(t, k) /\ UNCHANGED faults
                      \/ Fault("lost") /\ UNCHANGED <<svc, begun>>
                   /\ sent' = [sent EXCEPT ![t] = @ \cup {k}]
                   /\ Become(r, [q EXCEPT !.pc = "mark"])
                \/ /\ Fault("connection")
                   /\ Arrive(t, k) \/ UNCHANGED <<svc, begun>>
                   /\ UNCHANGED sent
                   /\ Become(r, AfterError(q, n))
             /\ served' = [served EXCEPT ![t] = @ \cup {k}]
    /\ UNCHANGED <<sheet, blob, cache, edits>>

\* write_cell at the row number read at the start of the tab.  A failure is only
\* printed; a row number past the last row fills a cell no key belongs to.
MarkDone(r) ==
    /\ run[r].pc = "mark"
    /\ \E n \in run[r].todo :
         /\ IsNext(r, n)
         /\ \/ sheet' = [sheet EXCEPT ![run[r].tab] =
                           [m \in DOMAIN @ |-> IF m = n THEN [@[m] EXCEPT !.done = Mark]
                                               ELSE @[m]]]
               /\ UNCHANGED faults
            \/ Fault("mark") /\ UNCHANGED sheet
         /\ Become(r, NextRow(run[r], n))
    /\ UNCHANGED <<blob, cache, svc, sent, served, begun, edits>>

\* fire_slack_drain, whose outcome changes nothing here.
FireDrain(r) ==
    /\ run[r].pc = "drain"
    /\ Become(r, Idle)
    /\ UNCHANGED <<sheet, blob, cache, svc, sent, served, begun, faults, edits>>

\* The instance is killed: only its memory is lost.
Crash(r) ==
    /\ Fault("crash")
    /\ Become(r, Idle)
    /\ cache' = [cache EXCEPT ![r] = [t \in Tabs |-> Unloaded]]
    /\ UNCHANGED <<sheet, blob, svc, sent, served, begun, edits>>

\* CACHE_TTL_SECONDS pass since the instance loaded or saved the mapping.
Expire(r, t) ==
    /\ cache[r][t].fresh
    /\ cache' = [cache EXCEPT ![r][t].fresh = FALSE]
    /\ UNCHANGED <<sheet, blob, run, svc, sent, served, begun, faults, edits>>

-----------------------------------------------------------------------------
(* The services and the operator *)

\* Another request of the service loads the mapping.
ServiceLoad(t) ==
    /\ ~svc[t].fresh
    /\ svc' = [svc EXCEPT ![t] = [mapping |-> blob[t], fresh |-> TRUE]]
    /\ UNCHANGED <<sheet, blob, run, cache, sent, served, begun, faults, edits>>

\* What it cached has aged; its next request loads the mapping anew.
ServiceExpire(t) ==
    /\ svc[t].fresh
    /\ svc' = [svc EXCEPT ![t] = Unloaded]
    /\ UNCHANGED <<sheet, blob, run, cache, sent, served, begun, faults, edits>>

\* The operator changes the tab's rows.
Edit(kind, t, rows) ==
    /\ kind \in EditKinds
    /\ edits < MaxEdits
    /\ edits' = edits + 1
    /\ rows # sheet[t]
    /\ sheet' = [sheet EXCEPT ![t] = rows]
    /\ UNCHANGED <<blob, run, cache, svc, sent, served, begun, faults>>

\* A new customer's row, its cell "Config done" blank.
AddRow(t, k, d) ==
    /\ "duplicate" \in EditKinds \/ \A n \in DOMAIN sheet[t] : sheet[t][n].key # k
    /\ LET row == [key |-> k, doc |-> d, done |-> ""]
       IN  \/ Edit("append", t, Append(sheet[t], row))
           \/ Edit("insert", t, <<row>> \o sheet[t])

RemoveRow(t, n) == Edit("remove", t, RemoveAt(sheet[t], n))

SetDoc(t, n, d) == Edit("doc", t, [sheet[t] EXCEPT ![n].doc = d])

\* The operator blanks the cell or takes the customer out; only config-sync
\* writes Y.
SetFlag(t, n, f) == f # "Y" /\ Edit("flag", t, [sheet[t] EXCEPT ![n].done = f])

-----------------------------------------------------------------------------
(* The specification *)

Step(r) ==
    \/ ReadTab(r) \/ Load(r) \/ Save(r)
    \/ Dispatch(r) \/ MarkDone(r) \/ FireDrain(r)

Operator ==
    \E t \in Tabs :
      \/ \E k \in Keys, d \in Docs \cup {NoDoc} : AddRow(t, k, d)
      \/ \E n \in DOMAIN sheet[t] :
           \/ RemoveRow(t, n)
           \/ \E d \in Docs \cup {NoDoc} : SetDoc(t, n, d)
           \/ \E f \in {"", "N"} : SetFlag(t, n, f)

Next ==
    \/ \E r \in Instances :
         \/ Start(r) \/ Step(r) \/ Crash(r)
         \/ \E t \in Tabs : Expire(r, t)
    \/ \E t \in Tabs : ServiceLoad(t) \/ ServiceExpire(t)
    \/ Operator

Spec == Init /\ [][Next]_vars

\* A run that began goes on, the hourly trigger reaches some instance, and cached
\* mappings age.  Nothing is assumed of the operator, of failures or of crashes.
Fairness ==
    /\ \A r \in Instances : WF_vars(Step(r))
    /\ \A r \in Instances, t \in Tabs : WF_vars(Expire(r, t))
    /\ WF_vars(\E r \in Instances : Start(r))

FairSpec == Spec /\ Fairness

-----------------------------------------------------------------------------
(* Properties *)

\* "Y" means that a backfill of this row's key was dispatched, even when runs
\* overlap, calls fail and instances crash, as long as no edit moves a row.
DoneWasDispatched ==
    \A t \in Tabs : \A n \in DOMAIN sheet[t] :
        sheet[t][n].done = "Y" => sheet[t][n].key \in sent[t]

\* A key is in the blob by the time its backfill is dispatched, so that the
\* service can find it.  Runs do not overlap, but any container may serve the next
\* one, with a mapping cached before the last.
PublishedFirst ==
    \A r \in Instances :
        run[r].pc = "dispatch" =>
            \A n \in run[r].todo : blob[run[r].tab][run[r].rows[n].key] # NoDoc

\* However a run ends (killed, upload failed, cell not written), no later run
\* dispatches the same key again before the operator took it out.  Runs do not
\* overlap, the blob can be read, and a run in another container than the last comes
\* when its cached mapping has aged (Ready, "spaced"): with an older one it would take
\* a key whose cell was not written for new.  A key with several rows is dispatched by
\* each that was new to the same run.
DispatchedOnce ==
    \A r \in Instances :
        LET q == run[r]
        IN  q.pc = "dispatch" =>
              \A n \in q.todo :
                  q.rows[n].key \in served[q.tab] =>
                      \E m \in 1..(n - 1) : q.rows[m].key = q.rows[n].key

\* Once the operator stops, the blobs come to hold what the sheet says and keep
\* it, whatever run read or cached an older state; a tab without rows excepted.
MappingFollowsSheet ==
    <>[](\A t \in Tabs : sheet[t] # <<>> => blob[t] = Rebuild(sheet[t]))

\* The slack drain is fired again and again: the fairness SlackSync assumes.
DrainKeepsComing == []<>(\E r \in Instances : run[r].pc = "drain")

Awaits(t, k) ==
    \E n \in DOMAIN sheet[t] :
        sheet[t][n].key = k /\ Complete(sheet[t][n]) /\ sheet[t][n].done = ""

\* The operator stopped, and nothing fails any more.
Settled == edits = MaxEdits /\ faults = MaxFaults

\* No blob and no cached mapping of config-sync has the key, and nothing runs.
Unknown(t, k) ==
    /\ blob[t][k] = NoDoc
    /\ \A r \in Instances : run[r].pc = "idle" /\ cache[r][t].mapping[k] = NoDoc

\* Once things have settled, a complete new row whose key is not known yet is
\* eventually marked Y, whatever failed before and however runs overlap.
Onboarded ==
    \A t \in Tabs, k \in Keys : Settled /\ Unknown(t, k) /\ Awaits(t, k) ~> ~Awaits(t, k)

\* "re-trigger config-sync once the underlying issue is fixed": a row that is still
\* blank when failures are over is marked by a later run.
Retriggered == \A t \in Tabs, k \in Keys : Settled /\ Awaits(t, k) ~> ~Awaits(t, k)

\* "onboarding always captures the full history": a key marked Y had a backfill
\* that found its mapping.
DoneWasBackfilled ==
    \A t \in Tabs : \A n \in DOMAIN sheet[t] :
        sheet[t][n].done = "Y" => sheet[t][n].key \in begun[t]
=============================================================================
