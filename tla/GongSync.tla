------------------------------ MODULE GongSync ------------------------------
(***************************************************************************)
(* The gong-sync Cloud Function with the shared helpers it calls.  The     *)
(* hourly trigger is served by one instance, ?full_backfill requests by    *)
(* others; they overlap, share the docs, the GCS buffer and the sheet, and *)
(* lock nothing.  Every run drains the buffered calls of every customer,   *)
(* then lists calls and appends or buffers each, then writes the dates of  *)
(* the first and last call of every row, over one text cache per run.      *)
(* Every remote call is a step; what a run computes between two of them    *)
(* belongs to the step before or after.                                    *)
(*                                                                         *)
(* Labels (mapping keys, account ids, company names, email domains) are    *)
(* numbers, 0 for none; customers are the labels that may be mapping keys, *)
(* in the order sorted() gives them.  A call is a number too; Gong lists   *)
(* calls in the order of their numbers.  Its block has Chars characters    *)
(* and Size bytes in UTF-8, and begins with a header: the title line, some *)
(* way into it, and the date line at its end.                              *)
(***************************************************************************)
EXTENDS Integers, Sequences, SequencesExt, Texts

CONSTANTS
    Instances,    \* warm containers of the function
    Hourly,       \* the one that serves the hourly trigger
    Labels,       \* mapping keys, CRM account ids, names, email domains
    Customers,    \* labels that are rows of the sheet
    Lower,        \* Lower[l]: label l in lower case
    Calls,        \* Gong calls
    Generic,      \* gmail.com and the like
    Crm,          \* Crm[c]: the Account objects in the context of call c
    Parties,      \* Parties[c]: its participants
    Title,        \* a call's title, a sequence of words
    Date,         \* the minute it started, as formatted; 0 if Gong has none
    Hour,         \* the hour it started
    Size,         \* bytes of its block
    Chars,        \* its length as the Docs API counts it
    TitleAt,      \* where in it the title line stands: first and last character
    DateAt,       \* and where the date
    RuleAt,       \* the last character of the separator line above the title
    DocIds,       \* Google Docs
    Cap,          \* DOC_CAP_BYTES
    Window,       \* the hours argument, 2 by default
    PageSize,     \* calls in one answer of the Gong API
    BatchSize,    \* calls whose details are asked for at once
    Routes,       \* Routes[k]: doc lists the row of k may hold; <<>>: no mapping
    FirstLists,   \* the list of each row at the start
    FirstRows,    \* the keys in the gong tab, top to bottom, at the start
    EditKinds,    \* what the operator does to the sheet: "list", "sort"
    FaultKinds,   \* which remote calls may fail
    MaxFaults,    \* bound: failures in a behaviour
    MaxBackfills, \* bound: full backfills
    MaxEdits,     \* bound: edits of the sheet
    MaxHour       \* bound: the clock stops here, the hourly trigger does not

Lists == [Customers -> Seq(DocIds)]

ASSUME LabelsAssumption ==
    /\ Labels \subseteq Nat /\ 0 \in Labels
    /\ Customers \subseteq Labels \ {0}
    /\ Lower \in [Labels -> Labels]
    /\ Crm \in [Calls -> Seq([id : Labels, name : Labels])]
    /\ Parties \in [Calls -> Seq([external : BOOLEAN, company : Labels, domain : Labels])]

ASSUME CallsAssumption ==
    /\ Calls \subseteq Nat
    /\ Title \in [Calls -> Seq(STRING)]
    /\ Date \in [Calls -> Nat]
    /\ Hour \in [Calls -> Nat]
    /\ Size \in [Calls -> Nat]
    /\ Chars \in [Calls -> Nat]
    /\ TitleAt \in [Calls -> Nat \X Nat]
    /\ DateAt \in [Calls -> Nat \X Nat]
    /\ \A c \in Calls :
          /\ 1 <= TitleAt[c][1] /\ TitleAt[c][1] <= TitleAt[c][2]
          /\ TitleAt[c][2] < DateAt[c][1] /\ DateAt[c][1] <= DateAt[c][2]
          /\ DateAt[c][2] <= Chars[c]
    /\ Cap \in Nat

ASSUME RuleAssumption ==
    /\ RuleAt \in [Calls -> Nat]
    /\ \A c \in Calls : 1 <= RuleAt[c] /\ RuleAt[c] <= TitleAt[c][1]

ASSUME ListsAssumption ==
    /\ Routes \in [Customers -> SUBSET Seq(DocIds)]
    /\ FirstLists \in Lists /\ \A k \in Customers : FirstLists[k] \in Routes[k]
    /\ FirstRows \in Seq(Customers)

ASSUME BoundsAssumption ==
    /\ Hourly \in Instances
    /\ MaxFaults \in Nat /\ MaxBackfills \in Nat /\ MaxEdits \in Nat
    /\ MaxHour \in Nat /\ Window \in Nat /\ PageSize \in Nat \ {0}
    /\ BatchSize \in Nat \ {0}
    /\ \A c \in Calls : Hour[c] + Window <= MaxHour

VARIABLES
    docs,      \* DocIds -> its text and the bytes of that
    lists,     \* Customers -> the row's doc list, as published
    rows,      \* the gong tab: key and the two date cells of each row
    pending,   \* pending-calls/<customer>/: a set of keyed blobs
    ticket,    \* blobs written so far; the milliseconds in their names
    run,       \* the run each instance is in
    mapCache,  \* gcs_mapping._cache of each instance
    hour, due, \* the clock; the hour's trigger is still to come
    faults, backfills, edits,   \* how much of each bound is spent
    accepted,  \* history: calls ever buffered
    reported   \* history: customers reported doc_full this hour, current list

store == <<docs, pending, ticket, accepted>>
sheet == <<lists, rows, edits>>
clock == <<hour, due, backfills>>
vars  == <<store, sheet, clock, run, mapCache, faults, reported>>

-----------------------------------------------------------------------------
(* Types *)

Item == [at : Nat, cust : Labels, call : Calls]    \* a listed call has at = 0

Doc == [text : Seq(Calls \X Nat), bytes : Nat]

Marks == Calls \X {"title", "date"}   \* what the dedup finds of a call in a text

Row == [key : Customers, first : Nat, last : Nat]

Run == [pc      : {"idle", "plan", "seed", "items", "drain", "insert", "delete",
                   "fetch", "details", "route", "call", "alert",
                   "sheet", "dates", "write"},
        filter   : Labels,               \* the account argument
        draining : BOOLEAN,              \* in _drain_pending
        parts    : SUBSET Customers,     \* partitions left to drain
        map      : Lists,                \* the mapping the drain loaded
        cust     : Labels,               \* domain_key
        route    : Seq(DocIds),          \* doc_ids
        seeded   : SUBSET Customers,     \* keys of customer_text_cache
        seen     : [Customers -> SUBSET Marks],   \* titles and dates in its texts
        bytes    : [Customers -> Nat],            \* their lengths
        nread    : Nat,                  \* docs of the list read so far
        todo     : SUBSET Item,          \* items or calls left in the loop
        end      : Nat,                  \* end_index
        alerted  : SUBSET Customers,     \* alerted_customers
        left     : SUBSET (Nat \X DocIds), \* row and doc yet to read for dates
        found    : Seq(SUBSET Nat)]      \* dates found for each row

NoLists == [k \in Customers |-> <<>>]

Idle == [pc |-> "idle", filter |-> 0, draining |-> FALSE, parts |-> {},
         map |-> NoLists, cust |-> 0, route |-> <<>>, seeded |-> {},
         seen |-> [k \in Customers |-> {}], bytes |-> [k \in Customers |-> 0],
         nread |-> 0, todo |-> {}, end |-> 0, alerted |-> {},
         left |-> {}, found |-> <<>>]

MapEntry == [lists : Lists, fresh : BOOLEAN]

Unloaded == [lists |-> NoLists, fresh |-> FALSE]

TypeOK ==
    /\ docs \in [DocIds -> Doc]
    /\ lists \in Lists
    /\ rows \in Seq(Row)
    /\ pending \subseteq [at : Nat, cust : Customers, call : Calls]
    /\ ticket \in Nat
    /\ run \in [Instances -> Run]
    /\ mapCache \in [Instances -> MapEntry]
    /\ hour \in 0..MaxHour
    /\ due \in BOOLEAN
    /\ faults \in 0..MaxFaults
    /\ backfills \in 0..MaxBackfills
    /\ edits \in 0..MaxEdits
    /\ accepted \subseteq Calls
    /\ reported \subseteq Customers

Init ==
    /\ docs = [d \in DocIds |-> [text |-> <<>>, bytes |-> 0]]
    /\ lists = FirstLists
    /\ rows = [n \in DOMAIN FirstRows |-> [key |-> FirstRows[n], first |-> 0, last |-> 0]]
    /\ pending = {}
    /\ ticket = 0
    /\ run = [i \in Instances |-> Idle]
    /\ mapCache = [i \in Instances |-> Unloaded]
    /\ hour = 0
    /\ due = TRUE
    /\ faults = 0
    /\ backfills = 0
    /\ edits = 0
    /\ accepted = {}
    /\ reported = {}
-----------------------------------------------------------------------------
(* Which account, which doc, which call *)

\* get_account_info_from_call: the first CRM account with an id, else the company,
\* or a domain of its own, of the first external participant that has either.
Account ==
    [c \in Calls |->
        LET accounts == {n \in DOMAIN Crm[c] : Crm[c][n].id # 0}
            guests == {n \in DOMAIN Parties[c] :
                         /\ Parties[c][n].external
                         /\ \/ Parties[c][n].company # 0
                            \/ Parties[c][n].domain \notin Generic \cup {0}}
        IN  IF accounts # {} THEN Crm[c][Min(accounts)]
            ELSE IF guests = {} THEN [id |-> 0, name |-> 0]
            ELSE LET p == Parties[c][Min(guests)]
                     l == IF p.company # 0 THEN p.company ELSE p.domain
                 IN  [id |-> l, name |-> l]]

Id(c) == Account[c].id

Name(c) == Account[c].name

Mapped(m) == {k \in Customers : m[k] # <<>>}

\* Keys that equal the account's name but for case.
SameName(m, c) ==
    {k \in Mapped(m) : Name(c) # 0 /\ Lower[k] = Lower[Name(c)]}

\* Mutant: a call nobody claims goes to whichever customer comes first.
FindAny(m, c) ==
    IF Id(c) \in Mapped(m) THEN Id(c)
    ELSE IF Mapped(m) # {} THEN Min(Mapped(m))
    ELSE 0

\* find_mapping_for_account: by id, by name, by name without case; 0 if unmapped.
Find(m, c) ==
    IF Id(c) \in Mapped(m) THEN Id(c)
    ELSE IF Name(c) \in Mapped(m) THEN Name(c)
    ELSE IF SameName(m, c) # {} THEN CHOOSE k \in SameName(m, c) : TRUE
    ELSE 0

\* The call has an account and passes the account filter of the request.
Selected(filter, c) ==
    /\ {Id(c), Name(c)} # {0}
    /\ \/ filter = 0
       \/ \E l \in {Id(c), Name(c)} \ {0} : Lower[l] = Lower[filter]

\* Mutant: the look-back is the cadence.
InWindowOneHour(c) == Hour[c] = hour

\* get_calls_since: the calls started in the last Window hours.
InWindow(c) == hour - Window < Hour[c] /\ Hour[c] <= hour

\* The calls whose block is in a text, in one piece or not.
Written(text) == {c \in Calls : Holds(text, c, Chars[c])}

\* The title lines and the dates that a search of the text finds.
Legible(text) ==
    {x \in Marks : LET at == IF x[2] = "title" THEN TitleAt[x[1]] ELSE DateAt[x[1]]
                   IN  Shows(text, x[1], at[1], at[2])}

\* Mutant: only the tail doc is searched for title and date.
IsDupInTail(q, c) ==
    /\ Date[c] # 0
    /\ \E x \in q.seen[q.cust] \cap Legible(docs[Last(q.route)].text) :
         x[2] = "date" /\ Date[x[1]] = Date[c]

\* dedup_key in existing_text and dedup_date in existing_text: the title is
\* found at the start of a title, the date anywhere.
IsDup(q, c) ==
    /\ Date[c] # 0
    /\ \E x \in q.seen[q.cust] : x[2] = "title" /\ IsPrefix(Title[c], Title[x[1]])
    /\ \E x \in q.seen[q.cust] : x[2] = "date" /\ Date[x[1]] = Date[c]

\* append_to_doc's test on the cached text of the customer.
IsFull(q, c) == q.bytes[q.cust] + Size[c] > Cap

Target(q) == Last(q.route)

-----------------------------------------------------------------------------
(* Helpers *)

\* A call of kind k fails: possible only where the run's FaultKinds allow it.
Fault(k) ==
    /\ k \in FaultKinds
    /\ faults < MaxFaults
    /\ faults' = faults + 1

Become(i, q) == run' = [run EXCEPT ![i] = q]

\* The item the loop is at: blobs in name order, listed calls as Gong gave them.
Current(q, p) ==
    /\ p \in q.todo
    /\ \A o \in q.todo \ {p} : p.at < o.at \/ (p.at = o.at /\ p.call < o.call)

\* insertText at an index measured earlier: before whatever came later, or inside a
\* block of it.
Write(d, end, c) ==
    docs' = [docs EXCEPT ![d] = [text  |-> Spliced(@.text, end, Block(c, Chars[c])),
                                 bytes |-> @.bytes + Size[c]]]

\* Mutant: the name of the blob lacks the millisecond.
EnqueueUnkeyed(k, c) ==
    /\ pending' = pending \cup {[cust |-> k, call |-> c]}
    /\ accepted' = accepted \cup {c}
    /\ UNCHANGED ticket

\* pending.enqueue, in a millisecond of its own.  Nothing here depends on the order in
\* which blobs appear, so that name and upload are one step.
Enqueue(k, c) ==
    /\ pending' = pending \cup {[at |-> ticket + 1, cust |-> k, call |-> c]}
    /\ ticket' = ticket + 1
    /\ accepted' = accepted \cup {c}

\* send_doc_full_alert: once per customer and run, naming the list in hand.
LogDocFull(q) ==
    reported' = IF q.cust \notin q.alerted /\ q.route = lists[q.cust]
                THEN reported \cup {q.cust} ELSE reported

Alerted(q) == [q EXCEPT !.alerted = @ \cup {q.cust}]

\* load_mapping: the cached blob while it is fresh, else the blob, else (on a
\* failed read) the stale cache or the empty mapping.
LoadMapping(i, m) ==
    \/ /\ mapCache[i].fresh
       /\ m = mapCache[i].lists
       /\ UNCHANGED <<mapCache, faults>>
    \/ /\ ~mapCache[i].fresh
       /\ m = lists
       /\ mapCache' = [mapCache EXCEPT ![i] = [lists |-> lists, fresh |-> TRUE]]
       /\ UNCHANGED faults
    \/ /\ ~mapCache[i].fresh
       /\ Fault("mapping")
       /\ m = mapCache[i].lists
       /\ UNCHANGED mapCache

\* The loop over partitions goes on, or the drain is done.
NextPartition(q) ==
    IF q.parts = {}
    THEN [q EXCEPT !.pc = "fetch", !.draining = FALSE, !.map = NoLists,
                   !.cust = 0, !.route = <<>>, !.todo = {}]
    ELSE LET k == Min(q.parts)
         IN  [q EXCEPT !.pc = "seed", !.parts = @ \ {k}, !.cust = k,
                       !.route = q.map[k], !.todo = {}]

\* The loop over a partition's blobs, or what follows it.
LoopItems(q) == IF q.todo = {} THEN NextPartition(q) ELSE [q EXCEPT !.pc = "drain"]

\* The loop over listed calls; process_calls is done when none is left.
LoopCalls(q) ==
    IF q.todo = {} THEN [Idle EXCEPT !.pc = "sheet"]
    ELSE [q EXCEPT !.pc = "route", !.cust = 0, !.route = <<>>]

\* The loop is done with item p.
Past(q, p) ==
    LET rest == [q EXCEPT !.todo = @ \ {p}]
    IN  IF q.draining THEN LoopItems(rest) ELSE LoopCalls(rest)

MarksOf(c) == {<<c, "title">>, <<c, "date">>}

\* Mutant: the cap test keeps the bytes that were read.
CachedUncounted(q, c) == [q EXCEPT !.seen[q.cust] = @ \cup MarksOf(c)]

\* customer_text_cache gets the block.
Cached(q, c) ==
    [q EXCEPT !.seen[q.cust] = @ \cup MarksOf(c), !.bytes[q.cust] = @ + Size[c]]

-----------------------------------------------------------------------------
(* A run starts, and drains *)

\* gong_sync up to list_partitions; when that raises, the drain is skipped.
Begin(i, filter) ==
    LET parts == {p.cust : p \in pending}
        begun == [Idle EXCEPT !.filter = filter]
    IN  \/ /\ Become(i, IF parts = {} THEN [begun EXCEPT !.pc = "fetch"]
                        ELSE [begun EXCEPT !.pc = "plan", !.draining = TRUE, !.parts = parts])
           /\ UNCHANGED faults
        \/ /\ Fault("partitions")
           /\ Become(i, [begun EXCEPT !.pc = "fetch"])

StartHourly ==
    /\ due
    /\ run[Hourly].pc = "idle"
    /\ due' = FALSE
    /\ Begin(Hourly, 0)
    /\ UNCHANGED <<store, sheet, hour, backfills, mapCache, reported>>

\* ?full_backfill=true&account=<k>, from config-sync or an operator.
StartBackfill(i, k) ==
    /\ i # Hourly
    /\ run[i].pc = "idle"
    /\ backfills < MaxBackfills
    /\ backfills' = backfills + 1
    /\ Begin(i, k)
    /\ UNCHANGED <<store, sheet, hour, due, mapCache, reported>>

\* The drain's one load_mapping; partitions without a mapping are left alone.
Plan(i) ==
    /\ run[i].pc = "plan"
    /\ \E m \in {lists, mapCache[i].lists} :
         /\ LoadMapping(i, m)
         /\ Become(i, NextPartition([run[i] EXCEPT !.map = m, !.parts = @ \cap Mapped(m)]))
    /\ UNCHANGED <<store, sheet, clock, reported>>

\* _seed_customer_cache, one doc a step; an unreadable doc counts as empty.
Seed(i) ==
    /\ run[i].pc = "seed"
    /\ LET q    == run[i]
           doc  == docs[q.route[q.nread + 1]]
           last == q.nread + 1 = Len(q.route)
           Got(marks, bytes) ==
             Become(i, [q EXCEPT !.seen[q.cust] = @ \cup marks,
                                 !.bytes[q.cust] = @ + bytes,
                                 !.seeded = IF last THEN @ \cup {q.cust} ELSE @,
                                 !.nread = IF last THEN 0 ELSE @ + 1,
                                 !.pc = IF ~last THEN "seed"
                                        ELSE IF q.draining THEN "items" ELSE "call"])
       IN  \/ Got(Legible(doc.text), doc.bytes) /\ UNCHANGED faults
           \/ Got({}, 0) /\ Fault("read")
    /\ UNCHANGED <<store, sheet, clock, mapCache, reported>>

\* pending.drain lists the partition before the first item.  Nothing catches an
\* error here: the run ends.
ListItems(i) ==
    /\ run[i].pc = "items"
    /\ LET mine == {p \in pending : p.cust = run[i].cust}
       IN  \/ Become(i, LoopItems([run[i] EXCEPT !.todo = mine])) /\ UNCHANGED faults
           \/ Become(i, Idle) /\ Fault("items")
    /\ UNCHANGED <<store, sheet, clock, mapCache, reported>>

\* A blob that another run deleted, or that cannot be downloaded, is skipped.
SkipUnreadable(i) ==
    /\ run[i].pc = "drain"
    /\ \E p \in run[i].todo :
         /\ Current(run[i], p)
         /\ \/ p \notin pending /\ UNCHANGED faults
            \/ p \in pending /\ Fault("download")
         /\ Become(i, Past(run[i], p))
    /\ UNCHANGED <<store, sheet, clock, mapCache, reported>>

\* Mutant: the next partition is not drained after a full one.
StopPartitionEndsDrain(i) ==
    /\ run[i].pc = "drain"
    /\ \E p \in run[i].todo :
         Current(run[i], p) /\ p \in pending /\ IsFull(run[i], p.call)
    /\ LogDocFull(run[i])
    /\ Become(i, NextPartition([Alerted(run[i]) EXCEPT !.parts = {}]))
    /\ UNCHANGED <<store, sheet, clock, mapCache, faults>>

\* DocFullError in the drain: count, alert, on to the next partition.  Nothing
\* catches a failing count: the whole run ends, other customers' calls included.
StopPartition(i) ==
    /\ run[i].pc = "drain"
    /\ \E p \in run[i].todo :
         Current(run[i], p) /\ p \in pending /\ IsFull(run[i], p.call)
    /\ \/ /\ LogDocFull(run[i])
          /\ Become(i, NextPartition(Alerted(run[i])))
          /\ UNCHANGED faults
       \/ /\ Fault("count")
          /\ Become(i, Idle)
          /\ UNCHANGED reported
    /\ UNCHANGED <<store, sheet, clock, mapCache>>

-----------------------------------------------------------------------------
(* Appending, in the drain and in process_calls *)

\* The block of p is to be written.  The drain does not look for duplicates.
Writable(q, p) ==
    /\ Current(q, p)
    /\ \/ q.pc = "drain" /\ p \in pending
       \/ q.pc = "call" /\ ~IsDup(q, p.call)

\* append_to_doc, first call: the cap test passes, the end index is read.
Measure(i) ==
    /\ \E p \in run[i].todo : Writable(run[i], p) /\ ~IsFull(run[i], p.call)
    /\ Become(i, [run[i] EXCEPT !.pc = "insert",
                                !.end = Len(docs[Target(run[i])].text)])
    /\ UNCHANGED <<store, sheet, clock, mapCache, faults, reported>>

\* append_to_doc, second call: the block is inserted and cached.
Insert(i) ==
    /\ run[i].pc = "insert"
    /\ \E p \in run[i].todo :
         LET q == [Cached(run[i], p.call) EXCEPT !.end = 0]
         IN  /\ Current(q, p)
             /\ Write(Target(q), run[i].end, p.call)
             /\ Become(i, IF q.draining THEN [q EXCEPT !.pc = "delete"] ELSE Past(q, p))
    /\ UNCHANGED <<pending, ticket, accepted, sheet, clock, mapCache, faults, reported>>

\* Mutant: a drained blob is deleted although the append raised.
InsertErrorDeletes(i) ==
    /\ run[i].pc = "insert"
    /\ Fault("append")
    /\ Become(i, IF run[i].draining THEN [run[i] EXCEPT !.pc = "delete", !.end = 0] ELSE Idle)
    /\ UNCHANGED <<store, sheet, clock, mapCache, reported>>

\* append_to_doc raises something other than DocFullError, before the insertion
\* took effect or after; either loop goes on with its next item.
InsertError(i) ==
    /\ run[i].pc = "insert"
    /\ \E p \in run[i].todo :
         /\ Current(run[i], p)
         /\ \/ Fault("append") /\ UNCHANGED docs
            \/ Fault("appendReply") /\ Write(Target(run[i]), run[i].end, p.call)
         /\ Become(i, Past([run[i] EXCEPT !.end = 0], p))
    /\ UNCHANGED <<pending, ticket, accepted, sheet, clock, mapCache, reported>>

\* pending.delete never raises: a failed call leaves the blob and goes on.
Delete(i) ==
    /\ run[i].pc = "delete"
    /\ \E p \in run[i].todo :
         /\ Current(run[i], p)
         /\ \/ pending' = pending \ {p} /\ UNCHANGED faults
            \/ Fault("delete") /\ UNCHANGED pending
         /\ Become(i, Past(run[i], p))
    /\ UNCHANGED <<docs, ticket, accepted, sheet, clock, mapCache, reported>>

-----------------------------------------------------------------------------
(* process_calls *)

\* The first n of a set of calls.
FirstOf(n, calls) == {c \in calls : Cardinality({o \in calls : o < c}) < n}

\* get_calls_since asks for one page.
Since == FirstOf(PageSize, {c \in Calls : InWindow(c)})

\* get_calls_since for the hourly run, get_calls_in_range for a backfill.  An answer
\* other than 200 leaves the pages fetched before, of which get_calls_since has
\* none; an exception ends the run.
FetchCalls(i) ==
    /\ run[i].pc = "fetch"
    /\ LET all == IF i = Hourly THEN Since ELSE {c \in Calls : Hour[c] <= hour}
           Got(calls) ==
             Become(i, IF calls = {} THEN [Idle EXCEPT !.pc = "sheet"]
                       ELSE [run[i] EXCEPT !.pc = "details",
                                           !.todo = {[at |-> 0, cust |-> 0, call |-> c] : c \in calls}])
       IN  \/ Got(all) /\ UNCHANGED faults
           \/ Fault("calls") /\ \E pages \in 0..(Cardinality(all) - 1) \div PageSize :
                Got(FirstOf(pages * PageSize, all))
           \/ Fault("calls") /\ Become(i, Idle)
    /\ UNCHANGED <<store, sheet, clock, mapCache, reported>>

\* The batch of calls behind the first n batches.
Batch(todo, n) ==
    {p \in todo : Cardinality({o \in todo : o.call < p.call}) \div BatchSize = n}

\* get_call_details for each batch, then the tests that need no call.  A batch that is
\* answered by another status than 200 has no details; without them a call has no
\* account and is passed over.  An exception ends the run.
FetchDetails(i) ==
    /\ run[i].pc = "details"
    /\ LET q == run[i]
           wanted == {p \in q.todo : Selected(q.filter, p.call)}
       IN  \/ Become(i, LoopCalls([q EXCEPT !.todo = wanted])) /\ UNCHANGED faults
           \/ /\ Fault("details")
              /\ \E n \in 0..Cardinality(q.todo) :
                   /\ Batch(q.todo, n) # {}
                   /\ Become(i, [q EXCEPT !.todo = @ \ Batch(@, n)])
           \/ Fault("details") /\ Become(i, Idle)
    /\ UNCHANGED <<store, sheet, clock, mapCache, reported>>

\* find_mapping_for_account, which loads the mapping for each call anew; the
\* customer's text is read only if this run has not read it yet.
Route(i) ==
    /\ run[i].pc = "route"
    /\ \E p \in run[i].todo, m \in {lists, mapCache[i].lists} :
         LET q == run[i]
             k == Find(m, p.call)
         IN  /\ Current(q, p)
             /\ LoadMapping(i, m)
             /\ Become(i, IF k = 0 THEN Past(q, p)
                          ELSE [q EXCEPT !.cust = k, !.route = m[k],
                                         !.pc = IF k \in q.seeded THEN "call" ELSE "seed"])
    /\ UNCHANGED <<store, sheet, clock, reported>>

\* Title and date are in the text already, or get_transcript raised: on to the
\* next call.  (An answer other than 200 gives a block without a transcript.)
SkipCall(i) ==
    /\ run[i].pc = "call"
    /\ \E p \in run[i].todo :
         /\ Current(run[i], p)
         /\ \/ IsDup(run[i], p.call) /\ UNCHANGED faults
            \/ ~IsDup(run[i], p.call) /\ Fault("transcript")
         /\ Become(i, Past(run[i], p))
    /\ UNCHANGED <<store, sheet, clock, mapCache, reported>>

\* Mutant: what is buffered is also added to customer_text_cache.
BufferAsSeen(i) ==
    /\ run[i].pc = "call"
    /\ \E p \in run[i].todo :
         /\ Writable(run[i], p)
         /\ IsFull(run[i], p.call)
         /\ Enqueue(run[i].cust, p.call)
         /\ Become(i, [Cached(run[i], p.call) EXCEPT !.pc = "alert"])
    /\ UNCHANGED <<docs, sheet, clock, mapCache, faults, reported>>

\* DocFullError: the block is buffered under the customer's key.  When that fails
\* the call is only noted as an error.
Buffer(i) ==
    /\ run[i].pc = "call"
    /\ \E p \in run[i].todo :
         /\ Writable(run[i], p)
         /\ IsFull(run[i], p.call)
         /\ \/ /\ Enqueue(run[i].cust, p.call)
               /\ Become(i, [run[i] EXCEPT !.pc = "alert"])
               /\ UNCHANGED faults
            \/ /\ Fault("enqueue")
               /\ Become(i, Past(run[i], p))
               /\ UNCHANGED <<pending, ticket, accepted>>
    /\ UNCHANGED <<docs, sheet, clock, mapCache, reported>>

\* pending.count and the doc_full log line; here a failing count is caught.
Alert(i) ==
    /\ run[i].pc = "alert"
    /\ \E p \in run[i].todo :
         /\ Current(run[i], p)
         /\ \/ /\ LogDocFull(run[i])
               /\ Become(i, Past(Alerted(run[i]), p))
               /\ UNCHANGED faults
            \/ /\ Fault("count")
               /\ Become(i, Past(run[i], p))
               /\ UNCHANGED reported
    /\ UNCHANGED <<store, sheet, clock, mapCache>>

-----------------------------------------------------------------------------
(* The date columns *)

\* _write_call_date_ranges: read_tab.  Whatever raises in here ends the run.
ReadSheet(i) ==
    /\ run[i].pc = "sheet"
    /\ LET left == UNION {{n} \X ToSet(lists[rows[n].key]) : n \in DOMAIN rows}
       IN  \/ /\ Become(i, IF left = {} THEN Idle
                           ELSE [Idle EXCEPT !.pc = "dates", !.left = left,
                                             !.found = [n \in DOMAIN rows |-> {}]])
              /\ UNCHANGED faults
           \/ Become(i, Idle) /\ Fault("sheet")
    /\ UNCHANGED <<store, sheet, clock, mapCache, reported>>

\* Mutant: calls that were only buffered count.
DatesInAll(d) == {Date[c] : c \in Written(docs[d].text) \cup {p.call : p \in pending}} \ {0}

\* _DATE_RE: the header in one piece from the end of its first separator line, of which
\* one character will do, to that of the date.
DatesIn(d) ==
    LET dated == {c \in Calls : Shows(docs[d].text, c, RuleAt[c], DateAt[c][2])}
    IN  {Date[c] : c \in dated} \ {0}

\* One doc, row by row; an unreadable doc is left out of its row's range.
ReadDates(i) ==
    /\ run[i].pc = "dates"
    /\ \E x \in run[i].left :
         LET Got(dates) ==
               LET q == [run[i] EXCEPT !.left = @ \ {x}, !.found[x[1]] = @ \cup dates]
               IN  Become(i, IF q.left # {} THEN q
                             ELSE IF \E n \in DOMAIN q.found : q.found[n] # {}
                             THEN [q EXCEPT !.pc = "write"]
                             ELSE Idle)
         IN  /\ \A o \in run[i].left : x[1] <= o[1]
             /\ \/ Got(DatesIn(x[2])) /\ UNCHANGED faults
                \/ Got({}) /\ Fault("read")
    /\ UNCHANGED <<store, sheet, clock, mapCache, reported>>

\* Mutant: only blank cells are written.
WriteDatesOnce(i) ==
    /\ run[i].pc = "write"
    /\ rows' = [n \in DOMAIN rows |->
                  IF run[i].found[n] = {} \/ rows[n].first # 0 THEN rows[n]
                  ELSE [rows[n] EXCEPT !.first = Min(run[i].found[n]),
                                       !.last  = Max(run[i].found[n])]]
    /\ Become(i, Idle)
    /\ UNCHANGED <<store, lists, edits, clock, mapCache, faults, reported>>

\* batch_update_values, by the row numbers read_tab gave; a row without dates
\* keeps its cells.
WriteDates(i) ==
    /\ run[i].pc = "write"
    /\ \/ /\ rows' = [n \in DOMAIN rows |->
                        IF run[i].found[n] = {} THEN rows[n]
                        ELSE [rows[n] EXCEPT !.first = Min(run[i].found[n]),
                                             !.last  = Max(run[i].found[n])]]
          /\ UNCHANGED faults
       \/ Fault("sheet") /\ UNCHANGED rows
    /\ Become(i, Idle)
    /\ UNCHANGED <<store, lists, edits, clock, mapCache, reported>>

-----------------------------------------------------------------------------
(* The surroundings *)

\* The next hour; a run ends well within it (540s timeout).
Tick ==
    /\ ~due
    /\ run[Hourly].pc = "idle"
    /\ hour' = IF hour < MaxHour THEN hour + 1 ELSE hour
    /\ due' = TRUE
    /\ reported' = {}
    /\ UNCHANGED <<store, sheet, backfills, run, mapCache, faults>>

\* The hour's trigger reaches no instance.
MissTrigger ==
    /\ due
    /\ Fault("missed")
    /\ due' = FALSE
    /\ UNCHANGED <<store, sheet, hour, backfills, run, mapCache, reported>>

\* The instance is killed: the 540s timeout, an out-of-memory, a scale-down.
Crash(i) ==
    /\ Fault("crash")
    /\ Become(i, Idle)
    /\ mapCache' = [mapCache EXCEPT ![i] = Unloaded]
    /\ UNCHANGED <<store, sheet, clock, reported>>

\* CACHE_TTL_SECONDS pass since the instance read the mapping.
Expire(i) ==
    /\ mapCache[i].fresh
    /\ mapCache' = [mapCache EXCEPT ![i].fresh = FALSE]
    /\ UNCHANGED <<store, sheet, clock, run, faults, reported>>

\* The operator edits a doc list and config-sync publishes it.
EditList(k, list) ==
    /\ "list" \in EditKinds
    /\ edits < MaxEdits
    /\ list # lists[k]
    /\ lists' = [lists EXCEPT ![k] = list]
    /\ edits' = edits + 1
    /\ reported' = reported \ {k}
    /\ UNCHANGED <<store, rows, clock, run, mapCache, faults>>

\* The operator moves a row of the tab up by one.
MoveRow(n) ==
    /\ "sort" \in EditKinds
    /\ edits < MaxEdits
    /\ rows' = [rows EXCEPT ![n] = rows[n - 1], ![n - 1] = rows[n]]
    /\ edits' = edits + 1
    /\ UNCHANGED <<store, lists, clock, run, mapCache, faults, reported>>

Work(i) ==
    \/ Plan(i) \/ Seed(i) \/ ListItems(i) \/ SkipUnreadable(i) \/ StopPartition(i)
    \/ Measure(i) \/ Insert(i) \/ InsertError(i) \/ Delete(i)
    \/ FetchCalls(i) \/ FetchDetails(i) \/ Route(i) \/ SkipCall(i)
    \/ Buffer(i) \/ Alert(i)
    \/ ReadSheet(i) \/ ReadDates(i) \/ WriteDates(i)

Next ==
    \/ StartHourly
    \/ \E i \in Instances, k \in Customers : StartBackfill(i, k)
    \/ \E i \in Instances : Work(i) \/ Crash(i) \/ Expire(i)
    \/ Tick \/ MissTrigger
    \/ \E k \in Customers : \E list \in Routes[k] : EditList(k, list)
    \/ \E n \in 2..Len(rows) : MoveRow(n)

Spec == Init /\ [][Next]_vars

\* A run goes on while its instance lives, cached mappings age, and the hourly
\* trigger keeps coming.
Fairness ==
    /\ \A i \in Instances : WF_vars(Work(i)) /\ WF_vars(Expire(i))
    /\ WF_vars(StartHourly) /\ WF_vars(Tick)

FairSpec == Spec /\ Fairness
-----------------------------------------------------------------------------
(* Safety *)

InDocs == UNION {Written(docs[d].text) : d \in DocIds}

Buffered == {p.call : p \in pending}

\* The docs that lists of customer k may name.
DocsOf(k) == UNION {ToSet(list) : list \in Routes[k]}

\* GongSync implements Delivery: "Calls/messages still safe in GCS pending".  Whichever
\* runs interleave and wherever they are killed, a call leaves the buffer only once all
\* of its text is in a doc, and no doc ever loses a character, although overlapping
\* runs insert at indexes that may have come to lie inside other blocks.
Delivered == INSTANCE Delivery WITH
    Blocks <- Calls, written <- InDocs, queued <- Buffered

ImplementsDelivery == Delivered!Spec

\* The text a run dedups a customer's calls against shows no call that is not in that
\* customer's docs: not what the run buffered, nor what belongs to the customer
\* drained before.  It serves the drain, the dedup and the cap test.  (Against
\* ARCHITECTURE.md:219-221, by which the cache "contains text from buffered
\* (un-appended) calls"; after it had, a later drain would lose them.)
SeenIsWritten ==
    \A i \in Instances, k \in Customers :
        \A x \in run[i].seen[k] : \E d \in DocsOf(k) : x[1] \in Written(docs[d].text)

Guests(c) == {p \in ToSet(Parties[c]) : p.external}

\* All that ties call c to somebody.
Signs(c) ==
    UNION ({{o.id, o.name} : o \in ToSet(Crm[c])}
             \cup {{p.company, p.domain} : p \in Guests(c)})

\* A call is never written to a doc of a customer that no CRM account and no external
\* participant of it leads to, although drain and process_calls go from customer to
\* customer with one set of variables and the mapping changes under way.
KeptApart ==
    \A d \in DocIds : \A s \in DOMAIN docs[d].text :
        \E k \in Customers :
            /\ d \in DocsOf(k)
            /\ \E l \in Signs(docs[d].text[s][1]) \ {0} : Lower[k] = Lower[l]

\* The date cells never tell of a call that is in no doc, such as one that was
\* only buffered, whichever row they are written to.
DatesAreWritten ==
    \A n \in DOMAIN rows :
        {rows[n].first, rows[n].last} \subseteq {0} \cup {Date[c] : c \in InDocs}

\* Once the hours that look back on a call are over, the call is in a doc or in the
\* buffer, as long as failures (a missed trigger, a run cut short, a call that
\* failed) are fewer than these hours: "the lookback slightly overlaps the cadence
\* in case of a missed run".
LookbackCovers ==
    faults < Window =>
        \A c \in Calls : hour >= Hour[c] + Window => c \in InDocs \cup Buffered

\* Runs that follow one another in one container, with look-backs that overlap, drains
\* in between and a list that grows under them, write a call once unless it went
\* through the buffer.
OncePerCall ==
    \A d, e \in DocIds :
        \A j \in DOMAIN docs[d].text, k \in DOMAIN docs[e].text :
            docs[d].text[j] = docs[e].text[k] /\ docs[d].text[j][1] \notin accepted
                => <<d, j>> = <<e, k>>

\* Runs that follow one another in one container take no doc past DOC_CAP_BYTES, though
\* the cap test measures a text that drain and process_calls share and a list read
\* since.
CapRespected == \A d \in DocIds : docs[d].bytes <= Cap

-----------------------------------------------------------------------------
(* Liveness *)

WaitsFor(k) == \E p \in pending : p.cust = k

\* Hour after hour, a customer's waiting calls are drained or reported as doc_full
\* for the list in force; a failing count for one customer delays the others' turn
\* but does not do away with it.
StuckIsReported ==
    \A k \in Customers :
        WaitsFor(k) /\ lists[k] # <<>> /\ k \notin reported
            ~> ~WaitsFor(k) \/ lists[k] = <<>> \/ k \in reported

DatesOf(k) == UNION {DatesIn(d) : d \in ToSet(lists[k])}

\* In the end each row tells the first and last call in its docs, although runs
\* write by row numbers that a moved row made stale and older runs write last.
DatesCatchUp ==
    <>[](\A n \in DOMAIN rows :
            LET dates == DatesOf(rows[n].key)
            IN  dates # {} => rows[n].first = Min(dates) /\ rows[n].last = Max(dates))

-----------------------------------------------------------------------------
(* What the documentation says and the code does not do *)

\* "a crashed run that retries the enqueue doesn't double-buffer"; here no run even
\* crashes, two hours look back on the same call.
NeverDoubleBuffered ==
    \A x, y \in pending : x.call = y.call /\ x.cust = y.cust => x = y
=============================================================================
