------------------------------ MODULE SlackSync ------------------------------
(***************************************************************************)
(* The slack-sync Cloud Function with the shared helpers it calls.         *)
(* Several warm instances run at once, each serving one request at a time: *)
(* a webhook delivery, a ?backfill of one channel or of all, or a ?drain,  *)
(* which goes from channel to channel.  They share the Google Docs, the    *)
(* GCS mapping blob and the GCS pending buffer, and lock nothing.  Every   *)
(* call to a remote API is a step of its own; what an instance computes    *)
(* between two calls is part of the step before or after it.               *)
(*                                                                         *)
(* A message is its Slack ts, a number.  Its formatted block has Chars     *)
(* characters, Size bytes in UTF-8, and begins with a header of HeaderEnd  *)
(* characters, "[MM/DD/YYYY, HH:MM AM] user:", by which the code           *)
(* recognises it: Key tells which messages have the same one.              *)
(* Channels are numbers in the order sorted() gives them, which is taken   *)
(* to be that of the sheet's rows too.                                     *)
(***************************************************************************)
EXTENDS Integers, Sequences, SequencesExt, Texts

CONSTANTS
    Instances,    \* warm containers of the function
    Pace,         \* how requests follow one another; see Ready
    Channels,     \* Slack channels in the sheet
    Messages,     \* ts of their user messages
    Channel,      \* Channel[m]: the channel of message m
    Live,         \* those posted once the Events subscription is on
    DocIds,       \* Google Docs
    Size,         \* Size[m]: bytes of the formatted block
    Chars,        \* Chars[m]: its length as the Docs API counts it
    HeaderEnd,    \* HeaderEnd[m]: how much of that is the dedup header
    Key,          \* Key[m]: minute and author, the dedup header
    Cap,          \* DOC_CAP_BYTES
    Routes,       \* Routes[ch]: doc lists its row may hold; <<>> is an unmapped one
    FirstRoutes,  \* the lists at the start
    OldestArgs,   \* values of the backfill's oldest argument
    FaultKinds,   \* which remote calls may fail
    MaxFaults,    \* bound: failures in a behaviour
    MaxBackfills, \* bound: backfill requests
    MaxEdits,     \* bound: edits of the sheet row
    MaxClock      \* bound: distinct milliseconds at which items are buffered

Lists == [Channels -> Seq(DocIds)]

ASSUME InputsAssumption ==
    /\ Channels \subseteq Nat \ {0}
    /\ Messages \subseteq Nat
    /\ Channel \in [Messages -> Channels]
    /\ Live \subseteq Messages
    /\ Size \in [Messages -> Nat]
    /\ Chars \in [Messages -> Nat]
    /\ HeaderEnd \in [Messages -> Nat \ {0}]
    /\ \A m \in Messages : HeaderEnd[m] <= Chars[m]
    /\ DOMAIN Key = Messages
    /\ Cap \in Nat
    /\ OldestArgs \subseteq Nat

ASSUME RoutesAssumption ==
    /\ Routes \in [Channels -> SUBSET Seq(DocIds)]
    /\ FirstRoutes \in Lists
    /\ \A ch \in Channels : FirstRoutes[ch] \in Routes[ch]

ASSUME PaceAssumption == Pace \in {"any", "serial", "spaced"}

ASSUME BoundsAssumption ==
    /\ MaxFaults \in Nat
    /\ MaxBackfills \in Nat
    /\ MaxEdits \in Nat
    /\ MaxClock \in Nat \ {0}

VARIABLES
    docs,       \* DocIds -> its text and the bytes of that
    mapping,    \* the channels' doc lists in the mapping blob
    pending,    \* pending-messages/: a set of keyed blobs
    posted,     \* messages in the channels' histories
    events,     \* message events Slack has yet to deliver
    req,        \* the request each instance is serving
    webCache,   \* _webhook_doc_cache of each instance
    mapCache,   \* gcs_mapping._cache of each instance
    now,        \* the clock that keys the pending blobs
    faults, backfills, edits,   \* how much of each bound is spent
    accepted,   \* history: messages ever buffered
    alerted     \* history: channels whose doc_full was logged for the list in force

store == <<docs, pending, now, accepted>>
world == <<mapping, posted, events, edits, backfills>>
vars  == <<store, world, req, webCache, mapCache, faults, alerted>>

-----------------------------------------------------------------------------
(* Types *)

Item == [at : Nat, msg : Messages]       \* `<millis>-<ts>.json`; at = 0 off GCS

Doc == [text : Seq(Messages \X Nat), bytes : Nat]

Stop == [chan : Channels, route : Seq(DocIds)]   \* a channel a request has yet to do

Request == [pc      : {"idle", "read", "fetch", "list", "loop", "insert",
                       "delete", "upload", "alert"},
            kind    : {"none", "webhook", "backfill", "drain"},
            chan    : Channels \cup {0},
            route   : Seq(DocIds),
            left    : SUBSET Stop,       \* channels left in the loop over them
            oldest  : Nat,
            nread   : Nat,               \* docs of the route read so far
            seen    : SUBSET Messages,   \* headers in existing_text, by message
            bytes   : Nat,               \* its length
            todo    : SUBSET Item,       \* items the loop has yet to handle
            end     : Nat,               \* end_index
            stamp   : Nat,               \* the millisecond in the blob's name
            capHit  : BOOLEAN,
            fetched : SUBSET Messages]   \* history: what the request is about

Idle == [pc |-> "idle", kind |-> "none", chan |-> 0, route |-> <<>>,
         left |-> {}, oldest |-> 0, nread |-> 0, seen |-> {}, bytes |-> 0, todo |-> {}, end |-> 0,
         stamp |-> 0, capHit |-> FALSE, fetched |-> {}]

WebEntry == [route : Seq(DocIds), seen : SUBSET Messages, bytes : Nat]

NoEntries == [ch \in Channels |-> [route |-> <<>>, seen |-> {}, bytes |-> 0]]

MapEntry == [lists : Lists, fresh : BOOLEAN]

Unloaded == [lists |-> [ch \in Channels |-> <<>>], fresh |-> FALSE]

TypeOK ==
    /\ docs \in [DocIds -> Doc]
    /\ mapping \in Lists
    /\ pending \subseteq Item
    /\ posted \subseteq Messages
    /\ events \subseteq Live
    /\ req \in [Instances -> Request]
    /\ webCache \in [Instances -> [Channels -> WebEntry]]
    /\ mapCache \in [Instances -> MapEntry]
    /\ now \in 1..MaxClock
    /\ faults \in 0..MaxFaults
    /\ backfills \in 0..MaxBackfills
    /\ edits \in 0..MaxEdits
    /\ accepted \subseteq Messages
    /\ alerted \subseteq Channels

Init ==
    /\ docs = [d \in DocIds |-> [text |-> <<>>, bytes |-> 0]]
    /\ mapping = FirstRoutes
    /\ pending = {}
    /\ posted = Messages \ Live
    /\ events = {}
    /\ req = [i \in Instances |-> Idle]
    /\ webCache = [i \in Instances |-> NoEntries]
    /\ mapCache = [i \in Instances |-> Unloaded]
    /\ now = 1
    /\ faults = 0
    /\ backfills = 0
    /\ edits = 0
    /\ accepted = {}
    /\ alerted = {}

-----------------------------------------------------------------------------
(* Helpers *)

\* Instance i may take a request.  At any pace it may while others are busy.  Of
\* serial requests only one is served at a time, by whichever container.  Spaced ones
\* go in addition to the container of the one before, or come when the mappings that
\* other containers cached have aged: the hourly trigger, against 5 minutes.
Ready(i) ==
    /\ req[i].pc = "idle"
    /\ Pace # "any" => \A j \in Instances : req[j].pc = "idle"
    /\ Pace = "spaced" => \A j \in Instances \ {i} : ~mapCache[j].fresh

\* The messages whose block is in a text, in one piece or not, and those whose header
\* a search of it finds.
Written(text) == {m \in Messages : Holds(text, m, Chars[m])}

Legible(text) == {m \in Messages : Shows(text, m, 1, HeaderEnd[m])}

\* A call of kind k fails: possible only where the run's FaultKinds allow it.
Fault(k) ==
    /\ k \in FaultKinds
    /\ faults < MaxFaults
    /\ faults' = faults + 1

\* Mutant: the newest blob comes first.
BeforeIfNewer(x, y) == x.at > y.at \/ (x.at = y.at /\ x.msg < y.msg)

\* The order of blob names: buffering time first, then the Slack ts.
Before(x, y) == x.at < y.at \/ (x.at = y.at /\ x.msg < y.msg)

\* The item the loop is at: lists are handled in key (or ts) order.
Current(i, it) ==
    /\ it \in req[i].todo
    /\ \A other \in req[i].todo \ {it} : Before(it, other)

\* Mutant: only the tail doc is searched for the header.
IsDupInTail(i, m) ==
    \E s \in req[i].seen \cap Legible(docs[Last(req[i].route)].text) : Key[s] = Key[m]

\* dedup_key in existing_text
IsDup(i, m) == \E s \in req[i].seen : Key[s] = Key[m]

\* Mutant: the block's own size is not counted.
IsFullBefore(i, m) == req[i].bytes > Cap

\* Mutant: a block that exactly fits is refused.
IsFullAtCap(i, m) == req[i].bytes + Size[m] >= Cap

\* append_to_doc's test: the text the caller read plus the block exceeds the cap.
IsFull(i, m) == req[i].bytes + Size[m] > Cap

Target(i) == Last(req[i].route)

\* The loop drops the item it was at.
Rest(i, it) == req[i].todo \ {it}

Become(i, r) == req' = [req EXCEPT ![i] = r]

\* insertText at an index measured earlier: before whatever came later, or inside a
\* block of it.
Write(d, end, m) ==
    docs' = [docs EXCEPT ![d] = [text  |-> Spliced(@.text, end, Block(m, Chars[m])),
                                 bytes |-> @.bytes + Size[m]]]

\* Mutant: the blob has no key of its own.
PublishUnkeyed(at, m) ==
    /\ pending' = pending \cup {[msg |-> m]}
    /\ accepted' = accepted \cup {m}

\* upload_from_string of pending.enqueue.
Publish(at, m) ==
    /\ pending' = pending \cup {[at |-> at, msg |-> m]}
    /\ accepted' = accepted \cup {m}

\* send_doc_full_alert names the list the request works with.
LogDocFull(i) ==
    alerted' = alerted \cup {ch \in Channels : ch = req[i].chan /\ mapping[ch] = req[i].route}

\* load_mapping: the cached blob while it is fresh, else the blob, else (on a
\* failed read) the stale cache or the empty mapping.
LoadMapping(i, m) ==
    \/ /\ mapCache[i].fresh
       /\ m = mapCache[i].lists
       /\ UNCHANGED <<mapCache, faults>>
    \/ /\ ~mapCache[i].fresh
       /\ m = mapping
       /\ mapCache' = [mapCache EXCEPT ![i] = [lists |-> mapping, fresh |-> TRUE]]
       /\ UNCHANGED faults
    \/ /\ ~mapCache[i].fresh
       /\ Fault("mapping")
       /\ m = mapCache[i].lists
       /\ UNCHANGED mapCache

\* The mapped ones of these channels, with their doc lists.
Stops(channels, m) ==
    {[chan |-> ch, route |-> m[ch]] : ch \in {c \in channels : m[c] # <<>>}}

\* The request q of instance i goes on to its next channel, or ends.
NextChannel(i, q) ==
    \/ q.left = {} /\ Become(i, Idle)
    \/ \E x \in q.left :
         /\ \A y \in q.left : x.chan <= y.chan
         /\ Become(i, [Idle EXCEPT !.pc = "read", !.kind = q.kind, !.oldest = q.oldest,
                                   !.chan = x.chan, !.route = x.route,
                                   !.left = q.left \ {x}])

-----------------------------------------------------------------------------
(* Requests *)

\* handle_backfill for one channel or for all; a channel without a doc list is
\* answered by a 404 or an error result.
StartBackfill(i) ==
    /\ Ready(i)
    /\ backfills < MaxBackfills
    /\ backfills' = backfills + 1
    /\ \E m \in {mapping, mapCache[i].lists}, oldest \in OldestArgs,
          wanted \in {{ch} : ch \in Channels} \cup {Channels} :
         /\ LoadMapping(i, m)
         /\ NextChannel(i, [Idle EXCEPT !.kind = "backfill", !.oldest = oldest,
                                        !.left = Stops(wanted, m)])
    /\ UNCHANGED <<store, mapping, posted, events, edits, webCache, alerted>>

\* handle_drain: the channels whose partitions list_partitions shows, but for the
\* unmapped ones, which are left alone.
StartDrain(i) ==
    /\ Ready(i)
    /\ pending # {}
    /\ \E m \in {mapping, mapCache[i].lists} :
         /\ LoadMapping(i, m)
         /\ NextChannel(i, [Idle EXCEPT !.kind = "drain",
                                        !.left = Stops({Channel[p.msg] : p \in pending}, m)])
    /\ UNCHANGED <<store, world, webCache, alerted>>

\* slack_webhook up to the dedup text: taken from the warm cache when it is for
\* the same doc list, read from the docs otherwise.
StartWebhook(i, m) ==
    /\ Ready(i)
    /\ m \in events
    /\ events' = events \ {m}
    /\ \E lists \in {mapping, mapCache[i].lists} :
         /\ LoadMapping(i, lists)
         /\ LET route == lists[Channel[m]]
                entry == webCache[i][Channel[m]]
                begun == [Idle EXCEPT !.kind = "webhook", !.chan = Channel[m],
                                      !.route = route, !.fetched = {m},
                                      !.todo = {[at |-> 0, msg |-> m]}]
            IN  Become(i, IF route = <<>> THEN Idle
                          ELSE IF entry.route = route
                          THEN [begun EXCEPT !.pc = "loop", !.seen = entry.seen,
                                             !.bytes = entry.bytes]
                          ELSE [begun EXCEPT !.pc = "read"])
    /\ UNCHANGED <<store, mapping, posted, edits, backfills, webCache, alerted>>

\* The first delivery never reached the handler, and Slack's retry of it is
\* dropped on its X-Slack-Retry-Num header.
DropRetry(m) ==
    /\ m \in events
    /\ Fault("delivery")
    /\ events' = events \ {m}
    /\ UNCHANGED <<store, mapping, posted, edits, backfills, req, webCache,
                   mapCache, alerted>>

-----------------------------------------------------------------------------
(* Reading *)

AfterRead(kind) == CASE kind = "backfill" -> "fetch"
                     [] kind = "drain"    -> "list"
                     [] OTHER             -> "loop"

\* _read_concatenated_text, one doc a step; an unreadable doc counts as empty.
\* The webhook caches what it read once it has read every doc.
ReadDoc(i) ==
    /\ req[i].pc = "read"
    /\ LET q    == req[i]
           doc  == docs[q.route[q.nread + 1]]
           last == q.nread + 1 = Len(q.route)
           Got(seen, bytes) ==
             /\ Become(i, [q EXCEPT !.nread = @ + 1,
                                    !.seen = seen, !.bytes = bytes,
                                    !.pc = IF last THEN AfterRead(q.kind) ELSE "read"])
             /\ webCache' = IF last /\ q.kind = "webhook"
                            THEN [webCache EXCEPT ![i][q.chan] =
                                    [route |-> q.route, seen |-> seen, bytes |-> bytes]]
                            ELSE webCache
       IN  \/ Got(q.seen \cup Legible(doc.text), q.bytes + doc.bytes) /\ UNCHANGED faults
           \/ Got(q.seen, q.bytes) /\ Fault("read")
    /\ UNCHANGED <<store, world, mapCache, alerted>>

\* conversations.history, all pages; a failing page ends the loop and what was
\* fetched before it is kept.  Fetching nothing ends the channel's backfill.
Fetch(i) ==
    /\ req[i].pc = "fetch"
    /\ LET all == {m \in posted : Channel[m] = req[i].chan /\ m >= req[i].oldest}
       IN  \E got \in SUBSET all :
             /\ \/ got = all /\ UNCHANGED faults
                \/ got # all /\ Fault("history")
             /\ \/ got = {} /\ NextChannel(i, req[i])
                \/ got # {} /\ Become(i, [req[i] EXCEPT
                                            !.pc = "loop", !.fetched = got,
                                            !.todo = {[at |-> 0, msg |-> m] : m \in got}])
    /\ UNCHANGED <<store, world, webCache, mapCache, alerted>>

\* Mutant: the prefix of the listing lacks the partition.
ListPendingOfAll(i) ==
    /\ req[i].pc = "list"
    /\ Become(i, [req[i] EXCEPT !.pc = "loop", !.todo = pending])
    /\ UNCHANGED <<store, world, webCache, mapCache, faults, alerted>>

\* pending.drain lists the partition once, before the first item.  Nothing catches
\* an error here: the drain of all channels ends.
ListPending(i) ==
    /\ req[i].pc = "list"
    /\ LET mine == {p \in pending : Channel[p.msg] = req[i].chan}
       IN  \/ Become(i, [req[i] EXCEPT !.pc = "loop", !.todo = mine]) /\ UNCHANGED faults
           \/ Become(i, Idle) /\ Fault("items")
    /\ UNCHANGED <<store, world, webCache, mapCache, alerted>>

-----------------------------------------------------------------------------
(* The loop over messages or buffered items *)

\* The header is already in the text read: the message is skipped.
SkipDup(i) ==
    /\ req[i].pc = "loop"
    /\ req[i].kind # "drain"
    /\ \E it \in req[i].todo :
         /\ Current(i, it)
         /\ IsDup(i, it.msg)
         /\ Become(i, [req[i] EXCEPT !.todo = Rest(i, it)])
    /\ UNCHANGED <<store, world, webCache, mapCache, faults, alerted>>

\* A blob that another drain deleted, or that cannot be downloaded, is skipped.
SkipUnreadable(i) ==
    /\ req[i].pc = "loop"
    /\ req[i].kind = "drain"
    /\ \E it \in req[i].todo :
         /\ Current(i, it)
         /\ \/ it \notin pending /\ UNCHANGED faults
            \/ it \in pending /\ Fault("download")
         /\ Become(i, [req[i] EXCEPT !.todo = Rest(i, it)])
    /\ UNCHANGED <<store, world, webCache, mapCache, alerted>>

\* The item is to be written.  A drain does not look for duplicates.
Writable(i, it) ==
    /\ Current(i, it)
    /\ IF req[i].kind = "drain" THEN it \in pending ELSE ~IsDup(i, it.msg)

\* Mutant: the index is one short of the end.
MeasureOneShort(i) ==
    /\ req[i].pc = "loop"
    /\ ~req[i].capHit
    /\ \E it \in req[i].todo : Writable(i, it) /\ ~IsFull(i, it.msg)
    /\ Become(i, [req[i] EXCEPT !.pc = "insert",
                                !.end = IF docs[Target(i)].text = <<>> THEN 0
                                        ELSE Len(docs[Target(i)].text) - 1])
    /\ UNCHANGED <<store, world, webCache, mapCache, faults, alerted>>

\* append_to_doc, first call: the cap test passes, the end index is read.
Measure(i) ==
    /\ req[i].pc = "loop"
    /\ ~req[i].capHit
    /\ \E it \in req[i].todo : Writable(i, it) /\ ~IsFull(i, it.msg)
    /\ Become(i, [req[i] EXCEPT !.pc = "insert",
                                !.end = Len(docs[Target(i)].text)])
    /\ UNCHANGED <<store, world, webCache, mapCache, faults, alerted>>

\* append_to_doc, second call: the block is inserted and counted in the text.
Insert(i) ==
    /\ req[i].pc = "insert"
    /\ \E it \in req[i].todo :
         LET q    == req[i]
             seen == q.seen \cup {it.msg}
             size == q.bytes + Size[it.msg]
         IN  /\ Current(i, it)
             /\ Write(Target(i), q.end, it.msg)
             /\ Become(i, IF q.kind = "drain"
                          THEN [q EXCEPT !.pc = "delete", !.seen = seen, !.bytes = size]
                          ELSE [q EXCEPT !.pc = "loop", !.seen = seen, !.bytes = size,
                                         !.todo = Rest(i, it)])
             /\ webCache' = IF q.kind = "webhook"
                            THEN [webCache EXCEPT ![i][q.chan] =
                                    [route |-> q.route, seen |-> seen, bytes |-> size]]
                            ELSE webCache
    /\ UNCHANGED <<pending, now, accepted, world, mapCache, faults, alerted>>

\* Mutant: the drain deletes the item although the append raised.
InsertErrorDeletes(i) ==
    /\ req[i].pc = "insert"
    /\ Fault("append")
    /\ Become(i, IF req[i].kind = "drain" THEN [req[i] EXCEPT !.pc = "delete"] ELSE Idle)
    /\ UNCHANGED <<store, world, webCache, mapCache, alerted>>

\* append_to_doc raises something other than DocFullError, either before the
\* insertion took effect or after it.  A drain goes on with the next item, a
\* backfill with its next channel, and a webhook request ends.
InsertError(i) ==
    /\ req[i].pc = "insert"
    /\ \E it \in req[i].todo :
         /\ Current(i, it)
         /\ \/ Fault("append") /\ UNCHANGED docs
            \/ Fault("appendReply") /\ Write(Target(i), req[i].end, it.msg)
         /\ IF req[i].kind = "drain"
            THEN Become(i, [req[i] EXCEPT !.pc = "loop", !.todo = Rest(i, it)])
            ELSE NextChannel(i, req[i])
    /\ UNCHANGED <<pending, now, accepted, world, webCache, mapCache, alerted>>

\* DocFullError in a backfill or a webhook, or a backfill that met it before:
\* enqueue takes the millisecond for the blob's name.
Buffer(i) ==
    /\ req[i].pc = "loop"
    /\ req[i].kind # "drain"
    /\ \E it \in req[i].todo : Writable(i, it) /\ (req[i].capHit \/ IsFull(i, it.msg))
    /\ \E dt \in 0..1 :
         /\ now + dt <= MaxClock
         /\ now' = now + dt
         /\ Become(i, [req[i] EXCEPT !.pc = "upload", !.stamp = now + dt])
    /\ UNCHANGED <<docs, pending, accepted, world, webCache, mapCache, faults, alerted>>

\* The loop goes on behind an item that enqueue was called for.  The first cap hit
\* of a backfill goes on to alert; a webhook never alerts.
Enqueued(q, it) ==
    [q EXCEPT !.stamp = 0, !.capHit = TRUE, !.todo = @ \ {it},
              !.pc = IF q.kind = "backfill" /\ ~q.capHit THEN "alert" ELSE "loop"]

\* Mutant: what is buffered is also added to existing_text.
UploadAsSeen(i) ==
    /\ req[i].pc = "upload"
    /\ \E it \in req[i].todo :
         /\ Current(i, it)
         /\ Publish(req[i].stamp, it.msg)
         /\ Become(i, [Enqueued(req[i], it) EXCEPT !.seen = @ \cup {it.msg}])
    /\ UNCHANGED <<docs, now, world, webCache, mapCache, faults, alerted>>

\* Mutant: a backfill buffers the remainder, but not the message that met the cap.
UploadRemainderOnly(i) ==
    /\ req[i].pc = "upload"
    /\ \E it \in req[i].todo :
         /\ Current(i, it)
         /\ IF req[i].kind = "backfill" /\ ~req[i].capHit THEN UNCHANGED <<pending, accepted>>
            ELSE Publish(req[i].stamp, it.msg)
         /\ Become(i, Enqueued(req[i], it))
    /\ UNCHANGED <<docs, now, world, webCache, mapCache, faults, alerted>>


\* The blob appears under the name enqueue gave it, however long ago.  A failing
\* upload is only printed.
Upload(i) ==
    /\ req[i].pc = "upload"
    /\ \E it \in req[i].todo :
         /\ Current(i, it)
         /\ \/ Publish(req[i].stamp, it.msg) /\ UNCHANGED faults
            \/ Fault("enqueue") /\ UNCHANGED <<pending, accepted>>
         /\ Become(i, Enqueued(req[i], it))
    /\ UNCHANGED <<docs, now, world, webCache, mapCache, alerted>>

\* pending.count and the doc_full log line.  The count is not caught: when it
\* raises, the channel's backfill ends without the rest of its messages.
Alert(i) ==
    /\ req[i].pc = "alert"
    /\ \/ /\ LogDocFull(i)
          /\ Become(i, [req[i] EXCEPT !.pc = "loop"])
          /\ UNCHANGED faults
       \/ /\ Fault("count")
          /\ NextChannel(i, req[i])
          /\ UNCHANGED alerted
    /\ UNCHANGED <<store, world, webCache, mapCache>>

\* Mutant: a full doc ends the drain of all channels.
StopDrainOfAll(i) ==
    /\ req[i].pc = "loop"
    /\ req[i].kind = "drain"
    /\ \E it \in req[i].todo : Writable(i, it) /\ IsFull(i, it.msg)
    /\ LogDocFull(i)
    /\ Become(i, Idle)
    /\ UNCHANGED <<store, world, webCache, mapCache, faults>>

\* DocFullError in a drain: count, alert, on to the next channel; the items stay
\* buffered.  Nothing catches a failing count: the other channels' turn is lost.
StopDrain(i) ==
    /\ req[i].pc = "loop"
    /\ req[i].kind = "drain"
    /\ \E it \in req[i].todo : Writable(i, it) /\ IsFull(i, it.msg)
    /\ \/ LogDocFull(i) /\ NextChannel(i, req[i]) /\ UNCHANGED faults
       \/ Fault("count") /\ Become(i, Idle) /\ UNCHANGED alerted
    /\ UNCHANGED <<store, world, webCache, mapCache>>

\* pending.delete never raises: a failed call leaves the blob and goes on.
Delete(i) ==
    /\ req[i].pc = "delete"
    /\ \E it \in req[i].todo :
         /\ Current(i, it)
         /\ \/ pending' = pending \ {it} /\ UNCHANGED faults
            \/ Fault("delete") /\ UNCHANGED pending
         /\ Become(i, [req[i] EXCEPT !.pc = "loop", !.todo = Rest(i, it)])
    /\ UNCHANGED <<docs, now, accepted, world, webCache, mapCache, alerted>>

Finish(i) ==
    /\ req[i].pc = "loop"
    /\ req[i].todo = {}
    /\ NextChannel(i, req[i])
    /\ UNCHANGED <<store, world, webCache, mapCache, faults, alerted>>

-----------------------------------------------------------------------------
(* The surroundings *)

\* The instance is killed: the 60s timeout, an out-of-memory, a scale-down.
\* Only its memory is lost.
Crash(i) ==
    /\ Fault("crash")
    /\ Become(i, Idle)
    /\ webCache' = [webCache EXCEPT ![i] = NoEntries]
    /\ mapCache' = [mapCache EXCEPT ![i] = Unloaded]
    /\ UNCHANGED <<store, world, alerted>>

\* CACHE_TTL_SECONDS pass since the instance read the mapping.
Expire(i) ==
    /\ mapCache[i].fresh
    /\ mapCache' = [mapCache EXCEPT ![i].fresh = FALSE]
    /\ UNCHANGED <<store, world, req, webCache, faults, alerted>>

\* A user posts: the message enters the history and Slack has an event for it.
Post(m) ==
    /\ m \in Live \ posted
    /\ \A n \in Messages : n < m => n \in posted
    /\ posted' = posted \cup {m}
    /\ events' = events \cup {m}
    /\ UNCHANGED <<store, mapping, edits, backfills, req, webCache, mapCache,
                   faults, alerted>>

\* The operator edits the sheet row and config-sync publishes the new list.
EditRoute(ch, route) ==
    /\ edits < MaxEdits
    /\ route # mapping[ch]
    /\ mapping' = [mapping EXCEPT ![ch] = route]
    /\ edits' = edits + 1
    /\ alerted' = alerted \ {ch}
    /\ UNCHANGED <<store, posted, events, backfills, req, webCache, mapCache, faults>>

\* Nothing is being served; a request in progress never stops here.
Quiet ==
    /\ \A i \in Instances : req[i].pc = "idle"
    /\ UNCHANGED vars

Work(i) ==
    \/ ReadDoc(i) \/ Fetch(i) \/ ListPending(i)
    \/ SkipDup(i) \/ SkipUnreadable(i)
    \/ Measure(i) \/ Insert(i) \/ InsertError(i)
    \/ Buffer(i) \/ Upload(i) \/ Alert(i) \/ StopDrain(i) \/ Delete(i)
    \/ Finish(i)

Next ==
    \/ \E i \in Instances :
         \/ StartBackfill(i) \/ StartDrain(i)
         \/ \E m \in Live : StartWebhook(i, m)
         \/ Work(i)
         \/ Crash(i) \/ Expire(i)
    \/ \E m \in Live : Post(m) \/ DropRetry(m)
    \/ \E ch \in Channels : \E route \in Routes[ch] : EditRoute(ch, route)
    \/ Quiet

Spec == Init /\ [][Next]_vars

\* A request that was accepted runs on; the hourly ?drain keeps coming; the
\* cached mapping ages.  Nothing is assumed of Slack, the operator or crashes.
Fairness ==
    /\ \A i \in Instances : WF_vars(Work(i)) /\ WF_vars(Expire(i))
    /\ WF_vars(\E i \in Instances : StartDrain(i))

FairSpec == Spec /\ Fairness

-----------------------------------------------------------------------------
(* Safety *)

InDocs == UNION {Written(docs[d].text) : d \in DocIds}

Buffered == {it.msg : it \in pending}

Waiting(ch) == {it \in pending : Channel[it.msg] = ch}

Present(m) == \E n \in InDocs \cup Buffered : Key[n] = Key[m]

\* What the texts _webhook_doc_cache of instance i holds show.
WebSeen(i) == UNION {webCache[i][ch].seen : ch \in Channels}

\* Of a message that was ever buffered to GCS every character is, from then on, in the
\* buffer or in a doc, in order: whatever instances crash, whatever calls fail, however
\* many drains run at once.  It rests on drain_channel appending before it deletes.
\* (Where requests overlap, other text may stand in the middle: NothingTorn.)
BufferedDurable == accepted \subseteq InDocs \cup Buffered

\* SlackSync implements Delivery, requests and drains of any number at once: the docs
\* gain one block a step and never lose a character, although insertions go to
\* indexes that may have come to lie inside other blocks, and only what is in a doc
\* leaves the buffer.
Delivered == INSTANCE Delivery WITH
    Blocks <- Messages, written <- InDocs, queued <- Buffered

ImplementsDelivery == Delivered!Spec

\* The text an instance dedups against never shows a message the docs lack, so a
\* skipped message is never a lost one: existing_text and the webhook's cache
\* grow only by what was appended, not by what was buffered.
SeenIsWritten == \A i \in Instances : req[i].seen \cup WebSeen(i) \subseteq InDocs

\* The docs that lists of channel ch may name.
DocsOf(ch) == UNION {ToSet(list) : list \in Routes[ch]}

\* No character of a message is in a doc of another channel, although a drain or a
\* backfill goes from channel to channel with lists it loaded once and others edit
\* meanwhile.
KeptApart ==
    \A d \in DocIds : \A s \in DOMAIN docs[d].text : d \in DocsOf(Channel[docs[d].text[s][1]])

\* A backfill or webhook request that gets to the end of its loop leaves each message
\* it was about, or one with the same header, in a doc or in the buffer, although
\* others append, drain and delete meanwhile, as long as no enqueue fails.  A request
\* that a failing append or count, or the platform, ends earlier promises nothing.
FinishedCovers ==
    \A i \in Instances :
        req[i].pc = "loop" /\ req[i].todo = {} => \A m \in req[i].fetched : Present(m)

\* Channels that always have a doc list.
AlwaysMapped == {ch \in Channels : <<>> \notin Routes[ch]}

\* Messages posted while Slack sends events that are nowhere any more: no request has
\* them in hand and neither they nor another message with their header are in a doc or
\* in the buffer.
Lost ==
    {m \in posted \cap Live :
        /\ Channel[m] \in AlwaysMapped
        /\ m \notin events
        /\ ~Present(m)
        /\ \A i \in Instances : \A it \in req[i].todo : it.msg # m}


\* When a drain is about to insert an item, an item buffered in an earlier millisecond
\* waits only if a failing call left it there, when requests come one after the other.
\* (With overlapping requests an upload may take longer than a later one.)
DrainFIFO ==
    \A i \in Instances :
        req[i].pc = "insert" /\ req[i].kind = "drain" =>
            \A it \in req[i].todo :
                Current(i, it) =>
                    Cardinality({p \in Waiting(req[i].chan) : p.at < it.at}) <= faults

\* append_to_doc never takes a doc past DOC_CAP_BYTES, when backfills and drains come
\* one after the other, to whichever container, and the docs can be read.  (A webhook
\* trusts the text its container cached, whatever others wrote since.)
CapRespected == \A d \in DocIds : docs[d].bytes <= Cap

\* Every character in a doc stands in its place within its whole block: "an append to
\* the end of a doc".  It is so when requests come one after the other; where two
\* overlap, an index read before the other's insertion may lie inside a block after it.
NothingTorn ==
    \A d \in DocIds : \A s \in DOMAIN docs[d].text :
        LET m == docs[d].text[s][1]
            k == docs[d].text[s][2]
        IN  StandsAt(docs[d].text, s - k + 1, m, 1, Chars[m])

\* Repeated backfills, crashed ones included, and edits that extend the list leave
\* one header of each kind in a channel's docs, as long as neither of two blocks went
\* through the buffer: content-based dedup makes the backfill idempotent.  Requests
\* come one after the other, and to a container whose cached mapping is not older than
\* what another wrote by (Ready, "spaced").
OncePerHeader ==
    \A d, e \in DocIds :
        \A j \in DOMAIN docs[d].text, k \in DOMAIN docs[e].text :
            LET m == docs[d].text[j][1]
                n == docs[e].text[k][1]
            IN  /\ docs[d].text[j][2] = 1 /\ docs[e].text[k][2] = 1
                /\ Channel[m] = Channel[n] /\ Key[m] = Key[n]
                /\ {m, n} \cap accepted = {}
                => <<d, j>> = <<e, k>>

-----------------------------------------------------------------------------
(* Liveness *)

\* While messages wait for a mapped channel, the hourly drain either empties its
\* queue or logs doc_full for the list the sheet holds now, whatever becomes of the
\* channels it drains before.
DrainedOrAlerted ==
    \A ch \in Channels :
        Waiting(ch) # {} /\ mapping[ch] # <<>>
            ~> Waiting(ch) = {} \/ ch \in alerted \/ mapping[ch] = <<>>

\* The operator is done, nothing else is coming and nothing fails any more.
Settled ==
    /\ edits = MaxEdits
    /\ backfills = MaxBackfills
    /\ faults = MaxFaults
    /\ events = {} /\ posted = Messages
    /\ \A i \in Instances : req[i].pc = "idle"

WaitingBytes(ch) == MapThenSumSet(LAMBDA it : Size[it.msg], Waiting(ch))

ListBytes(ch) == MapThenSumSet(LAMBDA n : docs[mapping[ch][n]].bytes, DOMAIN mapping[ch])

\* Once things have settled, the hourly drain empties a queue if the docs of its
\* list have room for all that waits, whatever failed before and whatever older
\* list an instance still caches.
ListRoomDrains ==
    \A ch \in Channels :
        Settled /\ mapping[ch] # <<>> /\ ListBytes(ch) + WaitingBytes(ch) <= Cap
            ~> Waiting(ch) = {}

-----------------------------------------------------------------------------
(* What the documentation says and the code does not do *)

\* "The pending buffer drains on the next run that sees an enlarged doc list": the
\* new content lands on the tail doc, so it is the tail doc that needs the room.
RoomDrains ==
    \A ch \in Channels :
        Settled /\ mapping[ch] # <<>> /\ docs[Last(mapping[ch])].bytes + WaitingBytes(ch) <= Cap
            ~> Waiting(ch) = {}
=============================================================================
