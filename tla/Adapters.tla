------------------------------ MODULE Adapters ------------------------------
(***************************************************************************)
(* The ingest adapters (sensing/adapters): each polls its source, publishes*)
(* what its cursor has not passed and commits the cursor after every item. *)
(* A source of this module is an adapter, or one feed of the RSS adapter,  *)
(* whose cursor is a dictionary with one entry per feed.                   *)
(***************************************************************************)
EXTENDS IngestStream, Functions

CONSTANTS
    Sources,        \* adapters and feeds
    Kinds,          \* Kinds[s]: the shapes to try for source s
    Source,         \* Source[i]: where item i is listed
    Stamp,          \* Stamp[i]: its publication time or id, from 1 on
    Page,           \* Page[s]: items in one answer of the source
    MaxAborts       \* bound: polls cut short, messages dropped, of a source

\* polygon_news answers oldest first; gdelt, x and the RSS feeds newest first;
\* macro newest first with the maximum committed at the end; telegram pushes.
Shapes == {"oldest_first", "newest_first", "newest_first_max", "push"}

ASSUME AdaptersAssumption ==
    /\ Kinds \in [Sources -> SUBSET Shapes] /\ Source \in [Items -> Sources]
    /\ Stamp \in [Items -> Nat \ {0}] /\ Page \in [Sources -> Nat \ {0}]
    /\ MaxAborts \in Nat

VARIABLES
    shape,      \* source -> order of its answer and use of its cursor, fixed
    listed,     \* items their source shows
    cursor,     \* source -> committed cursor, 0 when there is none
    since,      \* source -> stamp from which the last hour counts (polygon)
    polling,    \* source -> items the current poll still has to publish
    added,      \* source -> the item of the last XADD, its cursor not committed
    newest,     \* source -> new_max of the current poll, 0 when none was emitted
    handlers,   \* telegram: [item, marks, sent] of every handler under way
    cut,        \* history: items listed late, too old, beyond a page or aborted
    aborts      \* history: source -> polls cut short, handlers that raised

pollVars == <<shape, listed, cursor, since, polling, added, newest>>
adapterVars == <<pollVars, handlers, cut, aborts>>

None == 0
ItemsOf(s) == {i \in listed : Source[i] = s}
Aborted(s) == aborts[s] < MaxAborts /\ aborts' = [aborts EXCEPT ![s] = @ + 1]
Larger(m, n) == IF m > n THEN m ELSE n
Pushed == {s \in Sources : shape[s] = "push"}
PollOver(s) == polling[s] = <<>> /\ added[s] = {} /\ newest[s] = 0
HandlersOf(s) == {h \in handlers : Source[h.item] = s}
Idling(s) == PollOver(s) /\ HandlersOf(s) = {}

AdaptersInit ==
    /\ shape \in {f \in [Sources -> Shapes] : \A s \in Sources : f[s] \in Kinds[s]}
    /\ listed = {} /\ cut = {} /\ handlers = {}
    /\ cursor = [s \in Sources |-> None] /\ since = [s \in Sources |-> 0]
    /\ polling = [s \in Sources |-> <<>>]
    /\ added = [s \in Sources |-> {}]
    /\ newest = [s \in Sources |-> 0]
    /\ aborts = [s \in Sources |-> 0]
-----------------------------------------------------------------------------
\* A source lists an item; one that is no newer than what it listed before
\* may already be behind the cursor.
Appear(i) ==
    /\ i \notin listed /\ shape[Source[i]] # "push"
    /\ listed' = listed \cup {i}
    /\ cut' = IF \E j \in ItemsOf(Source[i]) : Stamp[j] >= Stamp[i]
              THEN cut \cup {i} ELSE cut
    /\ UNCHANGED <<stream, shape, cursor, since, polling, added, newest, handlers, aborts>>

\* polygon asks for the last hour as long as it has no cursor: what was listed
\* before is never asked for again.
HourPasses(s) ==
    /\ shape[s] = "oldest_first" /\ cursor[s] = None /\ PollOver(s)
    /\ \E i \in ItemsOf(s) :
          /\ Stamp[i] > since[s]
          /\ since' = [since EXCEPT ![s] = Stamp[i]]
          /\ cut' = cut \cup {j \in ItemsOf(s) : Stamp[j] <= Stamp[i]}
    /\ UNCHANGED <<stream, shape, listed, cursor, polling, added, newest, handlers, aborts>>

\* What a poll may answer with, filtered by the server or by the adapter: the
\* items beyond the cursor ...
Resume(s) == IF cursor[s] = None THEN since[s] ELSE cursor[s]
BeyondCursor(s) == {i \in ItemsOf(s) : Stamp[i] > Resume(s)}

\* ... in the order of the source, which lets items of one stamp come as they
\* will ...
InOrder(s, i, j) ==
    IF shape[s] = "oldest_first" THEN Stamp[i] <= Stamp[j] ELSE Stamp[i] >= Stamp[j]

\* ... and at most a page of them.
IsAnswer(s, q) ==
    /\ \A m, n \in DOMAIN q : m < n => q[m] # q[n] /\ InOrder(s, q[m], q[n])
    /\ \A i \in BeyondCursor(s) \ Range(q) : Len(q) = Page[s] /\ \A n \in DOMAIN q : InOrder(s, q[n], i)

\* What no later poll will see: newest first, all that the page has no room
\* for; oldest first, what shares the stamp of an item of the page.
LeftOut(s, q) ==
    {i \in BeyondCursor(s) \ Range(q) :
        shape[s] = "oldest_first" => \E j \in Range(q) : Stamp[j] = Stamp[i]}

Fetch(s) ==
    /\ shape[s] # "push" /\ PollOver(s)
    /\ \E n \in 1..Page[s] : \E answer \in [1..n -> BeyondCursor(s)] :
          /\ IsAnswer(s, answer)
          /\ polling' = [polling EXCEPT ![s] = answer]
          /\ cut' = cut \cup LeftOut(s, answer)
    /\ UNCHANGED <<stream, shape, listed, cursor, since, added, newest, handlers, aborts>>

\* EnvelopeWriter.write: XADD ...
Emit(s) ==
    /\ polling[s] # <<>> /\ added[s] = {}
    /\ XAdd(Head(polling[s]))
    /\ added' = [added EXCEPT ![s] = {Head(polling[s])}]
    /\ UNCHANGED <<shape, listed, cursor, since, polling, newest, handlers, cut, aborts>>

\* Wrong: the cursor of the whole page.
CommitPage(s) ==
    \E i \in added[s], last \in Range(polling[s]) :
        /\ \A j \in Range(polling[s]) : Stamp[j] <= Stamp[last]
        /\ cursor' = [cursor EXCEPT ![s] = Stamp[last]]
        /\ added' = [added EXCEPT ![s] = {}]
        /\ polling' = [polling EXCEPT ![s] = Tail(@)]
        /\ newest' = [newest EXCEPT ![s] = Stamp[last]]
        /\ UNCHANGED <<stream, shape, listed, since, handlers, cut, aborts>>

\* ... then the cursor; the loop goes on to the next item.
CommitCursor(s) ==
    \E i \in added[s] :
        /\ cursor' = [cursor EXCEPT ![s] = Stamp[i]]
        /\ added' = [added EXCEPT ![s] = {}]
        /\ polling' = [polling EXCEPT ![s] = Tail(@)]
        /\ newest' = [newest EXCEPT ![s] = Larger(@, Stamp[i])]
        /\ UNCHANGED <<stream, shape, listed, since, handlers, cut, aborts>>

\* Wrong: the cursor of the last, that is the oldest, item stays.
PollEndsAtOldest(s) ==
    /\ polling[s] = <<>> /\ newest[s] # 0
    /\ newest' = [newest EXCEPT ![s] = 0]
    /\ UNCHANGED <<stream, shape, listed, cursor, since, polling, added, handlers, cut, aborts>>

\* The poll returns; only macro commits the maximum once more.
PollEnds(s) ==
    /\ polling[s] = <<>> /\ newest[s] # 0
    /\ cursor' = IF shape[s] = "newest_first_max"
                 THEN [cursor EXCEPT ![s] = newest[s]] ELSE cursor
    /\ newest' = [newest EXCEPT ![s] = 0]
    /\ UNCHANGED <<stream, shape, listed, since, polling, added, handlers, cut, aborts>>

\* What a poll cut short leaves behind the committed cursor: newest first all
\* that was still to come, oldest first what shares the stamp of an item that
\* is done with.
LeftBehind(s) ==
    {i \in Range(polling[s]) \ added[s] :
        IF shape[s] = "oldest_first"
        THEN \E j \in ItemsOf(s) \ Range(polling[s]) :
                Stamp[j] = Stamp[i] /\ Stamp[j] <= cursor[s]
        ELSE newest[s] # 0}

\* An exception or the end of the process between two steps of a poll: the
\* next poll starts from the committed cursor.
Abort(s) ==
    /\ ~PollOver(s) /\ Aborted(s)
    /\ polling' = [polling EXCEPT ![s] = <<>>]
    /\ added' = [added EXCEPT ![s] = {}]
    /\ newest' = [newest EXCEPT ![s] = 0]
    /\ cut' = cut \cup LeftBehind(s)
    /\ UNCHANGED <<stream, shape, listed, cursor, since, handlers>>

\* telegram: the handler of a pushed message reads the cursors, one dictionary
\* of all channels, and raises its own to the message id; a message is dropped
\* while the client is offline.
Arrive(i) ==
    /\ shape[Source[i]] = "push" /\ i \notin listed
    /\ listed' = listed \cup {i}
    /\ \/ /\ handlers' = handlers \cup
                {[item |-> i, sent |-> FALSE,
                  marks |-> [s \in Pushed |-> IF s = Source[i] THEN Larger(cursor[s], Stamp[i])
                                                              ELSE cursor[s]]]}
          /\ UNCHANGED <<cut, aborts>>
       \/ /\ Aborted(Source[i]) /\ cut' = cut \cup {i}
          /\ UNCHANGED handlers
    /\ UNCHANGED <<stream, shape, cursor, since, polling, added, newest>>

\* It awaits the XADD, and the handlers of other messages run meanwhile ...
PushAdd(h) ==
    /\ ~h.sent /\ XAdd(h.item)
    /\ handlers' = (handlers \ {h}) \cup {[h EXCEPT !.sent = TRUE]}
    /\ UNCHANGED <<pollVars, cut, aborts>>

\* ... then writes back the dictionary it read, over what they wrote.
PushCommit(h) ==
    /\ h.sent
    /\ cursor' = [s \in Sources |-> IF s \in Pushed THEN h.marks[s] ELSE cursor[s]]
    /\ handlers' = handlers \ {h}
    /\ UNCHANGED <<stream, shape, listed, since, polling, added, newest, cut, aborts>>

\* A handler raises, or the process ends with all of them: nothing fetches
\* their messages again.
LoseHandlers(s) ==
    \E lost \in {{h} : h \in HandlersOf(s)} \cup {HandlersOf(s)} :
        /\ lost # {} /\ Aborted(s)
        /\ handlers' = handlers \ lost
        /\ cut' = cut \cup {h.item : h \in {g \in lost : ~g.sent}}
        /\ UNCHANGED <<stream, pollVars>>

Poll(s) ==
    \/ Fetch(s) \/ Emit(s) \/ CommitCursor(s) \/ PollEnds(s)
    \/ \E h \in HandlersOf(s) : PushAdd(h) \/ PushCommit(h)

\* Every source has been read to its end: the adapters wait.
NothingListed ==
    /\ listed = Items
    /\ \A s \in Sources : Idling(s) /\ (shape[s] # "push" => BeyondCursor(s) = {})
    /\ UNCHANGED <<stream, adapterVars>>

AdaptersStep ==
    \/ \E i \in Items : Appear(i) \/ Arrive(i)
    \/ \E s \in Sources : Poll(s) \/ HourPasses(s) \/ Abort(s) \/ LoseHandlers(s)

AdaptersNext == AdaptersStep \/ NothingListed
-----------------------------------------------------------------------------
Published(i) == \E k \in DOMAIN stream : stream[k] = i

\* What the cursor of a source at rest has passed was published, unless it was
\* listed late, older than the first hour, left out by a full page, or lost with
\* a poll or a handler cut short: XADD comes before the commit, and no adapter
\* compares with anything but the cursor of its last poll.
PassedIsPublished ==
    \A i \in listed :
        (Idling(Source[i]) /\ Stamp[i] <= cursor[Source[i]]) => Published(i) \/ i \in cut

\* Oldest first, or with the maximum committed at the end, an item is published
\* again only after a poll that was cut short (the comments in macro.py).
RepublishedAfterAbort ==
    \A i \in listed :
        shape[Source[i]] # "newest_first" =>
            Cardinality({k \in DOMAIN stream : stream[k] = i}) <= 1 + aborts[Source[i]]
=============================================================================
