------------------------------ MODULE Cluster ------------------------------
(***************************************************************************)
(* The cluster membership view (package cluster, cluster.go): one loop     *)
(* goroutine owns the node set and the list of subscriptions `subs`; it    *)
(* receives node lists and node updates on `ch`, sends the resulting       *)
(* changes to every subscription, and serves Members, Subscribe and        *)
(* close-of-subscription requests it receives on the unbuffered `reqCh`.   *)
(* Close runs on the caller's goroutine and works on `subs` directly.      *)
(*                                                                         *)
(* `subs` is a Go slice: a header (array, length) over a backing array     *)
(* that a `for range` and an in-place removal share.  The arrays are kept  *)
(* in `arrays`; a header with arr = 0 is the nil slice.                    *)
(*                                                                         *)
(* State (FilterAndUpdate, SetAndDiff) and Subscriber are not part of      *)
(* cluster.go; they are modelled from the specification of the view.       *)
(***************************************************************************)
EXTENDS Naturals, Sequences, FiniteSets, SequencesExt

CONSTANTS
    Nodes,            \* node ids
    InitialNodes,     \* the nodes NewCluster is given
    Subs,             \* subscriptions: each stands for the channel one Subscribe makes
    Readers,          \* goroutines that call Members
    MaxIngest,        \* bound on the items received on ch
    MaxBatch,         \* bound on the length of one []NodeUpdate
    QuiescentClose,   \* TRUE: Close is called after ch was closed, with no
                      \* request pending
    CloseIsLast,      \* TRUE: nothing is called once Close was called
    Nil               \* the zero value of an array slot

ASSUME /\ InitialNodes \subseteq Nodes
       /\ MaxIngest \in Nat /\ MaxBatch \in Nat \ {0}
       /\ QuiescentClose \in BOOLEAN /\ CloseIsLast \in BOOLEAN
       /\ Nil \notin Subs

VARIABLES
    nodes,      \* c.State.Nodes
    ch,         \* c.ch as the loop has it: "open", "closed" (not yet seen), "nil"
    reqCh,      \* c.reqCh: "open", "closed", "nil"
    ingested,   \* number of items received on ch
    arrays,     \* the backing arrays ever allocated for c.subs
    subs,       \* c.subs: [arr, len]
    loop,       \* the loop goroutine: [pc, view, i, outgoing]
    closer,     \* the goroutine in Close: [pc, view, i]
    chan,       \* per subscription: its channel is "none", "open" or "closed"
    client,     \* per subscription and per reader: what the calling goroutine is doing
    view,       \* per subscription: InitialMembers with every received update applied
    panicked    \* "none", or the panic that ended the process

vars == <<nodes, ch, reqCh, ingested, arrays, subs, loop, closer, chan, client,
          view, panicked>>

-----------------------------------------------------------------------------
(* NodeUpdate and cluster state, from the specification                    *)

NodeUpdate == [kind : {"Added", "Removed"}, node : Nodes]

Apply(set, u) == IF u.kind = "Added" THEN set \cup {u.node} ELSE set \ {u.node}

ApplyAll(set, updates) == FoldLeft(Apply, set, updates)

\* An update changes something: Added of an absent node, Removed of a present one.
Effective(set, u) == Apply(set, u) # set

\* State.FilterAndUpdate: apply each update in turn, keep the ones that
\* changed the state.
RECURSIVE FilterAndUpdate(_, _)
FilterAndUpdate(set, updates) ==
    IF updates = <<>> THEN <<>>
    ELSE LET u == Head(updates)
             rest == FilterAndUpdate(Apply(set, u), Tail(updates))
         IN  IF Effective(set, u) THEN <<u>> \o rest ELSE rest

\* State.SetAndDiff: replace the node set, emit removals then additions.
SetAndDiff(set, new) ==
    LET Updates(kind, S) == [i \in 1..Cardinality(S) |-> [kind |-> kind, node |-> SetToSeq(S)[i]]]
    IN  Updates("Removed", set \ new) \o Updates("Added", new \ set)

\* What may arrive on ch: a []NodeUpdate or a []Node.
Item == [updates : BoundedSeq(NodeUpdate, MaxBatch) \ {<<>>}] \cup [nodes : SUBSET Nodes]

Outgoing(item) ==
    IF "updates" \in DOMAIN item THEN FilterAndUpdate(nodes, item.updates)
                                 ELSE SetAndDiff(nodes, item.nodes)

-----------------------------------------------------------------------------
(* Go slices                                                               *)

NilSlice == [arr |-> 0, len |-> 0]

Cap(s) == IF s.arr = 0 THEN 0 ELSE Len(arrays[s.arr])

\* s[k], read through the backing array as it is now.
At(s, k) == arrays[s.arr][k]

Elems(s) == {At(s, k) : k \in 1..s.len}

GrownCapNone(c) == c

\* The capacity append gives a full array: 0, 1, 2, 4.
GrownCap(c) == IF c = 0 THEN 1 ELSE 2 * c

\* append(s, x): in place when the capacity allows, else into a new array.
SliceAppend(s, x) ==
    IF s.len < Cap(s)
    THEN [arrays |-> [arrays EXCEPT ![s.arr][s.len + 1] = x],
          slice  |-> [s EXCEPT !.len = @ + 1]]
    ELSE [arrays |-> Append(arrays,
                        [k \in 1..GrownCap(Cap(s)) |->
                            IF k <= s.len THEN At(s, k) ELSE IF k = s.len + 1 THEN x ELSE Nil]),
          slice  |-> [arr |-> Len(arrays) + 1, len |-> s.len + 1]]

RemoveLast(s, i) == [arrays |-> arrays, slice |-> [s EXCEPT !.len = @ - 1]]

RemoveKeepLen(s, i) ==
    [arrays |-> [arrays EXCEPT ![s.arr] =
                    [k \in 1..Cap(s) |-> IF k >= i /\ k < s.len THEN @[k + 1] ELSE @[k]]],
     slice  |-> s]

\* append(s[0:i], s[i+1:]...) for the element at (1-based) index i: the tail
\* moves down one slot inside the same array, whose last used slot keeps its
\* old value.
SliceRemove(s, i) ==
    [arrays |-> [arrays EXCEPT ![s.arr] =
                    [k \in 1..Cap(s) |-> IF k >= i /\ k < s.len THEN @[k + 1] ELSE @[k]]],
     slice  |-> [s EXCEPT !.len = @ - 1]]

\* Cluster.current(): the nodes, sorted (the order is not told apart).
current == nodes

-----------------------------------------------------------------------------
Alive == panicked = "none"

\* The goroutines blocked in a send on c.reqCh.
Pending == {c \in Subs \cup Readers : client[c] \in {"subscribing", "unsubscribing", "waiting"}}

DoneEither == ch = "nil" \/ reqCh = "nil"

\* Cluster.done(): the loop ends when both channels are nil.
done == ch = "nil" /\ reqCh = "nil"

\* The loop is in its select: `for !c.done() { select {`.
AtSelect == Alive /\ loop.pc = "select" /\ ~done

\* `for _, sub := range c.subs`: the range keeps the header it started with.
StartRange(g, pcIn, pcAfter) ==
    IF subs.len = 0 THEN [g EXCEPT !.pc = pcAfter]
                    ELSE [g EXCEPT !.pc = pcIn, !.view = subs, !.i = 1]

AdvanceShort(g, pcAfter) ==
    IF g.i + 1 >= g.view.len THEN [g EXCEPT !.pc = pcAfter, !.view = NilSlice, !.i = 1]
                            ELSE [g EXCEPT !.i = @ + 1]

\* The next iteration, or the end of the range (whose locals are then dead).
Advance(g, pcAfter) ==
    IF g.i = g.view.len THEN [g EXCEPT !.pc = pcAfter, !.view = NilSlice, !.i = 1]
                        ELSE [g EXCEPT !.i = @ + 1]

\* handleReq, case chan []NodeUpdate: drop the subscription from c.subs and
\* close it, if it is there.
CloseSubscription(s) ==
    IF s \in Elems(subs)
    THEN LET i == CHOOSE k \in 1..subs.len : At(subs, k) = s /\ \A j \in 1..(k - 1) : At(subs, j) # s
             r == SliceRemove(subs, i)
         IN  /\ arrays' = r.arrays
             /\ subs' = r.slice
             /\ IF chan[s] = "open"
                THEN chan' = [chan EXCEPT ![s] = "closed"] /\ UNCHANGED panicked
                ELSE panicked' = "close of closed channel" /\ UNCHANGED chan
    ELSE UNCHANGED <<arrays, subs, chan, panicked>>

-----------------------------------------------------------------------------
(* The callers                                                             *)

\* A send on c.reqCh from Members, Subscribe or closeSubscription.  It blocks
\* until the loop receives it; on a closed channel it panics; once the loop
\* has set c.reqCh to nil the unsynchronised read of the field yields the
\* closed channel or nil, and on nil the caller blocks for ever.
SendRequest(c, from, blocked) ==
    /\ Alive
    /\ client[c] = from
    /\ CloseIsLast => closer.pc = "idle"
    /\ \/ /\ reqCh = "open"
          /\ client' = [client EXCEPT ![c] = blocked]
          /\ UNCHANGED panicked
       \/ /\ reqCh # "open"
          /\ panicked' = "send on closed channel"
          /\ UNCHANGED client
       \/ /\ reqCh = "nil"
          /\ client' = [client EXCEPT ![c] = "hung"]
          /\ UNCHANGED panicked
    /\ UNCHANGED <<nodes, ch, reqCh, ingested, arrays, subs, loop, closer, chan, view>>

Subscribe(s) == SendRequest(s, "new", "subscribing")

\* Subscriber.Close, through Cluster.closeSubscription.
Unsubscribe(s) == SendRequest(s, "open", "unsubscribing")

Members(r) == SendRequest(r, "idle", "waiting")

\* The producer closes ch.
CloseInput ==
    /\ Alive /\ ch = "open"
    /\ ch' = "closed"
    /\ UNCHANGED <<nodes, reqCh, ingested, arrays, subs, loop, closer, chan, client,
                   view, panicked>>

-----------------------------------------------------------------------------
(* The loop goroutine                                                      *)

\* case nodesOrUpdates := <-c.ch: update the state, then range over c.subs.
LoopReceiveItem(item) ==
    /\ AtSelect /\ ch = "open"
    /\ ingested < MaxIngest
    /\ ingested' = ingested + 1
    /\ nodes' = ApplyAll(nodes, Outgoing(item))
    /\ loop' = [StartRange(loop, "send", "select") EXCEPT
                    !.outgoing = IF subs.len = 0 THEN <<>> ELSE Outgoing(item)]
    /\ UNCHANGED <<ch, reqCh, arrays, subs, closer, chan, client, view, panicked>>

\* sub <- outgoing, for the subscription at the range's index.
LoopSend ==
    /\ Alive /\ loop.pc = "send"
    /\ LET s == At(loop.view, loop.i)
       IN  \/ /\ chan[s] = "open"
              /\ view' = [view EXCEPT ![s] = ApplyAll(@, loop.outgoing)]
              /\ loop' = [Advance(loop, "select") EXCEPT
                              !.outgoing = IF loop.i = loop.view.len THEN <<>> ELSE @]
              /\ UNCHANGED panicked
           \/ /\ chan[s] # "open"
              /\ panicked' = "send on closed channel"
              /\ UNCHANGED <<view, loop>>
    /\ UNCHANGED <<nodes, ch, reqCh, ingested, arrays, subs, closer, chan, client>>

\* case _, ok := <-c.ch with !ok: c.ch = nil.
LoopInputClosed ==
    /\ AtSelect /\ ch = "closed"
    /\ ch' = "nil"
    /\ UNCHANGED <<nodes, reqCh, ingested, arrays, subs, loop, closer, chan, client,
                   view, panicked>>

\* case req := <-c.reqCh, a chan []Node: reply c.current().
LoopMembers(r) ==
    /\ AtSelect /\ reqCh = "open"
    /\ client[r] = "waiting"
    /\ client' = [client EXCEPT ![r] = "idle"]
    /\ UNCHANGED <<nodes, ch, reqCh, ingested, arrays, subs, loop, closer, chan, view, panicked>>

\* case req := <-c.reqCh, a chan Subscriber: make the channel and the
\* Subscriber with the current members, append the channel to c.subs, reply.
LoopSubscribe(s) ==
    /\ AtSelect /\ reqCh = "open"
    /\ client[s] = "subscribing"
    /\ chan' = [chan EXCEPT ![s] = "open"]
    /\ view' = [view EXCEPT ![s] = current]
    /\ arrays' = SliceAppend(subs, s).arrays
    /\ subs' = SliceAppend(subs, s).slice
    /\ client' = [client EXCEPT ![s] = "open"]
    /\ UNCHANGED <<nodes, ch, reqCh, ingested, loop, closer, panicked>>

\* case req := <-c.reqCh, a chan []NodeUpdate: close of a subscription.
LoopUnsubscribe(s) ==
    /\ AtSelect /\ reqCh = "open"
    /\ client[s] = "unsubscribing"
    /\ CloseSubscription(s)
    /\ client' = [client EXCEPT ![s] = "closed"]
    /\ UNCHANGED <<nodes, ch, reqCh, ingested, loop, closer, view>>

\* case _, ok := <-c.reqCh with !ok: c.reqCh = nil.
LoopRequestsClosed ==
    /\ AtSelect /\ reqCh = "closed"
    /\ reqCh' = "nil"
    /\ UNCHANGED <<nodes, ch, ingested, arrays, subs, loop, closer, chan, client,
                   view, panicked>>

\* done(): both channels are nil; the loop ends and ranges over c.subs to
\* close what is left.
LoopDone ==
    /\ Alive /\ loop.pc = "select" /\ done
    /\ loop' = StartRange(loop, "close", "exited")
    /\ UNCHANGED <<nodes, ch, reqCh, ingested, arrays, subs, closer, chan, client,
                   view, panicked>>

\* close(sub) after the loop.
LoopCloseSub ==
    /\ Alive /\ loop.pc = "close"
    /\ LET s == At(loop.view, loop.i)
       IN  \/ /\ chan[s] = "open"
              /\ chan' = [chan EXCEPT ![s] = "closed"]
              /\ loop' = Advance(loop, "exited")
              /\ UNCHANGED panicked
           \/ /\ chan[s] # "open"
              /\ panicked' = "close of closed channel"
              /\ UNCHANGED <<chan, loop>>
    /\ UNCHANGED <<nodes, ch, reqCh, ingested, arrays, subs, closer, client, view>>

-----------------------------------------------------------------------------
(* Close, on the caller's goroutine                                        *)

\* for _, s := range c.subs: the range starts.
CloseBegin ==
    /\ Alive /\ closer.pc = "idle"
    /\ QuiescentClose => loop.pc = "select" /\ ch # "open" /\ Pending = {}
    /\ closer' = StartRange(closer, "handle", "clear")
    /\ UNCHANGED <<nodes, ch, reqCh, ingested, arrays, subs, loop, chan, client,
                   view, panicked>>

\* c.handleReq(s) for the element the range reads at its index.
CloseHandle ==
    /\ Alive /\ closer.pc = "handle"
    /\ CloseSubscription(At(closer.view, closer.i))
    /\ closer' = Advance(closer, "clear")
    /\ UNCHANGED <<nodes, ch, reqCh, ingested, loop, client, view>>

\* c.subs = nil.
CloseClear ==
    /\ Alive /\ closer.pc = "clear"
    /\ subs' = NilSlice
    /\ closer' = [closer EXCEPT !.pc = "closeReqCh"]
    /\ UNCHANGED <<nodes, ch, reqCh, ingested, arrays, loop, chan, client, view, panicked>>

\* close(c.reqCh): a goroutine blocked in a send on it panics.
CloseRequests ==
    /\ Alive /\ closer.pc = "closeReqCh"
    /\ reqCh' = "closed"
    /\ closer' = [closer EXCEPT !.pc = "returned"]
    /\ panicked' = IF Pending = {} THEN "none" ELSE "send on closed channel"
    /\ UNCHANGED <<nodes, ch, ingested, arrays, subs, loop, chan, client, view>>

-----------------------------------------------------------------------------
\* NewCluster(state, ch): the constructor takes the node list and starts the loop.
Init ==
    /\ nodes = InitialNodes
    /\ ch = "open"
    /\ reqCh = "open"
    /\ ingested = 0
    /\ arrays = <<>>
    /\ subs = NilSlice
    /\ loop = [pc |-> "select", view |-> NilSlice, i |-> 1, outgoing |-> <<>>]
    /\ closer = [pc |-> "idle", view |-> NilSlice, i |-> 1]
    /\ chan = [s \in Subs |-> "none"]
    /\ client = [c \in Subs \cup Readers |-> IF c \in Subs THEN "new" ELSE "idle"]
    /\ view = [s \in Subs |-> {}]
    /\ panicked = "none"

LoopNext ==
    \/ \E item \in Item : LoopReceiveItem(item)
    \/ LoopSend
    \/ LoopInputClosed
    \/ \E r \in Readers : LoopMembers(r)
    \/ \E s \in Subs : LoopSubscribe(s) \/ LoopUnsubscribe(s)
    \/ LoopRequestsClosed
    \/ LoopDone
    \/ LoopCloseSub

CloseNext == CloseBegin \/ CloseHandle \/ CloseClear \/ CloseRequests

Next ==
    \/ \E s \in Subs : Subscribe(s) \/ Unsubscribe(s)
    \/ \E r \in Readers : Members(r)
    \/ CloseInput
    \/ LoopNext
    \/ CloseNext

Spec == Init /\ [][Next]_vars

\* The loop goroutine runs whenever it can.  select picks among its ready
\* cases at random, so a request that stays ready while the loop comes back
\* to the select again and again is received in the end.
Fairness ==
    /\ WF_vars(LoopSend) /\ WF_vars(LoopCloseSub) /\ WF_vars(LoopDone)
    /\ WF_vars(LoopInputClosed) /\ WF_vars(LoopRequestsClosed)
    /\ \A r \in Readers : SF_vars(LoopMembers(r))
    /\ \A s \in Subs : SF_vars(LoopSubscribe(s)) /\ SF_vars(LoopUnsubscribe(s))

FairSpec == Spec /\ Fairness

-----------------------------------------------------------------------------
Slice == [arr : 0..Len(arrays), len : 0..Cardinality(Subs)]

TypeOK ==
    /\ nodes \in SUBSET Nodes
    /\ ch \in {"open", "closed", "nil"} /\ reqCh \in {"open", "closed", "nil"}
    /\ ingested \in 0..MaxIngest
    /\ arrays \in Seq(Seq(Subs \cup {Nil}))
    /\ subs \in Slice /\ subs.len <= Cap(subs)
    /\ loop \in [pc : {"select", "send", "close", "exited"}, view : Slice,
                 i : 1..Cardinality(Subs), outgoing : Seq(NodeUpdate)]
    /\ closer \in [pc : {"idle", "handle", "clear", "closeReqCh", "returned"},
                   view : Slice, i : 1..Cardinality(Subs)]
    /\ chan \in [Subs -> {"none", "open", "closed"}]
    /\ client \in [Subs \cup Readers -> {"new", "subscribing", "open", "unsubscribing",
                                         "closed", "idle", "waiting", "hung"}]
    /\ view \in [Subs -> SUBSET Nodes]

CloseCalled == closer.pc # "idle"

\* As long as Close has not been called, c.subs holds exactly the open
\* subscription channels, each once: handleReq appends a channel when it makes
\* it and removes it from the slice when it closes it, whatever the order of
\* the Subscribe and Subscriber.Close calls and the position of the channel
\* in the backing array.
RegisteredIffOpen ==
    ~CloseCalled /\ loop.pc \in {"select", "send"} =>
        /\ \A s \in Subs : s \in Elems(subs) <=> chan[s] = "open"
        /\ Cardinality(Elems(subs)) = subs.len

\* A subscriber's picture of the cluster (the members it was given by
\* Subscribe, with every update it received since applied in order) is the
\* cluster's own node set whenever the loop is back at its select: the loop
\* sends each ingest's changes to every subscription before it takes the next
\* request or item.
ViewConsistent ==
    ~CloseCalled /\ loop.pc = "select" =>
        \A s \in Subs : chan[s] = "open" => view[s] = nodes

\* Without a call of Close nothing panics: Members, Subscribe and
\* Subscriber.Close go through reqCh to the loop, which never sends on or
\* closes a channel it has closed before.
PanicOnlyAfterClose == ~CloseCalled => Alive

\* Every Members, Subscribe and Subscriber.Close call is answered unless Close
\* is called while it waits: the loop keeps receiving from reqCh between its
\* ranges of sends, also after the input channel was closed and set to nil.
EveryRequestAnswered ==
    \A c \in Subs \cup Readers : (c \in Pending) ~> (c \notin Pending \/ CloseCalled)

\* "Close-of-input propagates to all subscribers": once the input is closed,
\* Close has returned and the loop has ended, no subscription channel is left
\* open.  Close removes from c.subs while it ranges over it, and sets c.subs
\* to nil before the loop gets to close what Close skipped.
CloseReachesEverySubscriber ==
    closer.pc = "returned" /\ loop.pc = "exited" => \A s \in Subs : chan[s] # "open"

\* "Public operations are serialized through a request channel": no call
\* crashes the view.  Close works on c.subs and closes channels on the
\* caller's goroutine, while the loop may be sending on them.
NeverPanics == Alive

=============================================================================
