----------------------------- MODULE CasServer -----------------------------
(***************************************************************************)
(* The CAS, ByteStream and ActionCache server (package cas): gRPC runs     *)
(* every call on a goroutine of its own over one store.  The handlers keep *)
(* no state of their own between calls; what they share is the store, and  *)
(* a streaming call reads or writes it in steps that other calls run       *)
(* between.                                                                *)
(*                                                                         *)
(* A digest is a record [hash, size], and DigestStoreName is one-to-one on *)
(* digests, so a digest is also its name in the store.  Data is told apart *)
(* by its length only.  The store (Exists, OpenForRead, Write) is not part *)
(* of the source: it is a map from names to contents in which Write        *)
(* replaces what is there, and any call of which may fail when Faulty.     *)
(***************************************************************************)
EXTENDS Integers, FiniteSets

CONSTANTS
    Clients,               \* the goroutines serving calls
    Digests,               \* the digests clients name: records [hash, size]
    EmptySha,              \* bazel.EmptySha
    DefaultReadCapacity,   \* the chunk size of Read
    ArLen,                 \* the length of a serialized ActionResult
    MaxBuf,                \* bound on the bytes one Write buffers
    Initialized,           \* MakeCASServer was given a store
    Faulty,                \* TRUE: store and stream calls may fail
    Invalid,               \* a resource name that does not parse, an invalid digest
    NoName,                \* the empty resource name
    Nil

ASSUME /\ DefaultReadCapacity \in Nat \ {0} /\ ArLen \in Nat /\ MaxBuf \in Nat
       /\ Initialized \in BOOLEAN /\ Faulty \in BOOLEAN
       /\ \A d \in Digests : d.size \in 0..MaxBuf

VARIABLES
    store,   \* the store: name -> [kind, len]
    pc,      \* per client: "idle" or the handler step it is at
    loc,     \* per client: the locals of its handler
    ret,     \* per client: the reply to the call it made last, until it calls again
    acked    \* history: the digests a Write was answered OK for

vars == <<store, pc, loc, ret, acked>>

-----------------------------------------------------------------------------
(* The store, from its use                                                 *)

Blob(len) == [kind |-> "blob", len |-> len]
ActionResult == [kind |-> "ar", len |-> ArLen]

Exists(d) == d \in DOMAIN store
Put(d, content) == [n \in DOMAIN store \cup {d} |-> IF n = d THEN content ELSE store[n]]

-----------------------------------------------------------------------------
IsEmpty(d) == d.hash = EmptySha

LookedUpAlways(d) == TRUE

\* FindMissingBlobs looks a digest up unless it is the empty one.
LookedUp(d) == ~IsEmpty(d)

SizeAny(committed, size) == TRUE

\* Write's check of the buffered length against the digest.
SizeOK(committed, size) == committed = size

RemainingSwapped(len, offset) == offset - len
RemainingAll(len, offset) == len

\* What is left to read once io.CopyN has discarded `offset` bytes.
Remaining(len, offset) == len - offset

ChunkCapOfLimit(limit) == IF limit < DefaultReadCapacity THEN limit ELSE DefaultReadCapacity

\* The capacity of Read's chunk buffer.
ChunkCap(limit) == IF limit > 0 /\ limit < DefaultReadCapacity THEN limit
                                                               ELSE DefaultReadCapacity

Idle == [op |-> "none"]
NoReply == [code |-> "none", n |-> 0, missing |-> {}]

\* The handler goes on at `label`; the reply of the call before is forgotten.
Goto(c, label, locals) ==
    /\ pc' = [pc EXCEPT ![c] = label]
    /\ loc' = [loc EXCEPT ![c] = locals]
    /\ ret' = [ret EXCEPT ![c] = NoReply]

\* The call ends with a status code, a byte count and a set of digests.
Answer(c, code, n, missing) ==
    /\ pc' = [pc EXCEPT ![c] = "idle"]
    /\ loc' = [loc EXCEPT ![c] = Idle]
    /\ ret' = [ret EXCEPT ![c] = [code |-> code, n |-> n, missing |-> missing]]

Return(c, code, n) == Answer(c, code, n, {})

\* ser.SendAndClose(res) of Write: the answer reaches the client or not.
SendAndClose(c, d, committed) ==
    \/ Return(c, "OK", committed) /\ acked' = acked \cup {d}
    \/ Faulty /\ Return(c, "Internal", 0) /\ UNCHANGED acked

\* Every handler starts with IsInitialized.
Uninitialized(c) == ~Initialized /\ Return(c, "Internal", 0)

\* BatchUpdateBlobs, GetTree, QueryWriteStatus.
Unsupported(c) ==
    /\ pc[c] = "idle"
    /\ Return(c, "Unimplemented", 0)
    /\ UNCHANGED <<store, acked>>

-----------------------------------------------------------------------------
\* FindMissingBlobs is called with the digests `ds`.
FindMissingBlobsCall(c, ds) ==
    /\ pc[c] = "idle"
    /\ \/ Uninitialized(c)
       \/ /\ Initialized
          /\ Goto(c, "FindMissingBlobs",
                  [op |-> "Find", todo |-> ds, missing |-> {}, known |-> acked \cap ds])
    /\ UNCHANGED <<store, acked>>

\* One turn of its loop (the order of the list is not told apart), or the
\* answer after the last.
FindMissingBlobs(c) ==
    /\ pc[c] = "FindMissingBlobs"
    /\ LET l == loc[c]
           Step(d, missing) == Goto(c, "FindMissingBlobs",
                                    [l EXCEPT !.todo = @ \ {d}, !.missing = @ \cup missing])
       IN  \/ l.todo = {} /\ Answer(c, "OK", 0, l.missing)
           \/ \E d \in l.todo :
                 \/ ~LookedUp(d) /\ Step(d, {})
                 \/ LookedUp(d) /\ Faulty /\ Return(c, "Internal", 0)
                 \/ LookedUp(d) /\ Step(d, IF Exists(d) THEN {} ELSE {d})
    /\ UNCHANGED <<store, acked>>

\* Read up to the loop: the resource name, offset and limit are validated,
\* the blob is opened (the empty one without the store), the offset is
\* skipped and the chunk buffer is made.
Read(c, r) ==
    /\ pc[c] = "idle"
    /\ LET len == IF IsEmpty(r.name) THEN 0 ELSE store[r.name].len
           opened == IsEmpty(r.name) \/ Exists(r.name)
       IN  \/ Uninitialized(c)
           \/ Initialized /\ r.name = Invalid /\ Return(c, "InvalidArgument", 0)
           \/ Initialized /\ r.name # Invalid /\ r.offset < 0 /\ Return(c, "OutOfRange", 0)
           \/ /\ Initialized /\ r.name # Invalid /\ r.offset >= 0 /\ r.limit < 0
              /\ Return(c, "InvalidArgument", 0)
           \/ /\ Initialized /\ r.name # Invalid /\ r.offset >= 0 /\ r.limit >= 0
              /\ \/ ~IsEmpty(r.name) /\ (Faulty \/ ~opened) /\ Return(c, "NotFound", 0)
                 \/ /\ opened
                    /\ r.offset > len \/ (Faulty /\ r.offset > 0)
                    /\ Return(c, "Internal", 0)
                 \/ /\ opened
                    /\ r.offset <= len
                    /\ Goto(c, "ReadChunk",
                            [op |-> "Read", offset |-> r.offset, limit |-> r.limit, len |-> len,
                             left |-> Remaining(len, r.offset), sent |-> 0, failed |-> FALSE])
    /\ UNCHANGED <<store, acked>>

\* What r.Read(p[:cap(p)]) may return for the reader state r: up to cap(p)
\* of the bytes left, with nil, with io.EOF at the end of the blob, or, when
\* the store is `faulty`, with an error.  A read into an empty buffer
\* returns (0, nil), a reader that failed fails again.
ReadResults(r, faulty) ==
    LET ns == {n \in 0..r.left : n <= ChunkCap(r.limit)}
        Results(S, err) == {[n |-> n, err |-> err] : n \in S}
    IN  IF r.failed THEN Results({0}, "error")
        ELSE Results({n \in ns : n > 0 \/ ChunkCap(r.limit) = 0}, "nil")
                \cup Results(ns \cap {r.left}, "EOF")
                \cup Results(IF faulty THEN ns ELSE {}, "error")

\* One turn of Read's loop: r.Read into the chunk buffer and, for n > 0,
\* Send, whose result replaces the err of r.Read; then continue on nil,
\* the end of the stream on io.EOF, Internal on any other error.
ReadTurn(c, faulty) ==
    \E res \in ReadResults(loc[c], faulty) :
        \/ res.n > 0 /\ faulty /\ Return(c, "Internal", 0)
        \/ /\ res.n > 0 \/ res.err = "nil"
           /\ Goto(c, "ReadChunk", [loc[c] EXCEPT !.left = @ - res.n, !.sent = @ + res.n,
                                                  !.failed = res.err = "error"])
        \/ res.n = 0 /\ res.err = "EOF" /\ Return(c, "OK", loc[c].sent)
        \/ res.n = 0 /\ res.err = "error" /\ Return(c, "Internal", 0)

\* Read's loop, over a store and a stream that may fail when Faulty.
ReadChunk(c) == pc[c] = "ReadChunk" /\ ReadTurn(c, Faulty) /\ UNCHANGED <<store, acked>>

\* Write is called: no resource yet, nothing buffered.
WriteCall(c) ==
    /\ pc[c] = "idle"
    /\ \/ Uninitialized(c)
       \/ Initialized /\ Goto(c, "WriteRecv", [op |-> "Write", res |-> Nil, buf |-> 0])
    /\ UNCHANGED <<store, acked>>

\* One turn of Write's loop: Recv, on the first request the resource, the
\* empty digest and the existence check, then the validation of the request
\* and the data appended to the buffer.
WriteRecv(c, wr) ==
    /\ pc[c] = "WriteRecv"
    /\ LET first == loc[c].res = Nil
           d == IF first THEN wr.name ELSE loc[c].res
       IN  \/ Faulty /\ Return(c, "Internal", 0) /\ UNCHANGED acked
           \/ first /\ d \notin Digests /\ Return(c, "InvalidArgument", 0) /\ UNCHANGED acked
           \/ first /\ d \in Digests /\ IsEmpty(d) /\ SendAndClose(c, d, 0)
           \/ first /\ d \in Digests /\ ~IsEmpty(d) /\ Exists(d) /\ SendAndClose(c, d, d.size)
           \/ /\ first => d \in Digests /\ ~IsEmpty(d) /\ ~Exists(d)
              /\ UNCHANGED acked
              /\ IF wr.name \notin {NoName, d} THEN Return(c, "InvalidArgument", 0)
                 ELSE IF wr.offset > 0 THEN Return(c, "Unimplemented", 0)
                 ELSE /\ loc[c].buf + wr.data <= MaxBuf
                      /\ Goto(c, IF wr.finish THEN "WriteCommit" ELSE "WriteRecv",
                              [loc[c] EXCEPT !.res = d, !.buf = @ + wr.data])
    /\ UNCHANGED store

\* Write after the loop: the length check and Store.Write.  The blob is in
\* the store before the client is answered.
WriteCommit(c) ==
    /\ pc[c] = "WriteCommit"
    /\ LET d == loc[c].res
           committed == loc[c].buf
       IN  \/ /\ ~SizeOK(committed, d.size) \/ Faulty
              /\ Return(c, "Internal", 0)
              /\ UNCHANGED store
           \/ /\ SizeOK(committed, d.size)
              /\ store' = Put(d, Blob(committed))
              /\ Goto(c, "WriteAck", loc[c])
    /\ UNCHANGED acked

\* Write's answer for the blob it stored.
WriteAck(c) ==
    /\ pc[c] = "WriteAck"
    /\ SendAndClose(c, loc[c].res, loc[c].buf)
    /\ UNCHANGED store

\* GetActionResult: the digest is validated, the stored bytes are read and
\* deserialized; bytes that are no ActionResult may fail to deserialize.
GetActionResult(c, d) ==
    /\ pc[c] = "idle"
    /\ \/ Uninitialized(c)
       \/ Initialized /\ d = Invalid /\ Return(c, "InvalidArgument", 0)
       \/ Initialized /\ d # Invalid /\ IsEmpty(d) /\ Return(c, "OK", 0)
       \/ /\ Initialized /\ d # Invalid /\ ~IsEmpty(d)
          /\ \/ (Faulty \/ ~Exists(d)) /\ Return(c, "NotFound", 0)
             \/ Exists(d) /\ Return(c, "OK", store[d].len)
             \/ Exists(d) /\ (Faulty \/ store[d].kind # "ar") /\ Return(c, "Internal", 0)
    /\ UNCHANGED <<store, acked>>

\* UpdateActionResult: the digest and the result are validated, the
\* serialized result is written under the action digest's name.
UpdateActionResult(c, d, result) ==
    /\ pc[c] = "idle"
    /\ LET valid == d # Invalid /\ result # Nil
       IN  \/ Uninitialized(c) /\ UNCHANGED store
           \/ Initialized /\ ~valid /\ Return(c, "InvalidArgument", 0) /\ UNCHANGED store
           \/ Initialized /\ valid /\ IsEmpty(d) /\ Return(c, "OK", 0) /\ UNCHANGED store
           \/ Initialized /\ valid /\ ~IsEmpty(d) /\ Faulty
                          /\ Return(c, "Internal", 0) /\ UNCHANGED store
           \/ Initialized /\ valid /\ ~IsEmpty(d)
                          /\ store' = Put(d, ActionResult) /\ Return(c, "OK", ArLen)
    /\ UNCHANGED acked

-----------------------------------------------------------------------------
\* The requests clients send: offsets before, in and past a blob, a limit
\* that is invalid, absent or below the chunk size.
ReadRequest == [name : Digests \cup {Invalid}, offset : -1..MaxBuf, limit : -1..1]

WriteRequest == [name : Digests \cup {Invalid, NoName}, offset : 0..1, data : 0..2,
                 finish : BOOLEAN]

\* MakeCASServer: an empty store, no call in progress.
Init ==
    /\ store = <<>>
    /\ pc = [c \in Clients |-> "idle"]
    /\ loc = [c \in Clients |-> Idle]
    /\ ret = [c \in Clients |-> NoReply]
    /\ acked = {}

Next ==
    \E c \in Clients :
        \/ Unsupported(c)
        \/ \E ds \in SUBSET Digests : FindMissingBlobsCall(c, ds)
        \/ FindMissingBlobs(c)
        \/ \E r \in ReadRequest : Read(c, r)
        \/ ReadChunk(c)
        \/ WriteCall(c)
        \/ \E wr \in WriteRequest : WriteRecv(c, wr)
        \/ WriteCommit(c)
        \/ WriteAck(c)
        \/ \E d \in Digests \cup {Invalid} :
              \/ GetActionResult(c, d)
              \/ \E result \in {"ar", Nil} : UpdateActionResult(c, d, result)

Spec == Init /\ [][Next]_vars

\* A handler is a goroutine that runs when it can: FindMissingBlobs takes
\* its next turn, and Read the turn a working store and stream give it (a
\* failure may happen and is never owed).  Nothing obliges a client to call
\* or to go on with the stream of a Write.
Fairness ==
    \A c \in Clients :
        /\ WF_vars(FindMissingBlobs(c))
        /\ WF_vars(pc[c] = "ReadChunk" /\ ReadTurn(c, FALSE) /\ UNCHANGED <<store, acked>>)

FairSpec == Spec /\ Fairness

-----------------------------------------------------------------------------
TypeOK ==
    /\ DOMAIN store \subseteq Digests
    /\ \A d \in DOMAIN store : store[d] \in [kind : {"blob", "ar"}, len : 0..MaxBuf]
    /\ pc \in [Clients -> {"idle", "FindMissingBlobs", "ReadChunk", "WriteRecv", "WriteCommit",
                        "WriteAck"}]
    /\ \A c \in Clients :
          \/ loc[c] = Idle
          \/ loc[c] \in [op : {"Find"}, todo : SUBSET Digests, missing : SUBSET Digests,
                         known : SUBSET Digests]
          \/ loc[c] \in [op : {"Read"}, offset : 0..MaxBuf, limit : 0..1, len : 0..MaxBuf,
                         left : 0..MaxBuf, sent : 0..MaxBuf, failed : BOOLEAN]
          \/ loc[c] \in [op : {"Write"}, res : Digests \cup {Nil}, buf : 0..MaxBuf]
    /\ ret \in [Clients -> [code : {"none", "OK", "Internal", "InvalidArgument", "OutOfRange",
                                    "NotFound", "Unimplemented"},
                            n : 0..MaxBuf, missing : SUBSET Digests]]
    /\ acked \subseteq Digests

\* "Digest size ... is a trusted value after insertion": whatever the chunks
\* a blob arrived in, whichever Write calls for the same digest ran beside
\* each other and whichever of their steps failed, a blob that Write put in
\* the store has the length its digest states.
StoredLengthMatchesDigest ==
    \A d \in DOMAIN store : store[d].kind = "blob" => store[d].len = d.size

Returns(c, from) == pc[c] = from /\ pc'[c] = "idle" /\ ret'[c].code = "OK"

\* A FindMissingBlobs answer never lists a digest that a Write had been
\* answered OK for when the call began: Write keeps the empty blob out of the
\* store and trusts Exists for the others, and FindMissingBlobs must agree
\* with both.
AckedNeverMissing ==
    [][\A c \in Clients :
          Returns(c, "FindMissingBlobs") => ret'[c].missing \cap loc[c].known = {}]_vars

\* A Read without a limit that ends OK has sent the blob from the offset to
\* its end, in whatever chunks the reader returned them and whatever failed
\* on the way (Read's loop over r.Read and Send, whose result replaces the
\* error of r.Read, and the io.CopyN before it).
ReadSendsFromOffset ==
    [][\A c \in Clients :
          Returns(c, "ReadChunk") /\ loc[c].limit = 0 =>
              ret'[c].n = loc[c].len - loc[c].offset]_vars

\* "Implements googleapis bytestream Read": read_limit, when it is not 0, is
\* the most bytes the responses of one Read carry together.  Read makes it
\* the capacity of its chunk buffer and then loops to io.EOF.
ReadRespectsLimit ==
    [][\A c \in Clients :
          Returns(c, "ReadChunk") /\ loc[c].limit > 0 => ret'[c].n <= loc[c].limit]_vars

\* Read and FindMissingBlobs end, whatever the offset, the limit and the
\* chunks the reader returns: every turn of Read's loop sends at least one
\* byte or ends the call, because a ReadLimit of 0 (no limit) never becomes
\* the capacity of the chunk buffer, into which r.Read would read nothing
\* for ever.
EveryLoopEnds ==
    \A c \in Clients : pc[c] \in {"ReadChunk", "FindMissingBlobs"} ~> pc[c] = "idle"

\* "If data Exists, terminate immediately with size of existing data (Store
\* is immutable)", "Digest size ... is a trusted value after insertion": a
\* blob that Write answered OK for is in the store under its digest's name,
\* with the size the digest states (Write's Exists path and its Store.Write,
\* beside UpdateActionResult's Store.Write under the action digest's name).
AckedBlobIsStored ==
    \A d \in acked : ~IsEmpty(d) => Exists(d) /\ store[d] = Blob(d.size)

=============================================================================
