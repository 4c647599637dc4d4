------------------------------- MODULE AuditLog -------------------------------
(* engine/audit/log.py, class AuditLog and verify_audit_file: a hash-chained  *)
(* file that several AuditLog objects, of one process or of several, append   *)
(* to under an OS lock.  Each object remembers the head of the chain and how  *)
(* large the file was after its own last append.                              *)
(*                                                                            *)
(* An entry's hash covers its content, which holds a fresh uuid, and the hash *)
(* before it; nobody edits the file, so a hash is a serial number here, and   *)
(* the genesis hash of a chain id is its negative.                            *)
EXTENDS AppendLog, Integers, FiniteSets

CONSTANTS Writers,      \* AuditLog objects
          Durability,   \* "fsync" (or "flush": no crash here is one of the machine) or "os"
          SealEvery,    \* seal_every
          LegacyLines,  \* lines without a hash the file may begin with
          Sizes,        \* of {"small", "big"}: a big entry fills _tail_hash's window
          TornWrites,   \* a crash may fall inside the line being written
          MaxLines,     \* bound: lines after the legacy ones
          MaxCrashes    \* bound: crashes of writers

ASSUME ConstantsAssumption ==
    /\ Durability \in {"fsync", "os"} /\ SealEvery \in Nat \ {0}
    /\ LegacyLines \in Nat /\ Sizes \in SUBSET {"small", "big"} /\ Sizes # {}
    /\ TornWrites \in BOOLEAN /\ MaxLines \in Nat /\ MaxCrashes \in Nat

VARIABLES
    file,       \* the log
    size,       \* st_size: it tells two states of the file apart, and no more
    writer,     \* the fields of each AuditLog object, and where it is
    buffer,     \* what Python's file object has not handed over yet
    serial,     \* hashes and chain ids given out
    acked,      \* history: hashes of the entries whose log_* call has returned
    gaps,       \* history: the assumptions of the code that the run has broken
    crashes

vars == <<file, size, writer, buffer, serial, acked, gaps, crashes>>

NoHash == 0
Genesis(cid) == 0 - cid

\* `data` is the chain id of a header and the count of a seal.
Entry(kind, prev, hash, data, bytes) ==
    [k |-> "entry", kind |-> kind, prev |-> prev, hash |-> hash, data |-> data,
     bytes |-> bytes]

Legacy == Entry("legacy", NoHash, NoHash, 0, "small")

IsEntry(l)  == l.k = "entry"
IsHeader(l) == IsEntry(l) /\ l.kind = "header"
IsHashed(l) == IsEntry(l) /\ l.hash # NoHash
IsSeal(l)   == l.kind = "seal"

\* _read_raw: what cannot be parsed is passed over.  (The numbers of the lines.)
ReadRaw(f) == {n \in DOMAIN f.lines : IsEntry(f.lines[n])}
Hashed(f)  == {n \in DOMAIN f.lines : IsHashed(f.lines[n])}
Headers(f) == {n \in DOMAIN f.lines : IsHeader(f.lines[n])}

\* _tail_hash: the last entry with a hash that lies within the last 64 KB.
TailHash(f) ==
    LET last == f.lines[Max(Hashed(f))]
    IN  IF Hashed(f) = {} \/ last.bytes = "big" THEN NoHash ELSE last.hash
-------------------------------------------------------------------------------
\* verify_audit_file.  Only the last line may be one that cannot be parsed.
Parsed(f) == IF f.lines # <<>> /\ ~IsEntry(Last(f.lines)) THEN Front(f.lines) ELSE f.lines

\* The part of the file that is verified: from the first header on.
Chain(f) == SubSeq(Parsed(f), Min(Headers(f)), Len(Parsed(f)))

Links(f) ==
    LET es == Chain(f)
    IN  /\ \A n \in 1..Len(Parsed(f)) : IsEntry(Parsed(f)[n])
        /\ \A n \in 1..Len(es) :
              es[n].prev = (IF n = 1 THEN Genesis(es[1].data) ELSE es[n - 1].hash)

\* A surviving seal must not attest more entries than there are.
SealsAgree(f) ==
    \A n \in 1..Len(Chain(f)) : IsSeal(Chain(f)[n]) => Chain(f)[n].data <= Len(Chain(f))

Verified(f) == Headers(f) # {} /\ Links(f) /\ SealsAgree(f)

\* With the anchor of an AuditLog.
VerifiedAgainst(f, head, count) ==
    Verified(f) /\ Len(Chain(f)) = count /\ Last(Chain(f)).hash = head
-------------------------------------------------------------------------------
Fields(pc, cid, head, count) ==
    [pc |-> pc, cid |-> cid, head |-> head, count |-> count, lastSize |-> -1, since |-> 0]

Closed == Fields("closed", 0, NoHash, 0)

Init == /\ \E n \in {0, LegacyLines} :
              file = [lines |-> [m \in 1..n |-> Legacy], nl |-> TRUE]
        /\ size = 0
        /\ writer = [w \in Writers |-> Closed]
        /\ buffer = [w \in Writers |-> <<>>]
        /\ serial = 0
        /\ acked = {}
        /\ gaps = {}
        /\ crashes = 0

\* Mutant: the header is not counted.
CountWithoutHeader(f) == Cardinality(ReadRaw(f)) - 1

\* _bootstrap on a chained file: every entry is counted.
BootstrapCount(f) == Cardinality(ReadRaw(f))

\* AuditLog(path), up to the header.  The file is read outside the lock.
Open(w) ==
    LET header == file.lines[Max(Headers(file))]
        last   == file.lines[Max(ReadRaw(file))]
    IN  /\ writer[w].pc = "closed"
        /\ IF Headers(file) # {} /\ last.hash # NoHash
           THEN /\ writer' = [writer EXCEPT ![w] =
                       Fields("open", header.data, last.hash, BootstrapCount(file))]
                /\ gaps' = gaps \cup {g \in {"prefix"} :
                                         Cardinality(ReadRaw(file)) > Len(Chain(file))}
                /\ UNCHANGED serial
           ELSE /\ serial' = serial + 1
                /\ writer' = [writer EXCEPT ![w] =
                       Fields("new", serial + 1, Genesis(serial + 1), 0)]
                /\ UNCHANGED gaps
        /\ UNCHANGED <<file, size, buffer, acked, crashes>>

\* Mutant: the head is not read again under the lock.
HeadKept(w) == writer[w].head

\* The head an append chains onto: re-read when someone else has written.
SyncedHead(w) ==
    IF writer[w].lastSize # size /\ TailHash(file) # NoHash
    THEN TailHash(file) ELSE writer[w].head

\* What goes wrong unnoticed when w appends now.
GapsOf(w) ==
    {g \in {"glued", "window", "unflushed", "shared"} :
        \/ g = "glued" /\ ~file.nl
        \/ g = "window" /\ writer[w].lastSize # size /\ TailHash(file) = NoHash
                        /\ Hashed(file) # {}
        \/ g = "unflushed" /\ \E v \in Writers \ {w} : buffer[v] # <<>>
        \/ g = "shared" /\ SyncedHead(w) # writer[w].head}

\* Mutant: the call returns before the entry is handed over.
FlushedNever == FALSE

\* The entry is handed to the operating system before the call returns.
Flushed == Durability # "os"

Room(n) == Cardinality({m \in DOMAIN file.lines : file.lines[m] # Legacy}) + n < MaxLines

\* The fields after an append: the new entry is the head.
Advanced(fields, pc, since, st_size) ==
    [pc |-> pc, cid |-> fields.cid, head |-> serial + 1, count |-> fields.count + 1,
     lastSize |-> st_size, since |-> since]

\* _append, under both locks.  seek(0, SEEK_END) hands over what was buffered.
AppendEntry(w, kind, data, bytes, pc, since) ==
    LET e      == Entry(kind, SyncedHead(w), serial + 1, data, bytes)
        synced == AppendRecords(file, buffer[w])
    IN  /\ Room(Len(buffer[w]))
        /\ file' = IF Flushed THEN AppendRecords(synced, <<e>>) ELSE synced
        /\ buffer' = [buffer EXCEPT ![w] = IF Flushed THEN <<>> ELSE <<e>>]
        /\ size' = IF file' # file THEN size + 1 ELSE size
        /\ writer' = [writer EXCEPT ![w] = Advanced(@, pc, since, size')]
        /\ serial' = serial + 1
        /\ acked' = acked \cup {serial + 1}
        /\ gaps' = gaps \cup GapsOf(w)
        /\ UNCHANGED crashes

\* Mutant: sealed one entry late.
AppendSealingLate(w, kind, data, bytes) ==
    LET since == writer[w].since + 1
    IN  AppendEntry(w, kind, data, bytes, IF since > SealEvery THEN "sealing" ELSE "open",
                    since)

\* _append of a caller's entry, and what _maybe_seal makes of it
AppendCounted(w, kind, data, bytes) ==
    LET since == writer[w].since + 1
    IN  AppendEntry(w, kind, data, bytes, IF since >= SealEvery THEN "sealing" ELSE "open",
                    since)

WriteHeader(w) ==
    /\ writer[w].pc = "new"
    /\ AppendCounted(w, "header", writer[w].cid, "small")

\* log_exchange, log_decision, log_blocked, note
Log(w, bytes) ==
    /\ writer[w].pc = "open"
    /\ AppendCounted(w, "entry", 0, bytes)

\* seal(), by a caller
Seal(w) ==
    /\ writer[w].pc = "open"
    /\ AppendCounted(w, "seal", writer[w].count, "small")

\* seal(), by _maybe_seal: another writer may have come in between.
PeriodicSeal(w) ==
    /\ writer[w].pc = "sealing"
    /\ AppendEntry(w, "seal", writer[w].count, "small", "open", 0)

Close(w) ==
    /\ writer[w].pc = "open"
    /\ writer' = [writer EXCEPT ![w] = Closed]
    /\ file' = AppendRecords(file, buffer[w])
    /\ size' = IF buffer[w] # <<>> THEN size + 1 ELSE size
    /\ buffer' = [buffer EXCEPT ![w] = <<>>]
    /\ UNCHANGED <<serial, acked, gaps, crashes>>

\* What w writes next, if it writes.
Unfinished(w) ==
    LET e(kind, data) == Entry(kind, SyncedHead(w), serial + 1, data, "small")
    IN  CASE writer[w].pc = "new" -> e("header", writer[w].cid)
          [] writer[w].pc = "sealing" -> e("seal", writer[w].count)
          [] OTHER -> e("entry", 0)

\* The process dies, between two appends or having written part of an entry.
Crash(w) ==
    /\ writer[w].pc # "closed" /\ crashes < MaxCrashes
    /\ crashes' = crashes + 1
    /\ writer' = [writer EXCEPT ![w] = Closed]
    /\ buffer' = [buffer EXCEPT ![w] = <<>>]
    /\ \/ UNCHANGED <<file, size, serial, gaps>>
       \/ /\ TornWrites /\ Flushed /\ Room(0)
          /\ file' \in TornCuts(file, <<Unfinished(w)>>)
          /\ size' = size + 1
          /\ serial' = serial + 1
          /\ gaps' = gaps \cup GapsOf(w)
    /\ UNCHANGED acked

Next == \E w \in Writers :
            \/ Open(w) \/ WriteHeader(w) \/ Seal(w) \/ PeriodicSeal(w)
            \/ \E bytes \in Sizes : Log(w, bytes)
            \/ Close(w) \/ Crash(w)

Spec == Init /\ [][Next]_vars
-------------------------------------------------------------------------------
Hashes == 0..serial
EntriesOf(kinds, data) ==
    [k : {"entry"}, kind : kinds, prev : Hashes \cup {0 - h : h \in Hashes}, hash : Hashes,
     data : data, bytes : {"small", "big"}]
Entries == EntriesOf({"legacy", "entry", "seal"}, Nat) \cup EntriesOf({"header"}, Hashes)

\* The types; a writer never counts past seal_every without sealing.
TypeOK ==
    /\ file \in [lines : Seq(Entries \cup {Junk}), nl : BOOLEAN]
    /\ size \in Nat
    /\ writer \in [Writers -> [pc : {"closed", "new", "open", "sealing"}, cid : Hashes,
                               head : Hashes \cup {0 - h : h \in Hashes}, count : Nat,
                               lastSize : Nat \cup {-1}, since : 0..SealEvery]]
    /\ buffer \in [Writers -> Seq(Entries)]
    /\ serial \in Nat /\ acked \subseteq Hashes
    /\ gaps \subseteq {"glued", "window", "unflushed", "shared", "prefix"}
    /\ crashes \in 0..MaxCrashes

\* log.py:46-51, :277-282 and :663-679: entries of concurrent writers, with crashes
\* and restarts between them, form one chain, and no seal attests more entries than
\* the file holds: a file nobody touched verifies at every moment.  (Not where an
\* entry was glued to a torn line, or another writer's last entry was not to be seen,
\* being larger than the tail window or still in its buffer; nor, for the seals, where
\* a reopened log counted the lines before its header.)
FileVerifies ==
    Headers(file) # {} /\ gaps \cap {"glued", "window", "unflushed"} = {} =>
        /\ Links(file)
        /\ "prefix" \notin gaps => SealsAgree(file)

\* log.py:9 and :171-172: an entry whose call has returned is in the log, once,
\* whatever crashes followed.  (Not with durability "os", which promises less.)
AckedIsKept ==
    Durability # "os" /\ "glued" \notin gaps =>
        \A h \in acked : Cardinality({n \in 1..Len(file.lines) :
                                        IsEntry(file.lines[n]) /\ file.lines[n].hash = h}) = 1

\* log.py:350-357: the anchor taken from a writer that has the file for itself
\* verifies against it, also after it was closed or crashed and opened again.  (With
\* durability "os" its last entry is still on the way.)
AnchorVerifies ==
    \A w \in Writers :
        /\ Durability # "os"
        /\ gaps = {} /\ writer[w].pc = "open" /\ writer[w].lastSize = size
        => VerifiedAgainst(file, writer[w].head, writer[w].count)
===============================================================================
