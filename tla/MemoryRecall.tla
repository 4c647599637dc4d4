------------------------------ MODULE MemoryRecall ------------------------------
(* engine/memory/memdir.py, the read side of MemoryStore: the cache of parsed *)
(* memories and the inverted index over it, which the recalls, saves and      *)
(* deletes of one store share without a lock.  The tools run each on a worker *)
(* thread, so parallel calls of a turn interleave anywhere.  Another process  *)
(* writes the same directory.  (MemoryStore models the files and the index.)   *)
(*                                                                            *)
(* A change of the directory, of MEMORY.md too, moves its modification time,  *)
(* and every version of a file has a signature of its own.                    *)
EXTENDS Integers, FiniteSets

CONSTANTS Recallers,    \* threads that recall
          Writers,      \* threads that save and delete through the same store
          Memories,
          MaxWrites     \* bound: saves and deletes, another process's included

ASSUME RecallConstants == MaxWrites \in Nat

Absent == 0
Versions == 0..MaxWrites

VARIABLES
    stored,     \* the version in each memory's file
    version,    \* the last version written
    dirSig,     \* _dir_sig is the directory's modification time of now
    cache,      \* _cache: the signature and the content kept for each slug
    postings,   \* _postings: the version by whose words each slug is found
    rec,        \* each recall: where it is, and its local variables
    writer,     \* each save or delete: what it does next, and to which slug
    asked,      \* history: the slugs nobody wrote since a recall began
    torn        \* history: a sweep failed, or another recall ran into one

recallVars == <<stored, version, dirSig, cache, postings, rec, writer, asked, torn>>

NoEntry == [sig |-> Absent, mem |-> Absent]
Nothing == [s \in Memories |-> Absent]

Cached(s) == cache[s] # NoEntry
Keys == {s \in Memories : Cached(s)}

NoRecall == [at |-> "idle", seen |-> Nothing, todo |-> {}, read |-> {}, changed |-> FALSE,
             built |-> Nothing, found |-> Nothing]
NoWrite == [does |-> "rest", slug |-> "none"]

RecallInit == /\ stored = Nothing /\ version = 0
              /\ dirSig = FALSE
              /\ cache = [s \in Memories |-> NoEntry]
              /\ postings = Nothing
              /\ rec = [r \in Recallers |-> NoRecall]
              /\ writer = [w \in Writers |-> NoWrite]
              /\ asked = [r \in Recallers |-> {}]
              /\ torn = FALSE
-------------------------------------------------------------------------------
(* Writes *)

\* The files change; whoever recalls now may be given the slug as it was or is.
WriteFile(s, v) ==
    /\ stored' = [stored EXCEPT ![s] = v]
    /\ version' = version + 1
    /\ asked' = [r \in Recallers |-> asked[r] \ {s}]

Written(s) == {version + 1} \cup {v \in {Absent} : stored[s] # Absent}

\* save() and delete(), up to the change of the memory's file
BeginWrite(w, s) ==
    /\ writer[w] = NoWrite /\ version < MaxWrites
    /\ \E v \in Written(s) :
        /\ WriteFile(s, v)
        /\ writer' = [writer EXCEPT ![w] =
                         [does |-> IF v = Absent THEN "invalidate, then index" ELSE "index",
                          slug |-> s]]
    /\ dirSig' = FALSE
    /\ UNCHANGED <<cache, postings, rec, torn>>

\* MEMORY.md is written: before a save's invalidation, after a delete's.
IndexWritten(w) ==
    /\ writer[w].does \in {"index", "last index"}
    /\ writer' = [writer EXCEPT ![w] = IF @.does = "index" THEN [@ EXCEPT !.does = "invalidate"]
                                       ELSE NoWrite]
    /\ dirSig' = FALSE
    /\ UNCHANGED <<stored, version, cache, postings, rec, asked, torn>>

Invalidating(w) == writer[w].does \in {"invalidate", "invalidate, then index"}

\* Mutant: the entry stays, and with it its signature.
InvalidateDirectoryAhead(w) ==
    /\ Invalidating(w)
    /\ writer' = [writer EXCEPT ![w] = IF @.does = "invalidate" THEN NoWrite
                                       ELSE [@ EXCEPT !.does = "last index"]]
    /\ dirSig' = TRUE
    /\ UNCHANGED <<stored, version, cache, postings, rec, asked, torn>>

\* The write drops its slug from the cache and forgets the directory's time.
Invalidate(w) ==
    /\ Invalidating(w)
    /\ writer' = [writer EXCEPT ![w] = IF @.does = "invalidate" THEN NoWrite
                                       ELSE [@ EXCEPT !.does = "last index"]]
    /\ cache' = [cache EXCEPT ![writer[w].slug] = NoEntry]
    /\ dirSig' = FALSE
    /\ UNCHANGED <<stored, version, postings, rec, asked, torn>>

\* Another process writes: nothing tells this one's cache.
ForeignWrite(s) ==
    /\ version < MaxWrites
    /\ \E v \in Written(s) : WriteFile(s, v)
    /\ dirSig' = FALSE
    /\ UNCHANGED <<cache, postings, rec, writer, torn>>
-------------------------------------------------------------------------------
(* A recall: find_relevant and the sweep, _sync, it begins with *)
Sweeping(r) == rec[r].at \notin {"idle", "gate", "query", "done", "raised"}
OthersSweep(r) == \E q \in Recallers \ {r} : Sweeping(q)

Goes(r, at) == rec' = [rec EXCEPT ![r].at = at]

BeginRecall(r) ==
    /\ rec[r].at \in {"idle", "done", "raised"}
    /\ rec' = [rec EXCEPT ![r] = [NoRecall EXCEPT !.at = "gate"]]
    /\ asked' = [asked EXCEPT ![r] = {s \in Memories : \A w \in Writers : writer[w].slug # s}]
    /\ UNCHANGED <<stored, version, dirSig, cache, postings, writer, torn>>

\* The directory has not changed since the last sweep.  (_STAT_TTL has not passed
\* either, or has: any recall may find it over.)
Fresh == Keys # {} /\ dirSig

Gate(r) ==
    /\ rec[r].at = "gate"
    /\ \/ Fresh /\ Goes(r, "query")
       \/ Goes(r, "stat")
    /\ torn' = (torn \/ OthersSweep(r))
    /\ UNCHANGED <<stored, version, dirSig, cache, postings, writer, asked>>

\* The time is taken before the directory is read: what changes in between will
\* be noticed by the next recall.
Stat(r) ==
    /\ rec[r].at = "stat"
    /\ dirSig' = TRUE
    /\ torn' = (torn \/ OthersSweep(r))
    /\ Goes(r, "scan")
    /\ UNCHANGED <<stored, version, cache, postings, writer, asked>>

Scan(r) ==
    /\ rec[r].at = "scan"
    /\ rec' = [rec EXCEPT ![r].at = "load", ![r].seen = stored,
                          ![r].todo = {s \in Memories : stored[s] # Absent}]
    /\ UNCHANGED <<stored, version, dirSig, cache, postings, writer, asked, torn>>

\* The next slug seen: its entry is kept if it has the signature seen, ...
Keep(r, s) ==
    /\ rec[r].at = "load" /\ s \in rec[r].todo
    /\ Cached(s) /\ cache[s].sig = rec[r].seen[s]
    /\ rec' = [rec EXCEPT ![r].todo = @ \ {s}]
    /\ UNCHANGED <<stored, version, dirSig, cache, postings, writer, asked, torn>>

\* ... and its file is read otherwise.  By now it may be newer, or gone.
Read(r, s) ==
    /\ rec[r].at = "load" /\ s \in rec[r].todo
    /\ ~(Cached(s) /\ cache[s].sig = rec[r].seen[s])
    /\ rec' = [rec EXCEPT ![r].at = "store", ![r].changed = TRUE, ![r].todo = @ \ {s},
                          ![r].read = {<<s, stored[s]>>}]
    /\ UNCHANGED <<stored, version, dirSig, cache, postings, writer, asked, torn>>

\* Mutant: the signature is taken when the file has been read.
StoreThenStat(r) ==
    /\ rec[r].at = "store"
    /\ \E read \in rec[r].read :
           cache' = [cache EXCEPT ![read[1]] =
                        IF read[2] = Absent THEN NoEntry
                        ELSE [sig |-> stored[read[1]], mem |-> read[2]]]
    /\ rec' = [rec EXCEPT ![r].at = "load", ![r].read = {}]
    /\ UNCHANGED <<stored, version, dirSig, postings, writer, asked, torn>>

\* What was read is kept under the signature seen before.
Store(r) ==
    /\ rec[r].at = "store"
    /\ \E read \in rec[r].read :
           cache' = [cache EXCEPT ![read[1]] =
                        IF read[2] = Absent THEN NoEntry
                        ELSE [sig |-> rec[r].seen[read[1]], mem |-> read[2]]]
    /\ rec' = [rec EXCEPT ![r].at = "load", ![r].read = {}]
    /\ UNCHANGED <<stored, version, dirSig, postings, writer, asked, torn>>

\* The entries that were not seen, as a set made once; `del` of one that another
\* thread has removed meanwhile is a KeyError.
FindGone(r) ==
    /\ rec[r].at = "load" /\ rec[r].todo = {}
    /\ rec' = [rec EXCEPT ![r].at = "drop",
                          ![r].todo = {s \in Keys : rec[r].seen[s] = Absent}]
    /\ UNCHANGED <<stored, version, dirSig, cache, postings, writer, asked, torn>>

Drop(r) ==
    /\ rec[r].at = "drop"
    /\ \E s \in rec[r].todo :
        IF Cached(s)
        THEN /\ cache' = [cache EXCEPT ![s] = NoEntry]
             /\ rec' = [rec EXCEPT ![r].todo = @ \ {s}, ![r].changed = TRUE]
             /\ UNCHANGED torn
        ELSE Goes(r, "raised") /\ torn' = TRUE /\ UNCHANGED cache
    /\ UNCHANGED <<stored, version, dirSig, postings, writer, asked>>

MustRebuild(r) == rec[r].changed \/ postings = Nothing

\* _rebuild_postings makes a new index of the cache, ...
Rebuild(r) ==
    /\ rec[r].at = "drop" /\ rec[r].todo = {}
    /\ IF MustRebuild(r)
       THEN rec' = [rec EXCEPT ![r].at = "assign", ![r].todo = Keys,
                               ![r].built = [s \in Memories |-> cache[s].mem]]
       ELSE Goes(r, "query")
    /\ UNCHANGED <<stored, version, dirSig, cache, postings, writer, asked, torn>>

\* ... and puts it in the place of the present one.  Where the cache has got or
\* lost an entry meanwhile, the loop over it may have failed.
Assign(r) ==
    /\ rec[r].at = "assign"
    /\ \/ postings' = rec[r].built /\ Goes(r, "query") /\ UNCHANGED torn
       \/ rec[r].todo # Keys /\ Goes(r, "raised") /\ torn' = TRUE /\ UNCHANGED postings
    /\ UNCHANGED <<stored, version, dirSig, cache, writer, asked>>

\* An entry another thread is about to take out of the cache
Leaving(r, s) ==
    \/ \E w \in Writers : writer[w].slug = s /\ Invalidating(w)
    \/ \E q \in Recallers \ {r} :
           (rec[q].at = "drop" /\ s \in rec[q].todo) \/ <<s, Absent>> \in rec[q].read

\* What a query by a memory's own words finds: the slugs whose postings have them
\* and that are in the cache, as they are there.  One that leaves between the look
\* into the cache and the fetch from it is a KeyError.
Query(r) ==
    /\ rec[r].at = "query"
    /\ \/ rec' = [rec EXCEPT ![r] = [NoRecall EXCEPT !.at = "done",
                    !.found = [s \in Memories |-> IF Cached(s) /\ postings[s] = cache[s].mem
                                               THEN cache[s].mem ELSE Absent]]]
       \/ /\ \E s \in Keys : postings[s] # Absent /\ Leaving(r, s)
          /\ Goes(r, "raised")
    /\ UNCHANGED <<stored, version, dirSig, cache, postings, writer, asked, torn>>

RecallStep(r) ==
    \/ BeginRecall(r) \/ Gate(r) \/ Stat(r) \/ Scan(r)
    \/ \E s \in Memories : Keep(r, s) \/ Read(r, s)
    \/ Store(r) \/ FindGone(r) \/ Drop(r) \/ Rebuild(r) \/ Assign(r) \/ Query(r)

WriterStep(w) == (\E s \in Memories : BeginWrite(w, s)) \/ IndexWritten(w) \/ Invalidate(w)

RecallNext == \/ \E w \in Writers : WriterStep(w)
              \/ \E s \in Memories : ForeignWrite(s)
              \/ \E r \in Recallers : RecallStep(r)

RecallSpec == RecallInit /\ [][RecallNext]_recallVars
-------------------------------------------------------------------------------
\* The types
RecallTypeOK ==
    /\ stored \in [Memories -> Versions] /\ version \in Versions /\ dirSig \in BOOLEAN
    /\ cache \in [Memories -> [sig : Versions, mem : Versions]]
    /\ postings \in [Memories -> Versions]
    /\ rec \in [Recallers ->
                   [at : {"idle", "gate", "stat", "scan", "load", "store", "drop", "assign",
                          "query", "done", "raised"},
                    seen : [Memories -> Versions], todo : SUBSET Memories,
                    read : SUBSET (Memories \X Versions), changed : BOOLEAN,
                    built : [Memories -> Versions], found : [Memories -> Versions]]]
    /\ \A w \in Writers : writer[w] = NoWrite \/ writer[w].slug \in Memories
    /\ asked \in [Recallers -> SUBSET Memories] /\ torn \in BOOLEAN
    /\ \A s \in Memories : Cached(s) => cache[s].sig <= cache[s].mem

\* memdir.py:143-145 and :353-356: a recall finds every memory as it is on disk,
\* and none that was deleted, whatever saves and deletes interleave with it and
\* with the recalls before -- as long as no sweep failed half-way and no recall ran into
\* another's sweep: the cache and the postings are changed one after the other,
\* and a later sweep that finds the cache up to date leaves the postings as they are.
RecallsWhatWasSaved ==
    \A r \in Recallers :
        rec[r].at = "done" /\ ~torn =>
            \A s \in asked[r] : rec[r].found[s] = stored[s]
===============================================================================
