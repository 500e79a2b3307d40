----------------------------- MODULE OutputStore -----------------------------
(***************************************************************************)
(* The artifact store (output_store.py) and the captures that fill it: the *)
(* synchronous commands (run_command, run_bounded) and the background jobs *)
(* of command_tools.py.  An artifact is a group of files named after its   *)
(* id: one data file per stream, a sidecar per closed stream, a digest of  *)
(* all streams, and a manifest.  The store charges every byte to a quota   *)
(* before it is written, from a cached total; it evicts what nobody owns   *)
(* when the quota is reached, and deletes what has expired.                *)
(*                                                                         *)
(* One step is one section under the store's lock, or one system call or   *)
(* group of them that nobody else can tell apart.  An artifact is owned    *)
(* while it has open streams or a lifecycle lease; ids are never reused.   *)
(* Every chunk and every metadata file has size 1.  Left out: pinned       *)
(* artifacts (nothing in the program pins one), the temporary files of     *)
(* metadata writes, a file whose deletion fails.                           *)
(***************************************************************************)
EXTENDS Integers, Sequences, SequencesExt, FiniteSets

CONSTANTS Jobs,         \* background jobs, which hold a lifecycle lease
          Commands,     \* synchronous commands, which do not
          Old,          \* artifacts found on disk when the server starts
          NoId,
          Streams,      \* the streams of an artifact, in the order they open
          Quota,        \* artifact_total_bytes
          ArtifactMax,  \* artifact_max_bytes
          Chunks,       \* bound: chunks a stream may produce
          Faults        \* bound: system calls that fail

Captures == Jobs \union Commands
Ids == Captures \union Old
StreamSet == ToSet(Streams)
Sidecar == [stdout |-> "stdout.meta", stderr |-> "stderr.meta", combined |-> "combined.meta"]
Sidecars == {Sidecar[s] : s \in StreamSet}
Names == StreamSet \union Sidecars \union {"digest"}

\* What the constants must be.
ASSUME StoreAssumption ==
    /\ IsFiniteSet(Ids) /\ NoId \notin Ids /\ Jobs \intersect Commands = {} /\ Captures \intersect Old = {}
    /\ StreamSet # {} /\ StreamSet \subseteq DOMAIN Sidecar /\ IsInjective(Streams)
    /\ Quota \in Nat \ {0} /\ ArtifactMax \in Nat \ {0}
    /\ Chunks \in Nat /\ Faults \in Nat

VARIABLES
    files,      \* files[i]: the names of the other files of artifact i
    size,       \* size[i][s]: the length of its data file of stream s
    manifest,   \* manifest[i]: the status in its manifest, none without one
    recent,     \* the order of last use: the pairs of an artifact and one that was used after it
    usage,      \* the cached total, or Unknown
    logical,    \* logical[i]: bytes charged to the data of i
    active,     \* active[i]: its open streams
    leased,     \* the artifacts with a lifecycle lease
    aux,        \* the metadata write in progress: who holds _aux_lock, and for what
    phase,      \* phase[c]: where the thread of the capture is
    todo, look, \* the manifests it has yet to reconcile, the one it has read
    scan,       \* the total it counted and has not stored yet
    stream,     \* stream[c][s]: the life of a stream
    granted,    \* granted[c]: streams with a chunk charged and not yet written
    errors,     \* the captures with an error
    chunks,     \* chunks[c][s]: how many the stream has produced
    dropped,    \* history: captures that lost files to eviction or expiry
    faults      \* how many system calls have failed

group    == <<files, manifest, dropped>>
disk     == <<group, size, recent>>
accounts == <<usage, logical>>
owners   == <<active, leased>>
prepare  == <<todo, look, scan>>
capture  == <<stream, granted, errors, chunks>>
storeVars == <<disk, accounts, owners, aux, phase, prepare, capture, faults>>

Unknown == -1
Free == [by |-> NoId, for |-> "none", id |-> NoId, old |-> 0, done |-> FALSE]

\* A strict order, and one of all members of S.
Strict(r) == \A a, b, c \in Ids : <<a, b>> \in r => <<b, a>> \notin r /\ (<<b, c>> \in r => <<a, c>> \in r)
Compares(r, S) == \A a, b \in S : a = b \/ <<a, b>> \in r \/ <<b, a>> \in r

StoreInit ==
    /\ \E left \in [Old -> {"completed", "running", "none"}] :
          manifest = [i \in Ids |-> IF i \in Old THEN left[i] ELSE "none"]
    /\ files = [i \in Ids |-> IF i \in Old THEN StreamSet ELSE {}]
    /\ size = [i \in Ids |-> [s \in StreamSet |-> IF i \in Old THEN 1 ELSE 0]]
    /\ recent \in {r \in SUBSET (Old \X Old) : Strict(r) /\ Compares(r, Old)} /\ dropped = {}
    /\ usage = Unknown
    /\ logical = [i \in Ids |-> 0]
    /\ active = [i \in Ids |-> 0] /\ leased = {}
    /\ aux = Free
    /\ phase = [c \in Captures |-> "idle"]
    /\ todo = [c \in Captures |-> {}] /\ look = [c \in Captures |-> NoId]
    /\ scan = [c \in Captures |-> 0]
    /\ stream = [c \in Captures |-> [s \in StreamSet |-> "none"]]
    /\ granted = [c \in Captures |-> {}]
    /\ errors = {}
    /\ chunks = [c \in Captures |-> [s \in StreamSet |-> 0]]
    /\ faults = 0

-----------------------------------------------------------------------------
(* What the store computes.                                                *)

Owned(i) == active[i] > 0 \/ i \in leased

Exists(i) == files[i] # {} \/ manifest[i] # "none"

\* What is on disk of the artifacts S, unit by unit: an artifact, a file of it, a place in the file.
Held(i) == files[i] \union (IF manifest[i] = "none" THEN {} ELSE {"manifest"})
Length(i, x) == IF x \in StreamSet THEN size[i][x] ELSE 1
Stored(S) ==
    {u \in S \X (Names \union {"manifest"}) \X (1..Chunks + 1) : u[2] \in Held(u[1]) /\ u[3] <= Length(u[1], u[2])}

Bytes(S) == Cardinality(Stored(S))

DiskTotal == Bytes(Ids)

Total == IF usage = Unknown THEN DiskTotal ELSE usage

Monus(a, b) == IF a > b THEN a - b ELSE 0

\* The artifact becomes the one used last.
Touch(i) == {p \in recent : i \notin {p[1], p[2]}} \union ((Ids \ {i}) \X {i})

\* Mutant of Evictable: an orphan goes before anyone asks whose it is.
EvictableUnowned(i, exclude) ==
    /\ i # exclude /\ Exists(i)
    /\ manifest[i] # "none" => ~Owned(i) /\ manifest[i] # "running"

\* _evict_lru: an artifact nobody owns, without a manifest or with one that is
\* not in progress.
Evictable(i, exclude) ==
    /\ i # exclude /\ Exists(i) /\ ~Owned(i)
    /\ manifest[i] # "running"

\* The least recently used of them: an artifact goes unless those that were
\* used before it have made the room.
UsedBefore(i) == {j \in Ids : <<j, i>> \in recent}
Victims(need, exclude) ==
    {i \in Ids : /\ Evictable(i, exclude)
                 /\ Monus(Total, Bytes({j \in UsedBefore(i) : Evictable(j, exclude)})) + need > Quota}

\* What an eviction for need bytes removes, and whether the bytes fit then.
Gone(need, id) == IF Total + need <= Quota THEN {} ELSE Victims(need, id)
Left(need, id) == Monus(Total, Bytes(Gone(need, id)))
Fits(need, id) == Left(need, id) + need <= Quota

Delete(gone, of, keep) ==
    /\ files' = [i \in Ids |-> IF i \in gone \union of THEN {} ELSE files[i]]
    /\ manifest' = [i \in Ids |-> IF i \in gone \/ i \in of \ keep THEN "none" ELSE manifest[i]]
    /\ dropped' = dropped \union (gone \intersect Captures)

Evict(gone) == Delete(gone, {}, {})

\* Mutant of Charge: what fits is not added to the total.
ChargeNothing(need, id, extra) ==
    /\ Fits(need, id)
    /\ Evict(Gone(need, id))
    /\ usage' = Left(need, id)
    /\ logical' = [i \in Ids |-> IF i \in Gone(need, id) THEN 0
                                ELSE IF i = id THEN logical[i] + extra ELSE logical[i]]

\* claim and claim_aux: charge need bytes, extra of them to the data of id.
Charge(need, id, extra) ==
    /\ Fits(need, id)
    /\ Evict(Gone(need, id))
    /\ usage' = Left(need, id) + need
    /\ logical' = [i \in Ids |-> IF i \in Gone(need, id) THEN 0
                                ELSE IF i = id THEN logical[i] + extra ELSE logical[i]]

\* What was evicted stays evicted when the rest does not fit either.
Deny(need, id) ==
    /\ ~Fits(need, id)
    /\ Evict(Gone(need, id))
    /\ usage' = Left(need, id)
    /\ logical' = [i \in Ids |-> IF i \in Gone(need, id) THEN 0 ELSE logical[i]]

Fault == faults < Faults /\ faults' = faults + 1

\* Mutant of Abort: the files go, the count of open streams stays.
AbortCounted(c, keep, gone) ==
    /\ Delete(gone, {c}, keep)
    /\ logical' = [i \in Ids |-> IF i \in gone \union {c} THEN 0 ELSE logical[i]]
    /\ usage' = Unknown
    /\ UNCHANGED active

\* abort_artifact, after an eviction that was not enough or after none.
Abort(c, keep, gone) ==
    /\ Delete(gone, {c}, keep)
    /\ active' = [active EXCEPT ![c] = 0]
    /\ logical' = [i \in Ids |-> IF i \in gone \union {c} THEN 0 ELSE logical[i]]
    /\ usage' = Unknown

SetPhase(c, to) == phase' = [phase EXCEPT ![c] = to]
Advance(c, from, to) == phase[c] = from /\ SetPhase(c, to)
SetStream(c, s, to) == stream' = [stream EXCEPT ![c][s] = to]

\* The streams of a capture open one after the other.
IsNext(c, s) ==
    /\ stream[c][s] = "none"
    /\ \A m, n \in DOMAIN Streams : Streams[n] = s /\ m < n => stream[c][Streams[m]] # "none"

-----------------------------------------------------------------------------
(* write_aux: a metadata file is charged, written beside its target, moved  *)
(* over it, and the old one's size given back; _aux_lock spans all of it.   *)

AuxCharge(by, for, id, name) ==
    /\ aux.by = NoId
    /\ Charge(1, id, 0)
    /\ aux' = [by |-> by, for |-> for, id |-> id, done |-> FALSE,
               old |-> IF name = "manifest" /\ manifest[id] # "none" THEN 1 ELSE 0]

AuxDenied(id) == aux.by = NoId /\ Deny(1, id) /\ UNCHANGED <<aux, faults>>

AuxName == CASE aux.for \in StreamSet -> Sidecar[aux.for]
             [] aux.for \in Sidecars  -> "digest"
             [] OTHER                 -> "manifest"

AuxReplace ==
    /\ aux.by # NoId /\ ~aux.done
    /\ aux' = [aux EXCEPT !.done = TRUE]
    /\ IF AuxName = "manifest"
       THEN manifest' = [manifest EXCEPT ![aux.id] = aux.for] /\ UNCHANGED files
       ELSE files' = [files EXCEPT ![aux.id] = @ \union {AuxName}] /\ UNCHANGED manifest
    /\ recent' = Touch(aux.id)
    /\ UNCHANGED <<size, dropped, accounts, owners, phase, prepare, capture, faults>>

AuxSettle(by, for) ==
    /\ aux.by = by /\ aux.for = for /\ aux.done
    /\ usage' = Monus(Total, aux.old)
    /\ aux' = Free

AuxFails(by, for) ==
    /\ aux.by = by /\ aux.for = for /\ ~aux.done
    /\ Fault
    /\ aux' = Free

-----------------------------------------------------------------------------
(* prepare: before a stream opens, the manifests of a dead server are       *)
(* marked, what has expired is deleted, and the total is counted again.     *)

Start(c) ==
    /\ Advance(c, "idle", "reconcile")
    /\ leased' = IF c \in Jobs THEN leased \union {c} ELSE leased
    /\ todo' = [todo EXCEPT ![c] = {i \in Ids : manifest[i] # "none"}]
    /\ UNCHANGED <<disk, accounts, active, aux, look, scan, capture, faults>>

ReadManifest(c) ==
    /\ phase[c] = "reconcile"
    /\ \E i \in todo[c] :
          /\ todo' = [todo EXCEPT ![c] = @ \ {i}]
          /\ IF manifest[i] = "running"
             THEN look' = [look EXCEPT ![c] = i] /\ SetPhase(c, "judge")
             ELSE UNCHANGED <<look, phase>>
    /\ UNCHANGED <<disk, accounts, owners, aux, scan, capture, faults>>

Spare(c) ==
    /\ Advance(c, "judge", "reconcile")
    /\ Owned(look[c])
    /\ look' = [look EXCEPT ![c] = NoId]
    /\ UNCHANGED <<disk, accounts, owners, aux, todo, scan, capture, faults>>

MarkStale(c) ==
    /\ Advance(c, "judge", "mark")
    /\ ~Owned(look[c])
    /\ AuxCharge(c, "failed", look[c], "manifest")
    /\ UNCHANGED <<size, recent, owners, prepare, capture, faults>>

Marked(c) ==
    /\ AuxSettle(c, "failed")
    /\ Advance(c, "mark", "reconcile")
    /\ look' = [look EXCEPT ![c] = NoId]
    /\ UNCHANGED <<disk, logical, owners, todo, scan, capture, faults>>

\* cleanup: an artifact that has expired goes unless its manifest is in progress;
\* one without a manifest goes unless it is owned.  Any artifact may be old
\* enough, but for one that is about to be finished: its files are new.
Deletable == {i \in Ids : /\ Exists(i) /\ manifest[i] # "running"
                          /\ manifest[i] = "none" => ~Owned(i)
                          /\ i \in Captures => phase[i] \notin {"close", "saving", "publishing", "release"}}

Cleanup(c) ==
    /\ todo[c] = {}
    /\ Advance(c, "reconcile", "scanned")
    /\ \E expired \in SUBSET Deletable :
          /\ Evict(expired)
          /\ scan' = [scan EXCEPT ![c] = DiskTotal - Bytes(expired)]
    /\ usage' = Unknown
    /\ UNCHANGED <<size, recent, logical, owners, aux, todo, look, capture, faults>>

\* The count is stored without the lock, whatever was charged since.
Admit(c) ==
    LET gone == IF scan[c] >= Quota THEN Victims(1, NoId) ELSE {}
    IN  /\ Advance(c, "scanned", "enter")
        /\ usage' = Monus(scan[c], Bytes(gone))
        /\ usage' < Quota
        /\ scan' = [scan EXCEPT ![c] = 0]
        /\ Evict(gone)
        /\ logical' = [i \in Ids |-> IF i \in gone THEN 0 ELSE logical[i]]
        /\ UNCHANGED <<size, recent, owners, aux, todo, look, capture, faults>>

\* OutputStore.open: the stream becomes active, then its file is created.
OpenStream(c, s) ==
    /\ phase[c] = "enter" /\ IsNext(c, s)
    /\ files' = [files EXCEPT ![c] = @ \union {s}]
    /\ recent' = Touch(c)
    /\ active' = [active EXCEPT ![c] = @ + 1]
    /\ SetStream(c, s, "open")
    /\ IF \E r \in StreamSet \ {s} : stream[c][r] = "none"
       THEN /\ SetPhase(c, "reconcile")
            /\ todo' = [todo EXCEPT ![c] = {i \in Ids : manifest[i] # "none"}]
       ELSE /\ SetPhase(c, IF c \in Jobs THEN "register" ELSE "capture")
            /\ UNCHANGED todo
    /\ UNCHANGED <<size, manifest, dropped, accounts, leased, aux, look, scan,
                   granted, errors, chunks, faults>>

\* prepare refuses or a system call fails.  A job and run_bounded abort what is
\* open; run_command closes it first and aborts it then.
OpenRefused(c) ==
    \/ phase[c] = "judge" /\ ~Owned(look[c]) /\ AuxDenied(look[c])
    \/ phase[c] = "mark" /\ AuxFails(c, "failed") /\ usage' = Unknown /\ UNCHANGED <<group, logical>>
    \/ /\ phase[c] = "scanned" /\ scan[c] >= Quota
       /\ LET gone == Victims(1, NoId)
              left == Monus(scan[c], Bytes(gone))
          IN  /\ left >= Quota
              /\ usage' = left /\ Evict(gone)
              /\ logical' = [i \in Ids |-> IF i \in gone THEN 0 ELSE logical[i]]
       /\ UNCHANGED <<aux, faults>>
    \/ phase[c] \in {"scanned", "enter"} /\ Fault /\ usage' = Unknown /\ UNCHANGED <<group, logical, aux>>

OpenFails(c) ==
    /\ OpenRefused(c)
    /\ IF \A s \in StreamSet : stream[c][s] = "none"
       THEN /\ SetPhase(c, "failed")
            /\ leased' = leased \ {c}
            /\ UNCHANGED <<stream, errors>>
       ELSE /\ SetPhase(c, IF c \in Jobs THEN "unwind" ELSE "close")
            /\ errors' = errors \union {c}
            /\ stream' = [stream EXCEPT ![c] = [s \in StreamSet |-> IF @[s] = "none" THEN "failed" ELSE @[s]]]
            /\ UNCHANGED leased
    /\ look' = [look EXCEPT ![c] = NoId]
    /\ UNCHANGED <<size, recent, active, todo, scan, granted, chunks>>

-----------------------------------------------------------------------------
(* A stream is captured: OutputArtifact.write, close, finish_stream.        *)

Writing(c, s) ==
    \/ phase[c] \in {"capture", "close"} /\ stream[c][s] = "flush"
    \/ phase[c] = "capture" /\ stream[c][s] = "open"

\* OutputArtifact.close fails: it aborts the whole artifact.
CloseFails(c, s, gone) ==
    /\ SetStream(c, s, "failed")
    /\ errors' = errors \union {c}
    /\ Abort(c, {}, gone)
    /\ UNCHANGED <<size, recent, leased, phase, prepare>>

\* A write of the reader fails, and the reader stops.
Stops(c, s) ==
    /\ SetStream(c, s, "stuck")
    /\ errors' = errors \union {c}
    /\ UNCHANGED <<size, recent, phase, prepare>>

\* Mutant of Claim: the limit of one artifact is looked at per stream.
ClaimPerStream(c, s) ==
    /\ Writing(c, s) /\ s \notin granted[c] /\ chunks[c][s] < Chunks
    /\ size[c][s] < ArtifactMax
    /\ Charge(1, c, 1)
    /\ granted' = [granted EXCEPT ![c] = @ \union {s}]
    /\ chunks' = [chunks EXCEPT ![c][s] = @ + 1]
    /\ UNCHANGED <<size, recent, owners, aux, phase, prepare, stream, errors, faults>>

Claim(c, s) ==
    /\ Writing(c, s) /\ s \notin granted[c] /\ chunks[c][s] < Chunks
    /\ logical[c] + 1 <= ArtifactMax
    /\ Charge(1, c, 1)
    /\ granted' = [granted EXCEPT ![c] = @ \union {s}]
    /\ chunks' = [chunks EXCEPT ![c][s] = @ + 1]
    /\ UNCHANGED <<size, recent, owners, aux, phase, prepare, stream, errors, faults>>

ClaimDenied(c, s) ==
    /\ Writing(c, s) /\ s \notin granted[c] /\ chunks[c][s] < Chunks
    /\ \/ /\ stream[c][s] = "open"
          /\ \/ logical[c] + 1 > ArtifactMax /\ UNCHANGED <<group, accounts>>
             \/ logical[c] + 1 <= ArtifactMax /\ Deny(1, c)
          /\ Stops(c, s) /\ UNCHANGED owners
       \/ /\ stream[c][s] = "flush"
          /\ \/ logical[c] + 1 > ArtifactMax /\ CloseFails(c, s, {})
             \/ logical[c] + 1 <= ArtifactMax /\ ~Fits(1, c) /\ CloseFails(c, s, Gone(1, c))
    /\ chunks' = [chunks EXCEPT ![c][s] = @ + 1]
    /\ UNCHANGED <<aux, granted, faults>>

\* The chunk reaches the file, which may have been unlinked by then.
Write(c, s) ==
    /\ s \in granted[c]
    /\ granted' = [granted EXCEPT ![c] = @ \ {s}]
    /\ size' = [size EXCEPT ![c][s] = @ + 1]
    /\ recent' = Touch(c)
    /\ UNCHANGED <<files, manifest, dropped, accounts, owners, aux, phase, prepare, stream,
                   errors, chunks, faults>>

\* rollback_claim.
Refund(c) ==
    /\ usage' = Monus(Total, 1)
    /\ logical' = [logical EXCEPT ![c] = Monus(@, 1)]

WriteFails(c, s) ==
    /\ s \in granted[c] /\ Fault
    /\ granted' = [granted EXCEPT ![c] = @ \ {s}]
    /\ \/ /\ stream[c][s] = "open"
          /\ Stops(c, s) /\ Refund(c) /\ UNCHANGED <<group, owners>>
       \/ stream[c][s] = "flush" /\ CloseFails(c, s, {})
    /\ UNCHANGED <<aux, chunks>>

\* The reader of a job closes its own stream; a command closes its streams in
\* order, when the process has ended.
BeginClose(c, s) ==
    /\ s \notin granted[c]
    /\ \/ c \in Jobs /\ phase[c] = "capture" /\ stream[c][s] = "open"
       \/ /\ c \in Commands /\ phase[c] = "close" /\ stream[c][s] \in {"open", "stuck"}
          /\ \A k \in DOMAIN Streams : Streams[k] # s /\ stream[c][Streams[k]] \notin {"closed", "failed"}
                => \E n \in DOMAIN Streams : Streams[n] = s /\ n < k
    /\ SetStream(c, s, "flush")
    /\ UNCHANGED <<disk, accounts, owners, aux, phase, prepare, granted, errors, chunks, faults>>

\* The file is flushed, synced and closed; its sidecar is charged.
Flush(c, s) ==
    /\ stream[c][s] = "flush" /\ s \notin granted[c]
    /\ AuxCharge(c, s, c, Sidecar[s])
    /\ SetStream(c, s, "sidecar")
    /\ UNCHANGED <<size, recent, owners, phase, prepare, granted, errors, chunks, faults>>

\* The flush, the charge of a sidecar or of the digest, or its write fails.
FlushFails(c, s) ==
    /\ s \notin granted[c]
    /\ \/ /\ \/ stream[c][s] = "flush" /\ Fault /\ UNCHANGED aux
             \/ stream[c][s] = "sidecar" /\ AuxFails(c, s)
             \/ stream[c][s] = "writing" /\ AuxFails(c, Sidecar[s])
          /\ CloseFails(c, s, {})
       \/ /\ stream[c][s] \in {"flush", "digest"} /\ aux.by = NoId /\ ~Fits(1, c)
          /\ CloseFails(c, s, Gone(1, c))
          /\ UNCHANGED <<aux, faults>>
    /\ UNCHANGED <<granted, chunks>>

Unlist(c, s) ==
    /\ stream[c][s] = "sidecar" /\ AuxSettle(c, s)
    /\ SetStream(c, s, "unlist")
    /\ UNCHANGED <<disk, logical, owners, phase, prepare, granted, errors, chunks, faults>>

\* The stream is no longer active; the digest follows the last sidecar.
Finish(c, s) ==
    /\ stream[c][s] = "unlist"
    /\ usage' = Unknown
    /\ active' = [active EXCEPT ![c] = Monus(@, 1)]
    /\ SetStream(c, s, IF Sidecars \union StreamSet \subseteq files[c] THEN "digest" ELSE "closed")
    /\ UNCHANGED <<disk, logical, leased, aux, phase, prepare, granted, errors, chunks, faults>>

Digest(c, s) ==
    /\ stream[c][s] = "digest"
    /\ AuxCharge(c, Sidecar[s], c, "digest")
    /\ SetStream(c, s, "writing")
    /\ UNCHANGED <<size, recent, owners, phase, prepare, granted, errors, chunks, faults>>

Digested(c, s) ==
    /\ stream[c][s] = "writing" /\ aux.by = c /\ aux.for = Sidecar[s] /\ aux.done
    /\ aux' = Free
    /\ usage' = Unknown
    /\ SetStream(c, s, "closed")
    /\ UNCHANGED <<disk, logical, owners, phase, prepare, granted, errors, chunks, faults>>

-----------------------------------------------------------------------------
(* A capture ends.                                                          *)

\* Mutant of Over: one stream is enough.
OverFirst(c) == \E s \in StreamSet : stream[c][s] \in {"closed", "failed"}

Over(c) == \A s \in StreamSet : stream[c][s] \in {"closed", "failed"}

ProcessEnds(c) ==
    /\ c \in Commands /\ granted[c] = {}
    /\ Advance(c, "capture", "close")
    /\ UNCHANGED <<disk, accounts, owners, aux, prepare, capture, faults>>

\* The manifest of a job when it starts, of a command when it succeeds, of a
\* job when its finisher decides; JOB_LOCK is held for a job.
SaveManifest(c) ==
    /\ \/ phase[c] = "register" /\ AuxCharge(c, "running", c, "manifest")
       \/ c \in Commands /\ phase[c] = "close" /\ Over(c) /\ c \notin errors
          /\ AuxCharge(c, "completed", c, "manifest")
       \/ phase[c] = "publish" /\ AuxCharge(c, IF c \in errors THEN "failed" ELSE "completed", c, "manifest")
    /\ SetPhase(c, CASE phase[c] = "register" -> "registering"
                  [] phase[c] = "close"    -> "saving"
                  [] phase[c] = "publish"  -> "publishing")
    /\ UNCHANGED <<size, recent, owners, prepare, capture, faults>>

Saved(c) ==
    /\ aux.by = c /\ AuxSettle(c, aux.for)
    /\ \/ Advance(c, "registering", "capture")
       \/ Advance(c, "saving", "succeeded")
       \/ Advance(c, "publishing", "release")
    /\ UNCHANGED <<disk, logical, owners, prepare, capture, faults>>

\* A job that cannot be registered is unwound, a command that cannot be recorded
\* is aborted; a finisher that cannot publish only lets go of the job.
SaveFails(c) ==
    /\ \/ /\ phase[c] \in {"registering", "saving", "publishing"}
          /\ AuxFails(c, aux.for)
          /\ usage' = Unknown /\ UNCHANGED <<group, logical>>
       \/ phase[c] \in {"register", "publish"} /\ AuxDenied(c)
       \/ c \in Commands /\ phase[c] = "close" /\ Over(c) /\ c \notin errors /\ AuxDenied(c)
    /\ SetPhase(c, IF phase[c] \in {"publish", "publishing"} THEN "unpublished" ELSE "unwind")
    /\ UNCHANGED <<size, recent, owners, prepare, capture>>

\* Everything of the artifact goes: fail_start of a job, abort_capture of a command.
Unwind(c) ==
    /\ phase[c] = "unwind" \/ (c \in Commands /\ phase[c] = "close" /\ Over(c) /\ c \in errors)
    /\ Abort(c, {}, {})
    /\ leased' = leased \ {c}
    /\ stream' = [stream EXCEPT ![c] = [s \in StreamSet |-> "failed"]]
    /\ granted' = [granted EXCEPT ![c] = {}]
    /\ errors' = errors \union {c}
    /\ SetPhase(c, "failed")
    /\ UNCHANGED <<size, recent, aux, prepare, chunks, faults>>

\* finish_heavy_audit reads the manifest and aborts a failed capture but for it.
\* A manifest that is not there ends the finisher.
Decide(c) ==
    /\ c \in Jobs /\ phase[c] = "capture"
    /\ \A s \in StreamSet : stream[c][s] \in {"closed", "failed", "stuck"}
    /\ IF manifest[c] = "none"
       THEN SetPhase(c, "unpublished") /\ UNCHANGED <<group, active, accounts, stream>>
       ELSE /\ SetPhase(c, "publish")
            /\ IF c \in errors
               THEN /\ Abort(c, {c}, {})
                    /\ stream' = [stream EXCEPT ![c] = [s \in StreamSet |-> "failed"]]
               ELSE UNCHANGED <<group, active, accounts, stream>>
    /\ UNCHANGED <<size, recent, leased, aux, prepare, granted,
                   errors, chunks, faults>>

Release(c) ==
    /\ phase[c] \in {"release", "unpublished"}
    /\ leased' = leased \ {c}
    /\ SetPhase(c, IF phase[c] = "unpublished" THEN "lost"
                ELSE IF c \in errors THEN "failed" ELSE "succeeded")
    /\ UNCHANGED <<disk, accounts, active, aux, prepare, capture, faults>>

-----------------------------------------------------------------------------
(* Time, readers and the maintenance thread.                                *)

\* read_artifact refreshes what it has read.
ReadPage(i) ==
    /\ manifest[i] # "none" /\ StreamSet \intersect files[i] # {}
    /\ recent' = Touch(i)
    /\ UNCHANGED <<files, size, manifest, dropped, accounts, owners, aux, phase, prepare, capture, faults>>

\* The maintenance thread.
Maintain ==
    /\ \E expired \in SUBSET Deletable : Evict(expired)
    /\ usage' = Unknown
    /\ UNCHANGED <<size, recent, logical, owners, aux, phase, prepare, capture, faults>>

Opening(c) ==
    \/ Start(c) \/ ReadManifest(c) \/ Spare(c) \/ MarkStale(c) \/ Marked(c)
    \/ Cleanup(c) \/ Admit(c) \/ OpenFails(c)
    \/ \E s \in StreamSet : OpenStream(c, s)

Capturing(c, s) ==
    \/ Claim(c, s) \/ ClaimDenied(c, s) \/ Write(c, s) \/ WriteFails(c, s)
    \/ BeginClose(c, s) \/ Flush(c, s) \/ FlushFails(c, s) \/ Unlist(c, s) \/ Finish(c, s)
    \/ Digest(c, s) \/ Digested(c, s)

Ending(c) ==
    \/ ProcessEnds(c) \/ SaveManifest(c) \/ Saved(c) \/ SaveFails(c)
    \/ Unwind(c) \/ Decide(c) \/ Release(c)

StoreNext ==
    \/ \E c \in Captures : Opening(c) \/ Ending(c) \/ \E s \in StreamSet : Capturing(c, s)
    \/ \E i \in Ids : ReadPage(i)
    \/ AuxReplace \/ Maintain

StoreSpec == StoreInit /\ [][StoreNext]_storeVars

-----------------------------------------------------------------------------
(* Properties.                                                              *)

Statuses == {"none", "running", "completed", "failed"}
Phases == {"idle", "reconcile", "judge", "mark", "scanned", "enter", "register", "registering",
           "capture", "close", "saving", "publish", "publishing", "release", "unwind",
           "unpublished", "succeeded", "failed", "lost"}
Stages == {"none", "open", "stuck", "flush", "sidecar", "unlist", "digest", "writing",
           "closed", "failed"}

\* Every variable has its type; no counter leaves its range.
StoreTypeOK ==
    /\ files \in [Ids -> SUBSET Names]
    /\ size \in [Ids -> [StreamSet -> 0..Chunks + 1]]
    /\ manifest \in [Ids -> Statuses]
    /\ recent \subseteq Ids \X Ids /\ Strict(recent) /\ Compares(recent, {i \in Ids : Exists(i)})
    /\ leased \subseteq Ids /\ dropped \subseteq Captures
    /\ usage \in Nat \union {Unknown}
    /\ logical \in [Ids -> Nat]
    /\ active \in [Ids -> 0..Cardinality(StreamSet)]
    /\ aux.by \in Captures \union {NoId} /\ aux.id \in Ids \union {NoId}
    /\ aux.old \in {0, 1} /\ aux.done \in BOOLEAN
    /\ phase \in [Captures -> Phases]
    /\ todo \in [Captures -> SUBSET Ids] /\ look \in [Captures -> Ids \union {NoId}]
    /\ stream \in [Captures -> [StreamSet -> Stages]]
    /\ granted \in [Captures -> SUBSET StreamSet]
    /\ errors \subseteq Captures /\ faults \in 0..Faults

Still(c) == phase'[c] = phase[c] /\ stream'[c] = stream[c]

\* BOUNDED_OUTPUT.md: "Active artifacts are never evicted."  What others do,
\* by eviction, expiry or maintenance, takes no file of an owned artifact, nor its manifest.
OwnedKept ==
    [][\A c \in Captures : Owned(c) /\ Still(c) => Held(c) \subseteq Held(c)']_storeVars

\* What the streams of a capture have written or are about to write, chunk by chunk.
Taken(c) == {u \in StreamSet \X (1..Chunks + 1) :
    u[2] <= size[c][u[1]] \/ (u[2] = size[c][u[1]] + 1 /\ u[1] \in granted[c])}

\* What the store has charged to an artifact is what its streams have written or
\* are about to write, through failed writes and evictions of others, and the
\* limit of one artifact holds for its streams together.
LogicalIsBytes ==
    \A c \in Captures : active[c] > 0 /\ c \notin errors =>
        /\ logical[c] <= ArtifactMax
        /\ logical[c] = Cardinality(Taken(c))

\* A capture that was reported as a success has all its files and a completed
\* manifest, unless the store has dropped it since.  (The manifest of a job may
\* be overwritten by a reconciliation that read it before the verdict.)
SuccessIsWhole ==
    \A c \in Captures : phase[c] = "succeeded" /\ c \notin dropped =>
        /\ files[c] = Names
        /\ c \in Commands => manifest[c] = "completed"

\* A capture that failed, at whichever of its steps, owns nothing any more and
\* leaves no output behind; a job leaves the manifest that says so.
FailedLeavesNothing ==
    \A c \in Captures : phase[c] = "failed" =>
        /\ ~Owned(c) /\ logical[c] = 0
        /\ files[c] = {} /\ manifest[c] \in {"none", "failed"}

\* Only one capture has begun.
Alone == \A c, d \in Captures : phase[c] # "idle" /\ phase[d] # "idle" => c = d

\* The chunks that were charged and are on their way to a file.
Flying == {u \in Captures \X StreamSet \X (1..Chunks + 1) : u[2] \in granted[u[1]] /\ u[3] = size[u[1]][u[2]] + 1}

\* While one capture runs, the first, the cached total falls short of what is on disk by one
\* chunk or metadata file per stream at most, and so the disk exceeds the quota by
\* no more: through eviction, rollback, replaced manifests, and a maintenance pass
\* anywhere in between.  A pass counts the total afresh: it misses what is charged
\* and not yet written, and what is given back after it was there to be counted.
AccountedAlone ==
    Alone /\ aux = Free =>
        /\ usage # Unknown => Cardinality(Stored(Ids) \union Flying) <= usage + Cardinality(StreamSet)
        /\ (\E c \in Captures, s \in StreamSet : stream[c][s] # "none")
              => Cardinality(Stored(Ids) \union Flying) <= Quota + Cardinality(StreamSet)

\* How a capture ends: with everything, or with nothing.
CapturesSafe == SuccessIsWhole /\ FailedLeavesNothing

\* What is charged, to an artifact and to the quota, and the types of all that says so.
AccountsSafe == StoreTypeOK /\ LogicalIsBytes /\ AccountedAlone

\* test_bounded_output.py: a job whose capture fails ends as "failed" and its
\* manifest says so.  It does not when the failure is that of close.
JobKeepsManifest ==
    \A j \in Jobs : phase[j] \in {"capture", "publish"} => manifest[j] # "none"

\* BOUNDED_OUTPUT.md: a completed manifest promises the complete output.  A
\* command owns nothing between its last sidecar and its manifest.
CompletedIsWhole ==
    \A c \in Captures : manifest[c] = "completed" => StreamSet \subseteq files[c]

=============================================================================
