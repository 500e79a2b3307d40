----------------------------- MODULE Transfers ------------------------------
(***************************************************************************)
(* file_transfer.py.  Files are received from the chat under one name,     *)
(* while other programs make and remove that name.  Shared screenshots are *)
(* files that a timer, the next share, a late reader and the maintenance   *)
(* thread all may remove; time passes in ticks.                            *)
(***************************************************************************)
EXTENDS Naturals, FiniteSets, Functions

CONSTANTS
    Loaders,    \* requests that receive a file
    MaxChunks,  \* FILE_TRANSFER_IMPORT_MAX_BYTES, in chunks
    Sharers,    \* requests that share a screenshot or read one
    Keeper,     \* the maintenance thread
    ShareIds,   \* names of shared screenshots; a fresh one for each share
    MaxShares,  \* _COMPUTER_SHARE_MAX_FILES
    TTL,        \* _COMPUTER_SHARE_TTL_SECONDS, in ticks
    Restarts    \* bound on server restarts

VARIABLES
    target,     \* the destination: "none", "other" or the request that made it
    temps,      \* requests whose temporary download is on disk
    downloads,  \* [pc, got]: the requests
    loadCrashes
VARIABLES
    shares,     \* id -> age, in ticks up to TTL, of the files in the share directory
    timers,     \* id -> ticks left
    sharing,    \* [pc, doomed, id]: the requests and the keeper
    shareCrashes

downloadVars == <<target, temps, downloads, loadCrashes>>
shareVars == <<shares, timers, sharing, shareCrashes>>
Actors == Sharers \union {Keeper}

\* What the constants must be.
ASSUME TransfersAssumption ==
    /\ {MaxChunks, Restarts} \subseteq Nat /\ {MaxShares, TTL} \subseteq Nat \ {0}
    /\ Loaders \intersect {"none", "other"} = {}
    /\ IsFiniteSet(Sharers) /\ Keeper \notin Sharers /\ "" \notin ShareIds

-----------------------------------------------------------------------------
(* receive_chat_file.                                                       *)

NoDownload == [pc |-> "idle", got |-> 0]

DownloadInit ==
    /\ target \in {"none", "other"} /\ temps = {} /\ loadCrashes = 0
    /\ downloads = [c \in Loaders |-> NoDownload]

LoadTo(c, pc) == downloads' = [downloads EXCEPT ![c].pc = pc]
LoadEnd(c) == downloads' = [downloads EXCEPT ![c] = NoDownload]

\* The checks; a preview and a request for an existing destination end here.
Receive(c) ==
    /\ downloads[c].pc = "idle" /\ target = "none" /\ LoadTo(c, "connect")
    /\ UNCHANGED <<target, temps, loadCrashes>>

\* Every hop has to be a public https address, and the announced length within the limit.
Connect(c) ==
    /\ downloads[c].pc = "connect"
    /\ \/ LoadEnd(c) /\ UNCHANGED temps
       \/ downloads' = [downloads EXCEPT ![c].pc = "chunk", ![c].got = 0] /\ temps' = temps \union {c}
    /\ UNCHANGED <<target, loadCrashes>>

\* Mutant of Chunk: the temporary file is removed only when the download failed.
ChunkKept(c) ==
    /\ downloads[c].pc = "chunk"
    /\ \/ downloads[c].got < MaxChunks /\ downloads' = [downloads EXCEPT ![c].got = @ + 1] /\ UNCHANGED temps
       \/ downloads[c].got = MaxChunks /\ LoadEnd(c) /\ UNCHANGED temps
       \/ LoadEnd(c) /\ temps' = temps \ {c}
       \/ LoadTo(c, "link") /\ UNCHANGED temps
    /\ UNCHANGED <<target, loadCrashes>>

\* Mutant of Chunk: one chunk more than the limit is taken.
ChunkOneMore(c) ==
    /\ downloads[c].pc = "chunk"
    /\ \/ downloads[c].got <= MaxChunks /\ downloads' = [downloads EXCEPT ![c].got = @ + 1] /\ UNCHANGED temps
       \/ downloads[c].got > MaxChunks /\ LoadEnd(c) /\ temps' = temps \ {c}
       \/ LoadEnd(c) /\ temps' = temps \ {c}
       \/ LoadTo(c, "link") /\ UNCHANGED temps
    /\ UNCHANGED <<target, loadCrashes>>

\* One chunk, one too many, a failure, or the end of the file.
Chunk(c) ==
    /\ downloads[c].pc = "chunk"
    /\ \/ downloads[c].got < MaxChunks /\ downloads' = [downloads EXCEPT ![c].got = @ + 1] /\ UNCHANGED temps
       \/ downloads[c].got = MaxChunks /\ LoadEnd(c) /\ temps' = temps \ {c}
       \/ LoadEnd(c) /\ temps' = temps \ {c}
       \/ LoadTo(c, "link") /\ UNCHANGED temps
    /\ UNCHANGED <<target, loadCrashes>>

\* Mutant of Link: the file is renamed onto its destination.
LinkReplace(c) ==
    /\ downloads[c].pc = "link" /\ target' = c /\ LoadTo(c, "linked")
    /\ UNCHANGED <<temps, loadCrashes>>

\* os.link, which fails when somebody else made the destination meanwhile, ...
Link(c) ==
    /\ downloads[c].pc = "link"
    /\ IF target = "none" THEN target' = c /\ LoadTo(c, "linked") ELSE LoadTo(c, "late") /\ UNCHANGED target
    /\ UNCHANGED <<temps, loadCrashes>>

\* ... and the removal of the temporary name.
Linked(c) ==
    /\ downloads[c].pc \in {"linked", "late"} /\ temps' = temps \ {c}
    /\ LoadEnd(c)
    /\ UNCHANGED <<target, loadCrashes>>

\* Another program makes the destination, or takes it away.
Other ==
    /\ target' = IF target = "none" THEN "other" ELSE "none"
    /\ UNCHANGED <<temps, downloads, loadCrashes>>

\* A restart ends the requests and leaves their temporary files.
DownloadCrash ==
    /\ loadCrashes < Restarts /\ loadCrashes' = loadCrashes + 1
    /\ downloads' = [c \in Loaders |-> NoDownload] /\ UNCHANGED <<target, temps>>

DownloadWorks(c) == Connect(c) \/ Chunk(c) \/ Link(c) \/ Linked(c)

DownloadNext == (\E c \in Loaders : Receive(c) \/ DownloadWorks(c)) \/ Other \/ DownloadCrash

DownloadSpec == DownloadInit /\ [][DownloadNext]_downloadVars

-----------------------------------------------------------------------------
(* Shared screenshots.                                                      *)

NoShare == [pc |-> "idle", doomed |-> {}, id |-> ""]

ShareInit ==
    /\ shares = <<>> /\ timers = <<>> /\ shareCrashes = 0
    /\ sharing = [c \in Actors |-> NoShare]

ShareTo(c, pc) == sharing' = [sharing EXCEPT ![c].pc = pc]
ShareEnd(c) == sharing' = [sharing EXCEPT ![c] = NoShare]
WithShare(f, x, t) == [y \in DOMAIN f \union {x} |-> IF y = x THEN t ELSE f[y]]
WithoutShare(f, x) == Restrict(f, DOMAIN f \ {x})
Expired(id) == shares[id] >= TTL

-----------------------------------------------------------------------------
(* materialize_computer_snapshot and cleanup_computer_shares.               *)

\* The oldest of a set, so many that with one more there are at most MaxShares: equal ages in any order.
Oldest(S) ==
    {D \in SUBSET S : /\ Cardinality(S \ D) < MaxShares /\ (D # {} => Cardinality(S \ D) = MaxShares - 1)
                      /\ \A d \in D, k \in S \ D : shares[d] >= shares[k]}
Unexpired == {id \in DOMAIN shares : ~Expired(id)}

\* Mutant of Scan: what is too old is only left out of the count.
ScanLive(c) ==
    /\ sharing[c].pc = "idle"
    /\ \E doomed \in Oldest(Unexpired) : sharing' = [sharing EXCEPT ![c].pc = "evict", ![c].doomed = doomed]
    /\ UNCHANGED <<shares, timers, shareCrashes>>

\* The scan of the directory: what is too old goes, and what makes room for one more is chosen.
Scan(c) ==
    /\ sharing[c].pc = "idle"
    /\ shares' = Restrict(shares, Unexpired)
    /\ \E doomed \in Oldest(Unexpired) : sharing' = [sharing EXCEPT ![c].pc = "evict", ![c].doomed = doomed]
    /\ UNCHANGED <<timers, shareCrashes>>

Evicted(c) == IF c = Keeper THEN ShareEnd(c) ELSE sharing' = [sharing EXCEPT ![c] = [NoShare EXCEPT !.pc = "create"]]

\* Mutant of Evict: the new share is not counted, one of the old ones stays.
EvictLess(c) ==
    /\ sharing[c].pc = "evict"
    /\ LET stays == CHOOSE id \in sharing[c].doomed \union {Keeper} : sharing[c].doomed # {} => id # Keeper
       IN  shares' = Restrict(shares, DOMAIN shares \ (sharing[c].doomed \ {stays}))
    /\ Evicted(c) /\ UNCHANGED <<timers, shareCrashes>>

Evict(c) ==
    /\ sharing[c].pc = "evict"
    /\ shares' = Restrict(shares, DOMAIN shares \ sharing[c].doomed)
    /\ Evicted(c) /\ UNCHANGED <<timers, shareCrashes>>

\* Names are random: none that is on disk, has a timer or is on the way.
Fresh == ShareIds \ (DOMAIN shares \union DOMAIN timers \union {sharing[c].id : c \in Actors})

MakeShare(c) ==
    /\ sharing[c].pc = "create" /\ Fresh # {}
    /\ LET id == CHOOSE id \in Fresh : TRUE IN
       shares' = WithShare(shares, id, 0) /\ sharing' = [sharing EXCEPT ![c].pc = "export", ![c].id = id]
    /\ UNCHANGED <<timers, shareCrashes>>

\* Mutant of Export: a share that could not be exported stays.
ExportKeeping(c) ==
    /\ sharing[c].pc = "export" /\ UNCHANGED <<shares, timers, shareCrashes>>
    /\ (sharing[c].id \in DOMAIN shares /\ ShareTo(c, "timer")) \/ ShareEnd(c)

\* _export_target: the file is read back, and may be gone or too large.
Export(c) ==
    /\ sharing[c].pc = "export" /\ UNCHANGED <<timers, shareCrashes>>
    /\ \/ sharing[c].id \in DOMAIN shares /\ ShareTo(c, "timer") /\ UNCHANGED shares
       \/ ShareEnd(c) /\ shares' = WithoutShare(shares, sharing[c].id)

\* Mutant of StartTimer: the timer is set a tick too long.
StartTimerLong(c) ==
    /\ sharing[c].pc = "timer"
    /\ timers' = WithShare(timers, sharing[c].id, TTL + 1) /\ ShareEnd(c)
    /\ UNCHANGED <<shares, shareCrashes>>

StartTimer(c) ==
    /\ sharing[c].pc = "timer"
    /\ timers' = WithShare(timers, sharing[c].id, TTL) /\ ShareEnd(c)
    /\ UNCHANGED <<shares, shareCrashes>>

Timer(id) ==
    /\ id \in DOMAIN timers /\ timers[id] = 0
    /\ timers' = WithoutShare(timers, id) /\ shares' = WithoutShare(shares, id)
    /\ UNCHANGED <<sharing, shareCrashes>>

-----------------------------------------------------------------------------
(* read_export_resource of a share, and time.                               *)

\* The uri is checked again: a share that is too old is removed and refused, any other is read.
ReadShare(c, id) ==
    /\ sharing[c].pc = "idle" /\ id \in DOMAIN shares /\ Expired(id)
    /\ shares' = WithoutShare(shares, id)
    /\ UNCHANGED <<timers, sharing, shareCrashes>>

\* A second passes for everything that is not over.
Tick ==
    /\ \A id \in DOMAIN timers : timers[id] > 0
    /\ shares' = [id \in DOMAIN shares |-> IF Expired(id) THEN TTL ELSE shares[id] + 1]
    /\ timers' = [id \in DOMAIN timers |-> timers[id] - 1]
    /\ UNCHANGED <<sharing, shareCrashes>>

\* The timers and the calls are threads of the server, the files are not.
ShareCrash ==
    /\ shareCrashes < Restarts /\ shareCrashes' = shareCrashes + 1
    /\ timers' = <<>> /\ sharing' = [c \in Actors |-> NoShare]
    /\ UNCHANGED shares

ShareWorks(c) ==
    \/ Evict(c) \/ MakeShare(c) \/ Export(c) \/ StartTimer(c)

ShareNext ==
    \/ \E c \in Sharers, id \in ShareIds : ReadShare(c, id)
    \/ \E c \in Actors : Scan(c)
    \/ \E c \in Actors : ShareWorks(c)
    \/ \E id \in ShareIds : Timer(id)
    \/ Tick \/ ShareCrash

ShareSpec == ShareInit /\ [][ShareNext]_shareVars

-----------------------------------------------------------------------------
\* A download is where its code can be and has read at most the limit.
DownloadTypeOK ==
    /\ downloads \in [Loaders -> [pc : {"idle", "connect", "chunk", "link", "linked", "late"}, got : 0..MaxChunks]]
    /\ target \in {"none", "other"} \union Loaders /\ temps \subseteq Loaders /\ loadCrashes \in 0..Restarts

\* docs/FILE_TRANSFER.md:81 "never overwrites an existing destination": also not one that
\* appears during the download.
NeverOverwritten == [][target # "none" => target' \in {target, "none"}]_downloadVars

\* However a download ends, its temporary file is gone afterwards; only a restart leaves one.
NoTempLeft == loadCrashes = 0 => \A c \in temps : downloads[c].pc \in {"chunk", "link", "linked", "late"}

\* A share's age and a timer never pass the lifetime, and a call is where its code can be.
ShareTypeOK ==
    /\ shares \in [DOMAIN shares -> 0..TTL] /\ timers \in [DOMAIN timers -> 0..TTL]
    /\ DOMAIN shares \union DOMAIN timers \subseteq ShareIds
    /\ shareCrashes \in 0..Restarts
    /\ \A c \in Actors : sharing[c].pc \in {"idle", "evict", "create", "export", "timer"}

\* The shares on disk are at most the limit and one more for each other call that had made room
\* for itself before it saw the file.
SharesBounded == Cardinality(DOMAIN shares) < MaxShares + Cardinality(Sharers)

\* While the server runs, every share that somebody made, and nobody is making, has a timer that
\* removes it: however the making ended, and whoever removes shares meanwhile.
SharesTimed ==
    shareCrashes = 0 => \A id \in DOMAIN shares : id \in DOMAIN timers \/ \E c \in Sharers : sharing[c].id = id

\* docs/COMPUTER_USE.md:126 "At most four recent shared screenshots are retained."
AtMostMax == Cardinality(DOMAIN shares) <= MaxShares

\* No temporary file and no shared screenshot stays behind, and the shares are as many as the
\* limit and the requests allow.
TransfersSafe ==
    DownloadTypeOK /\ NoTempLeft /\ ShareTypeOK /\ SharesBounded /\ SharesTimed
=============================================================================
