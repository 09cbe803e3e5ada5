-------------------------- MODULE FileRepository --------------------------
(***************************************************************************)
(* repository.FileRepository (internal/repository/file.go): the maps of    *)
(* MemoryRepository, which its methods repeat line by line, and a JSONL    *)
(* file.  Save appends one line and then updates the maps; SaveBatch       *)
(* updates the maps and then rewrites the whole file; deletions reach the  *)
(* file with the next rewrite; Close rewrites it; a start loads it.        *)
(*                                                                         *)
(* The process can be killed, and a system call on the file can fail.  The *)
(* mutex is held during a rewrite, so no other call sees its middle, but   *)
(* a crash does.  While the server is down the maps keep the values they   *)
(* had, for the properties to compare with; a start overwrites them.  The  *)
(* definitions introduced as slips are mutations, not part of the          *)
(* specification.                                                          *)
(***************************************************************************)
EXTENDS MemoryRepository

CONSTANTS
  Torn,           \* a line of the file that is not valid JSON
  TooLong(_),     \* whether a record's line does not fit the buffer of load's bufio.Scanner
  MaxErrors,      \* BOUND: system calls that fail
  PartialWrites,  \* whether a failing write may leave part of its line behind
  CrashInFlush    \* whether the process may be killed during a rewrite

ASSUME TornAssumption == Torn \notin [uuid : Nat, id : IDs, url : URLs,
                                      user : Owner, del : BOOLEAN]
ASSUME MaxErrorsAssumption == MaxErrors \in Nat
ASSUME PartialWritesAssumption == PartialWrites \in BOOLEAN
ASSUME CrashInFlushAssumption == CrashInFlush \in BOOLEAN

VARIABLES
  file,           \* the lines of the file
  nextUUID,       \* number for the next appended line
  server,         \* "up", "down", "clean" (down after Close), "failed" to start
  flush,          \* who rewrites the file: "no" one, a "batch", or "close"
  left,           \* ids the rewrite has still to write
  pending,        \* links to be acknowledged when the batch's rewrite is done
  acked,          \* history: links that a client has been given
  disk,           \* history: the file is "good", "behind" the maps, or links are "lost"
  errors          \* how many system calls have failed

diskVars == <<file, nextUUID, flush, left, pending>>
vars == <<repoVars, diskVars, server, acked, errors, disk>>

Record == [uuid : Nat, id : IDs, url : URLs, user : Owner, del : BOOLEAN]
Link == [id : IDs, url : URLs]

TypeOK ==
  /\ RepoType
  /\ file \in Seq(Record \cup {Torn})
  /\ nextUUID \in Nat \ {0}
  /\ server \in {"up", "down", "clean", "failed"}
  /\ flush \in {"no", "batch", "close"}
  /\ left \subseteq IDs
  /\ pending \subseteq Link
  /\ acked \subseteq Link
  /\ errors \in 0..MaxErrors
  /\ disk \in {"good", "behind", "lost"}

LinksOf(es) == {[id |-> es[k].id, url |-> es[k].url] : k \in DOMAIN es}

\* The records of the file
Lines == {file[k] : k \in DOMAIN file} \ {Torn}

\* No line is torn: json.Unmarshal takes them all.
Whole == \A k \in DOMAIN file : file[k] # Torn

\* Scan ends, with ErrTooLong, at a line of 64 KiB, which Save and flush write like any other.
Loadable == Whole /\ \A l \in Lines : ~TooLong(l)

Ready == server = "up" /\ flush = "no"

\* The file no longer has what the maps have, until a rewrite is complete.
FallBehind == disk' = IF disk = "good" THEN "behind" ELSE disk

\* The process ends: what only the maps had is gone.
LoseMaps == disk' = IF disk = "behind" THEN "lost" ELSE disk

----------------------------------------------------------------------------
(* Appending                                                               *)

\* Slip: the file is opened with O_TRUNC instead of O_APPEND.
ExtendTruncates(line) == <<line>>

\* What follows an unterminated line becomes part of it.  (What follows that is a line
\* again, and is left out with it: no load comes past a torn line.)
Extend(line) == IF file # <<>> /\ file[Len(file)] = Torn THEN file
                ELSE Append(file, line)

\* Slip: the user is left out of the record.
RecordWithoutUser(e) == [uuid |-> nextUUID, id |-> e.id, url |-> e.url,
                         user |-> None, del |-> FALSE]

\* A new link is not deleted.
RecordOf(e) == [uuid |-> nextUUID, id |-> e.id, url |-> e.url, user |-> e.user,
                del |-> FALSE]

FileSave(e) ==
  /\ Ready
  /\ Save(e)
  /\ file' = Extend(RecordOf(e))
  /\ nextUUID' = nextUUID + 1
  /\ acked' = acked \cup LinksOf(<<e>>)
  /\ UNCHANGED <<flush, left, pending, server, errors, disk>>

\* OpenFile or Write fails, the latter with part of the line written.
FileSaveFails(e) ==
  /\ Ready /\ errors < MaxErrors
  /\ SaveOutcome(<<e>>) = "ok"
  /\ \/ UNCHANGED <<file, disk>>
     \/ PartialWrites /\ file' = Extend(Torn) /\ FallBehind
  /\ errors' = errors + 1
  /\ UNCHANGED <<repoVars, nextUUID, flush, left, pending, server, acked>>

\* The process is killed with the line written and the maps not yet updated.
CrashInSave(e) ==
  /\ Ready
  /\ SaveOutcome(<<e>>) = "ok"
  /\ file' = Extend(RecordOf(e))
  /\ server' = "down"
  /\ LoseMaps
  /\ UNCHANGED <<repoVars, nextUUID, flush, left, pending, acked, errors>>

----------------------------------------------------------------------------
(* Rewriting the file                                                      *)

\* Slip: the rewrite takes the maps from before the call.
TruncateEarly(who, d) ==
  /\ flush' = who
  /\ file' = <<>>
  /\ left' = {i \in IDs : data[i] # None}
  /\ FallBehind

\* Slip: the file is opened for appending.
TruncateNot(who, d) ==
  /\ flush' = who
  /\ file' = file
  /\ left' = {i \in IDs : d[i] # None}
  /\ FallBehind

\* os.Create empties the file; every id of the map d is still to be written.
Truncate(who, d) ==
  /\ flush' = who
  /\ file' = <<>>
  /\ left' = {i \in IDs : d[i] # None}
  /\ FallBehind

\* SaveBatch: the maps are updated and the file is emptied.
FileSaveBatch(es) ==
  /\ Ready
  /\ SaveBatch(es)
  /\ nextUUID' = nextUUID + Len(es)
  /\ Truncate("batch", data')
  /\ pending' = LinksOf(es)
  /\ UNCHANGED <<server, acked, errors>>

\* SaveBatch: os.Create fails and so does the call; the maps stay updated.
FileSaveBatchFails(es) ==
  /\ Ready /\ errors < MaxErrors
  /\ SaveBatch(es)
  /\ nextUUID' = nextUUID + Len(es)
  /\ errors' = errors + 1
  /\ FallBehind
  /\ UNCHANGED <<file, flush, left, pending, server, acked>>

\* Slips: the flag, or the owner, is forgotten in the rewrite.
FlushedNotDeleted(i) == [uuid |-> Len(file) + 1, id |-> i, url |-> data[i],
                         user |-> owners[i], del |-> FALSE]
FlushedNotOwned(i) == [uuid |-> Len(file) + 1, id |-> i, url |-> data[i],
                       user |-> Anonymous, del |-> i \in deleted]

Flushed(i) == [uuid |-> Len(file) + 1, id |-> i, url |-> data[i],
               user |-> owners[i], del |-> i \in deleted]

\* One line of the rewrite, in the random order of the map.
FlushLine(i) ==
  /\ server = "up" /\ flush # "no"
  /\ i \in left
  /\ file' = Append(file, Flushed(i))
  /\ left' = left \ {i}
  /\ UNCHANGED <<repoVars, nextUUID, flush, pending, server, acked, errors, disk>>

\* A write fails: the call returns the error with the file cut short.  After
\* a Close the process exits all the same.
FlushFails ==
  /\ server = "up" /\ flush # "no"
  /\ left # {} /\ errors < MaxErrors
  /\ file' = file \/ (PartialWrites /\ file' = Append(file, Torn))
  /\ errors' = errors + 1
  /\ flush' = "no"
  /\ left' = {}
  /\ pending' = {}
  /\ IF flush = "close" THEN server' = "down" /\ LoseMaps ELSE UNCHANGED <<server, disk>>
  /\ UNCHANGED <<repoVars, nextUUID, acked>>

FlushDone ==
  /\ server = "up" /\ flush # "no"
  /\ left = {}
  /\ flush' = "no"
  /\ pending' = {}
  /\ acked' = acked \cup pending
  /\ server' = IF flush = "close" THEN "clean" ELSE "up"
  /\ disk' = IF disk = "behind" THEN "good" ELSE disk
  /\ UNCHANGED <<repoVars, file, nextUUID, left, errors>>

----------------------------------------------------------------------------
(* Deleting, answering, and the life of the process                        *)

\* Only the map is updated.
FileDeleteUserURLs(ids, u) ==
  /\ Ready
  /\ DeleteUserURLs(ids, u)
  /\ UNCHANGED <<diskVars, server, acked, errors, disk>>

\* A client that shortens a known url is given the link found in the maps.
FileLookup(u) ==
  /\ Ready
  /\ GetByOriginalURL(u) # None
  /\ acked' = acked \cup {[id |-> GetByOriginalURL(u), url |-> u]}
  /\ UNCHANGED <<repoVars, diskVars, server, errors, disk>>

\* Close begins its rewrite, or fails to and the process exits.
FileClose ==
  /\ Ready
  /\ Truncate("close", data)
  /\ UNCHANGED <<repoVars, nextUUID, pending, server, acked, errors>>

FileCloseFails ==
  /\ Ready /\ errors < MaxErrors
  /\ errors' = errors + 1
  /\ server' = "down"
  /\ LoseMaps
  /\ UNCHANGED <<repoVars, diskVars, acked>>

Crash ==
  /\ server = "up"
  /\ flush # "no" => CrashInFlush
  /\ server' = "down"
  /\ flush' = "no"
  /\ left' = {}
  /\ pending' = {}
  /\ LoseMaps
  /\ UNCHANGED <<repoVars, file, nextUUID, acked, errors>>

\* Slip: the counter starts again.
FirstUUID == 1

\* One more than the largest number in the file.
NextUUID == CHOOSE n \in 1..1 + Len(file) + nextUUID :
  /\ \A l \in Lines : l.uuid < n
  /\ n = 1 \/ \E l \in Lines : l.uuid = n - 1

\* applyRecord for each line, a later line over an earlier one.
Load ==
  LET withID(i)  == {k \in DOMAIN file : file[k].id = i}
      withURL(u) == {k \in DOMAIN file : file[k].url = u}
  IN  /\ data' = [i \in IDs |-> IF withID(i) = {} THEN None
                                ELSE file[LastOf(withID(i))].url]
      /\ owners' = [i \in IDs |-> IF withID(i) = {} THEN None
                                  ELSE file[LastOf(withID(i))].user]
      /\ reverse' = [u \in URLs |-> IF withURL(u) = {} THEN None
                                    ELSE file[LastOf(withURL(u))].id]
      /\ userURLs' = [u \in Users |-> Listed(file, u)]
      /\ deleted' = {l.id : l \in {m \in Lines : m.del}}
      /\ nextUUID' = NextUUID

\* NewFileRepository: os.ReadFile fails, and the server has to be started again.
StartFails ==
  /\ server \in {"down", "clean"} /\ errors < MaxErrors
  /\ errors' = errors + 1
  /\ UNCHANGED <<repoVars, diskVars, server, acked, disk>>

\* NewFileRepository; the server does not start, now or later, if a line cannot be read.
Start ==
  /\ server \in {"down", "clean"}
  /\ IF Loadable THEN Load /\ server' = "up"
                 ELSE server' = "failed" /\ UNCHANGED <<repoVars, nextUUID>>
  /\ UNCHANGED <<file, flush, left, pending, acked, errors, disk>>

----------------------------------------------------------------------------
(* The specification                                                       *)

\* The entries of a batch have ids of their own.
BatchesOf(n) == {es \in [1..n -> Entry] :
                   /\ \A j, k \in 1..n : es[j].id = es[k].id => j = k
                   /\ \A j, k \in 1..n : es[j].user = es[k].user}

Init ==
  /\ RepoInit
  /\ file = <<>>
  /\ nextUUID = 1
  /\ server = "up"
  /\ flush = "no"
  /\ left = {}
  /\ pending = {}
  /\ acked = {}
  /\ errors = 0
  /\ disk = "good"

Next ==
  \/ \E e \in Entry : FileSave(e) \/ FileSaveFails(e) \/ CrashInSave(e)
  \/ \E n \in 1..MaxBatch : \E es \in BatchesOf(n) :
       FileSaveBatch(es) \/ FileSaveBatchFails(es)
  \/ \E i \in IDs : FlushLine(i)
  \/ FlushFails \/ FlushDone
  \/ \E ids \in (SUBSET IDs) \ {{}}, u \in Users : FileDeleteUserURLs(ids, u)
  \/ \E u \in URLs : FileLookup(u)
  \/ FileClose \/ FileCloseFails \/ Crash \/ Start \/ StartFails

Spec == Init /\ [][Next]_vars

----------------------------------------------------------------------------
(* Properties                                                              *)

\* A link resolves, or could be loaded from the file.
Resolves(l) == data[l.id] = l.url
OnDisk(l) == \E rec \in Lines : rec.id = l.id /\ rec.url = l.url

\* No link that a client has been given is lost: whenever the server is ready
\* for calls, every one of them resolves, over any number of restarts.
AckedSurvive == Ready => \A l \in acked : Resolves(l)

\* The file has the record of every such link, at any moment outside a rewrite.
AckedOnDisk == flush = "no" => \A l \in acked : OnDisk(l)

\* A Save that returns nil has added its record to the file.
SaveAdds ==
  [][\A e \in Entry : FileSave(e) => \E l \in Lines' : l.id = e.id /\ l.url = e.url]_vars

\* What a server has written and closed without any failure, another can load.
CleanRestarts == [][server = "clean" /\ Start => server' = "up"]_vars

\* What remains true with every failure in play.  A server that starts has lost
\* acknowledged links in one way only: a process ended while the file was behind, that is
\* between the failed write, or the truncation, of one rewrite or append and the
\* end of the next rewrite that succeeds.
LostOnlyBehind == disk # "lost" => AckedSurvive

\* A complete rewrite repairs whatever failures have done to the file: then it
\* has every acknowledged link again, and no line is torn, so that a load of it can
\* fail only on a line that is too long.
RewriteRepairs == disk = "good" => AckedOnDisk /\ Whole

\* A Close that succeeded has put links, owners and deletions on disk, each
\* once, whatever failed before it.
CleanRestartExact ==
  server = "clean" =>
    /\ Whole
    /\ \A i \in IDs :
         LET recs == {l \in Lines : l.id = i}
         IN  IF data[i] = None THEN recs = {}
             ELSE /\ Cardinality(recs) = 1
                  /\ \A l \in recs : /\ l.url = data[i]
                                     /\ l.user = owners[i]
                                     /\ l.del <=> i \in deleted

\* Lines keep distinct numbers through appends, rewrites, failures, restarts.
UUIDsDistinct ==
  \A j, k \in DOMAIN file :
    j # k /\ Torn \notin {file[j], file[k]} => file[j].uuid # file[k].uuid

\* The file never contradicts the maps: an id it holds has the url, the owner
\* and no deletion the maps do not have.
FileAgrees ==
  server = "up" =>
    \A l \in Lines : /\ data[l.id] = l.url
                     /\ owners[l.id] = l.user
                     /\ l.del => l.id \in deleted
=============================================================================
