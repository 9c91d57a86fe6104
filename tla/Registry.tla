------------------------------- MODULE Registry -------------------------------
(***************************************************************************)
(* The content registry of HttpRouter.c: files registered under urls at    *)
(* startup, and content_registry_lookup, which re-reads a dynamic resident *)
(* file that has changed and answers conditional requests.                 *)
(*                                                                         *)
(* The server is one thread, but the files belong to other programs: one   *)
(* may be replaced at any moment, also between the stat that finds it      *)
(* changed and the fread that reads it again.  A load is therefore two     *)
(* actions, with the thread's place between them in `job`.  Files are      *)
(* replaced as a whole (by renaming), so one open file has one content.    *)
(*                                                                         *)
(* Contents are abstracted to a version number and a length.  The entity   *)
(* tag W/"<mtime>-<size>" is the pair of its parts, and a date is its      *)
(* number of seconds, which is all that formatting and parsing it keep.    *)
(***************************************************************************)
EXTENDS Integers, FiniteSets

CONSTANTS
  Paths,          \* files
  LongPaths,      \* those whose name does not fit RevalMeta.fs_path
  Truncated,      \* what strncpy makes of such a name; no file is called so
  Urls,
  Registrations,  \* what the program registers before it runs the server
  Sizes,          \* lengths of files
  Conditions,     \* the conditional requests clients send
  Policies,       \* what a replaced file may have in common with its past
  MayRunOut,      \* whether malloc, the scratch arena or open may fail for want of room
  MaxVersion,     \* bound: versions of a file
  MaxRevals,      \* bound: RevalMeta blocks allocated before the server runs
  MaxTime         \* bound: seconds the clock counts

Modes == {"STATIC_RESIDENT", "STATIC_STREAMED", "DYN_RESIDENT", "DYN_STREAMED"}
Resident == {"STATIC_RESIDENT", "DYN_RESIDENT"}

ASSUME RegistryAssumption ==
  /\ LongPaths \subseteq Paths /\ Truncated \notin Paths
  /\ Registrations \subseteq [url : Urls, path : Paths, mode : Modes]
  /\ Sizes \subseteq Nat /\ MaxVersion \in Nat \ {0} /\ MaxTime \in Nat /\ MaxRevals \in Nat
  /\ Conditions \subseteq {"none", "star", "etag", "date", "malformed date", "etag and date"}
  /\ Policies \subseteq {"later second", "other stamp", "any"}
  /\ MayRunOut \in BOOLEAN

VARIABLES
  policy,     \* which of Policies the writers of files keep to (external)
  disk,       \* path -> its file, while there is one, or else the last it had
  stamps,     \* path -> the <<mtime, size>> it has had (history)
  now,        \* the clock, in whole seconds
  registry,   \* url -> its ContentEntry, or NoEntry
  revals,     \* RevalMeta blocks allocated and not freed
  serving,    \* server_run has been called
  job,        \* the load in progress, between its stat and its fread, or Idle
  cache,      \* url -> the last 200 with validators a client got (external)
  reply       \* the last answer (history)

vars == <<policy, disk, stamps, now, registry, revals, serving, job, cache, reply>>

NoBody  == [version |-> 0, len |-> 0, of |-> 0]
NoEntry == [mode |-> "none", path |-> Truncated, fs_path |-> Truncated, reval |-> FALSE,
            etag |-> <<0, 0>>, body |-> NoBody, room |-> 0]
Idle    == [kind |-> "idle"]
NoCopy  == [etag |-> <<0, 0>>, version |-> 0, len |-> 0]
NoReply == [status |-> "none", url |-> "none", cond |-> "none", since |-> 0, etag |-> <<0, 0>>, body |-> NoBody]

File  == [there : BOOLEAN, version : 0 .. MaxVersion, mtime : 0 .. MaxTime, size : Sizes \cup {0}]
Stamp == (0 .. MaxTime) \X (Sizes \cup {0})
Body  == [version : 0 .. MaxVersion, len : Sizes \cup {0}, of : Sizes \cup {0}]
Entry == [mode : Modes \cup {"none"}, path : Paths \cup {Truncated},
          fs_path : Paths \cup {Truncated}, reval : BOOLEAN, etag : Stamp, body : Body,
          room : Nat]

-----------------------------------------------------------------------------
(* The file system (external) *)

Missing(path) == path \notin Paths \/ ~disk[path].there
StampOf(f) == <<f.mtime, f.size>>

(* The stamp a replacement may carry.  mtime counts whole seconds here as  *)
(* it does in RevalMeta, so "any" lets two versions of one second and one  *)
(* length look the same.                                                   *)
Allowed(path, stamp) ==
  CASE policy = "later second" -> \A old \in stamps[path] : old[1] < stamp[1]
    [] policy = "other stamp"  -> stamp \notin stamps[path]
    [] policy = "any"          -> TRUE

Replace(path) ==
  /\ disk[path].version < MaxVersion
  /\ \E size \in Sizes :
       /\ Allowed(path, <<now, size>>)
       /\ disk' = [disk EXCEPT ![path] = [there |-> TRUE, version |-> @.version + 1,
                                               mtime |-> now, size |-> size]]
       /\ stamps' = [stamps EXCEPT ![path] = @ \cup {<<now, size>>}]
  /\ UNCHANGED <<policy, now, registry, revals, serving, job, cache, reply>>

Remove(path) ==
  /\ ~Missing(path)
  /\ disk' = [disk EXCEPT ![path].there = FALSE]
  /\ UNCHANGED <<policy, stamps, now, registry, revals, serving, job, cache, reply>>

Tick ==
  /\ now < MaxTime
  /\ now' = now + 1
  /\ UNCHANGED <<policy, disk, stamps, registry, revals, serving, job, cache, reply>>

-----------------------------------------------------------------------------
(* Loading *)

(* reval_fill: the stamp, and as much of the path as fs_path holds.        *)
Recorded(path) == IF path \in LongPaths THEN Truncated ELSE path

(* file_read: no more than the bytes stat counted, of whatever the file is *)
(* by the time it is opened.                                               *)
file_read(path, size) ==
  LET f == disk[path]
  IN  [version |-> f.version, len |-> IF f.size < size THEN f.size ELSE size, of |-> f.size]

(* Mistake: the tag is made from the size alone. *)
content_entry_load_size_tag(mode, path, stamp) ==
  LET body == file_read(path, stamp[2])
  IN  [mode |-> mode, path |-> path, fs_path |-> Recorded(path), reval |-> TRUE,
       etag |-> <<0, stamp[2]>>, body |-> body, room |-> 0]

(* A resident entry.  room is how many bytes its allocation has left after *)
(* the NUL that ends the data: LEN_BUF_SIZE more than a short read leaves  *)
(* over if static, nothing more if dynamic.  One unit stands for           *)
(* LEN_BUF_SIZE and for what the text of the length needs.                 *)
content_entry_load(mode, path, stamp) ==
  LET body == file_read(path, stamp[2])
  IN  [mode |-> mode, path |-> path,
       fs_path |-> IF mode = "DYN_RESIDENT" THEN Recorded(path) ELSE path,
       reval |-> mode = "DYN_RESIDENT", etag |-> stamp, body |-> body,
       room |-> stamp[2] - body.len + IF mode = "DYN_RESIDENT" THEN 0 ELSE 1]

(* Mistake: the parts of the stamp are swapped. *)
content_entry_streamed_load_swapped(mode, path, stamp) ==
  [mode |-> mode, path |-> path, fs_path |-> Recorded(path), reval |-> TRUE,
   etag |-> <<stamp[2], stamp[1]>>, body |-> NoBody, room |-> 0]

content_entry_streamed_load(mode, path, stamp) ==
  [mode |-> mode, path |-> path, fs_path |-> Recorded(path), reval |-> TRUE, etag |-> stamp,
   body |-> NoBody, room |-> 0]

(* dict_insert frees the value it replaces, that is the entry, which ends  *)
(* with its data; the RevalMeta it points to is a block of its own.        *)
Insert(url, entry) ==
  /\ registry' = [registry EXCEPT ![url] = entry]
  /\ revals' = revals + IF entry.reval THEN 1 ELSE 0

-----------------------------------------------------------------------------
(* Registration, before server_run *)

(* content_registry_add_file: a missing file or a failed allocation        *)
(* registers nothing.  content_registry_add_dir is a sequence of these.    *)
AddFile(r) ==
  /\ ~serving /\ job = Idle /\ ~Missing(r.path) /\ revals < MaxRevals
  /\ IF r.mode \in Resident
     THEN /\ job' = [kind |-> "add", url |-> r.url, path |-> r.path, mode |-> r.mode,
                     stamp |-> StampOf(disk[r.path])]
          /\ UNCHANGED <<registry, revals>>
     ELSE /\ Insert(r.url, content_entry_streamed_load(r.mode, r.path, StampOf(disk[r.path])))
          /\ UNCHANGED job
  /\ UNCHANGED <<policy, disk, stamps, now, serving, cache, reply>>

AddLoad ==
  /\ job.kind = "add"
  /\ job' = Idle
  /\ \/ /\ ~Missing(job.path)
        /\ Insert(job.url, content_entry_load(job.mode, job.path, job.stamp))
     \/ /\ Missing(job.path) \/ MayRunOut
        /\ UNCHANGED <<registry, revals>>
  /\ UNCHANGED <<policy, disk, stamps, now, serving, cache, reply>>

server_run ==
  /\ ~serving /\ job = Idle
  /\ serving' = TRUE
  /\ UNCHANGED <<policy, disk, stamps, now, registry, revals, job, cache, reply>>

-----------------------------------------------------------------------------
(* Answering *)

(* Mistake: a date that matches decides although there is a tag. *)
request_validators_match_either(cond, copy, entry) ==
  \/ cond = "star"
  \/ cond \in {"etag", "etag and date"} /\ copy.etag = entry.etag
  \/ cond \in {"date", "etag and date"} /\ entry.etag[1] <= copy.etag[1]

(* If-None-Match decides alone when it is there.  The validators a client  *)
(* sends are those of the copy it holds.                                   *)
request_validators_match(cond, copy, entry) ==
  CASE cond = "star" -> TRUE
    [] cond \in {"etag", "etag and date"} -> copy.etag = entry.etag
    [] cond = "date" -> entry.etag[1] <= copy.etag[1]
    [] OTHER -> FALSE

Status(status, url) == [NoReply EXCEPT !.status = status, !.url = url]

(* The answer from `entry`, with `body`; since is the version the file had *)
(* when the lookup began.                                                  *)
Answer(status, url, cond, entry, body, since) ==
  [status |-> status, url |-> url, cond |-> cond, since |-> since, etag |-> entry.etag,
   body |-> body]

(* Entries other than static resident ones carry ETag and Last-Modified,   *)
(* which the client keeps with a body.                                     *)
Give(r, mode) ==
  /\ reply' = r
  /\ cache' = IF r.status = "200" /\ mode # "STATIC_RESIDENT"
              THEN [cache EXCEPT ![r.url] = [etag |-> r.etag, version |-> r.body.version,
                                             len |-> r.body.len]]
              ELSE cache

(* A dynamic resident entry that has just been found or made current.      *)
Classify(url, cond, entry, since) ==
  Give(Answer(IF request_validators_match(cond, cache[url], entry) THEN "304" ELSE "200",
              url, cond, entry, entry.body, since), entry.mode)

(* Mistake: only the modification time is compared. *)
Unchanged_mtime(entry, f) == entry.etag[1] = f.mtime

(* Whether stat still shows what the entry was loaded from. *)
Unchanged(entry, f) == entry.etag = StampOf(f)

Asks(url, cond) == cond \in {"none", "star"} \/ cache[url] # NoCopy

LookupMiss(url) ==
  /\ registry[url] = NoEntry
  /\ Give(Status("miss", url), "none")
  /\ UNCHANGED <<registry, revals, job>>

LookupStatic(url) ==
  /\ registry[url].mode = "STATIC_RESIDENT"
  /\ LET entry == registry[url]
     IN  Give(Answer("200", url, "none", entry, entry.body, entry.body.version), entry.mode)
  /\ UNCHANGED <<registry, revals, job>>

(* response_streamed opens the file anew and sends it with the headers of  *)
(* the entry, or answers 500 when it cannot open it or finds no scratch    *)
(* memory for the stream's context; conditions are not looked at.          *)
LookupStreamed(url) ==
  LET entry == registry[url]
      f     == disk[entry.fs_path]
  IN  /\ entry.mode \in {"STATIC_STREAMED", "DYN_STREAMED"}
      /\ \/ /\ Missing(entry.fs_path) \/ MayRunOut
            /\ Give(Status("500", url), entry.mode)
         \/ /\ ~Missing(entry.fs_path)
            /\ Give(Answer("200", url, "none", entry,
                           [version |-> f.version, len |-> f.size, of |-> f.size], f.version),
                    entry.mode)
      /\ UNCHANGED <<registry, revals, job>>

LookupResident(url, cond) ==
  LET entry == registry[url]
      f     == disk[entry.fs_path]
  IN  /\ entry.mode = "DYN_RESIDENT"
      /\ IF Missing(entry.fs_path)
         THEN Give(Status("404", url), entry.mode) /\ UNCHANGED job
         ELSE IF Unchanged(entry, f)
         THEN Classify(url, cond, entry, f.version) /\ UNCHANGED job
         ELSE /\ job' = [kind |-> "lookup", url |-> url, cond |-> cond, path |-> entry.fs_path,
                         stamp |-> StampOf(f), since |-> f.version]
              /\ UNCHANGED <<cache, reply>>
      /\ UNCHANGED <<registry, revals>>

content_registry_lookup(url, cond) ==
  /\ serving /\ job = Idle /\ Asks(url, cond)
  /\ \/ LookupMiss(url)
     \/ LookupStatic(url)
     \/ LookupStreamed(url)
     \/ LookupResident(url, cond)
  /\ UNCHANGED <<policy, disk, stamps, now, serving>>

(* The second half of a lookup that found its file changed.                *)
LookupLoad ==
  /\ job.kind = "lookup"
  /\ job' = Idle
  /\ \/ /\ ~Missing(job.path)
        /\ LET fresh == content_entry_load("DYN_RESIDENT", job.path, job.stamp)
           IN  /\ Insert(job.url, fresh)
               /\ Classify(job.url, job.cond, fresh, job.since)
     \/ /\ Missing(job.path) \/ MayRunOut
        /\ Give(Status("404", job.url), "DYN_RESIDENT")
        /\ UNCHANGED <<registry, revals>>
  /\ UNCHANGED <<policy, disk, stamps, now, serving>>

-----------------------------------------------------------------------------
Init ==
  /\ policy \in Policies
  /\ \E sizes \in [Paths -> Sizes] :
       /\ disk = [p \in Paths |-> [there |-> TRUE, version |-> 1, mtime |-> 0, size |-> sizes[p]]]
       /\ stamps = [p \in Paths |-> {<<0, sizes[p]>>}]
  /\ now = 0
  /\ registry = [u \in Urls |-> NoEntry]
  /\ revals = 0
  /\ serving = FALSE
  /\ job = Idle
  /\ cache = [u \in Urls |-> NoCopy]
  /\ reply = NoReply

Files == (\E p \in Paths : Replace(p) \/ Remove(p)) \/ Tick
Setup == (\E r \in Registrations : AddFile(r)) \/ AddLoad \/ server_run
Serve == (\E u \in Urls, c \in Conditions : content_registry_lookup(u, c)) \/ LookupLoad

Next == Files \/ Setup \/ Serve

Spec == Init /\ [][Next]_vars

-----------------------------------------------------------------------------
(* Properties *)

(* A stamp is a time and a size, in that order, wherever it is kept; what  *)
(* entries, copies and answers hold are versions files had.                *)
TypeOK ==
  /\ policy \in Policies
  /\ disk \in [Paths -> File]
  /\ stamps \in [Paths -> SUBSET Stamp]
  /\ now \in 0 .. MaxTime
  /\ registry \in [Urls -> Entry]
  /\ revals \in Nat
  /\ serving \in BOOLEAN
  /\ job.kind \in {"idle", "add", "lookup"}
  /\ cache \in [Urls -> [etag : Stamp, version : 0 .. MaxVersion, len : Sizes \cup {0}]]
  /\ reply.status \in {"none", "miss", "200", "304", "404", "500"}
  /\ reply.url \in Urls \cup {"none"} /\ reply.etag \in Stamp /\ reply.body \in Body

Dynamic(url) == registry[url].mode = "DYN_RESIDENT"

(* What the comments of HttpRouter.h and HttpRouter.c promise and the code *)
(* does not keep; see the README.                                          *)

(* On a hit the entry holds the whole file, not the part of a longer one   *)
(* that fits the size an earlier stat reported.                            *)
HitIsWhole == reply.status = "200" /\ Dynamic(reply.url) => reply.body.len = reply.body.of

(* Replacing an entry frees all of it: every RevalMeta belongs to an entry *)
(* that is still registered.                                               *)
ReplacedEntryIsFreed == revals = Cardinality({u \in Urls : registry[u].reval})

(* The text of the Content-Length header lies in storage that was          *)
(* allocated for the entry.                                                *)
LengthTextIsBacked ==
  \A u \in Urls : registry[u].mode \in Resident => registry[u].room > 0

(* An entry that is revalidated knows where its file is. *)
SourceIsRecorded == \A u \in Urls : registry[u].reval => registry[u].fs_path = registry[u].path

(* The entity tag of a dynamic streamed answer was made from the file that *)
(* is sent, so it names its length.                                        *)
StreamedTagDescribesBody ==
  reply.status = "200" /\ registry[reply.url].mode = "DYN_STREAMED"
    => reply.etag[2] = reply.body.of

(* A dynamic resident url is never answered, by a body or by a 304, from a *)
(* version older than the one the file had when the request was looked at, *)
(* whatever happens to the file between the stat and the read of a load.   *)
NoStaleAnswer ==
  reply.status \in {"200", "304"} /\ Dynamic(reply.url) => reply.body.version >= reply.since

(* A client that is told its copy is still good holds the version the file *)
(* had when its request was looked at, or a later one: neither validator   *)
(* matches a copy of an earlier version, and the tag outranks the date.  A *)
(* date alone can tell versions apart only if they differ in the second.   *)
NotModifiedIsCurrent ==
  [][ \A u \in Urls :
        /\ reply' # reply /\ reply'.status = "304" /\ reply'.url = u
        /\ cache[u] # NoCopy /\ reply'.cond # "star"
        /\ policy = "later second" \/ reply'.cond # "date"
        => cache[u].version >= reply'.since ]_vars

(* Two answers from a dynamic resident entry with one entity tag have one  *)
(* body, although the tag is made from a stat and the body read later.     *)
EtagNamesBody ==
  [][ \A u \in Urls :
        /\ reply' # reply /\ reply'.status = "200" /\ reply'.url = u
        /\ Dynamic(u)
        /\ cache[u] # NoCopy /\ reply'.etag = cache[u].etag
        => reply'.body.version = cache[u].version /\ reply'.body.len = cache[u].len ]_vars
=============================================================================
