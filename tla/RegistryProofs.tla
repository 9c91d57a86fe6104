----------------------------- MODULE RegistryProofs -----------------------------
(***************************************************************************)
(* The content registry for every set of files, urls, registrations and    *)
(* requests.  The types need nothing of the programs that write the files; *)
(* that answers are current and that a tag names one body needs the stamp  *)
(* of a replaced file to be new, which a size and a time in whole seconds  *)
(* do not ensure by themselves, so those theorems exclude policy "any".    *)
(***************************************************************************)
EXTENDS Registry, TLAPS

-----------------------------------------------------------------------------
(* The inductive invariant *)

(* The thread's place between the two halves of a load. *)
JobOK ==
  /\ job.kind = "add" =>
       /\ ~serving
       /\ job.url \in Urls /\ job.path \in Paths /\ job.mode \in Resident /\ job.stamp \in Stamp
  /\ job.kind = "lookup" =>
       /\ serving
       /\ job.url \in Urls /\ job.path \in Paths /\ job.stamp \in Stamp
       /\ Dynamic(job.url) /\ registry[job.url].fs_path = job.path

TypeInv == TypeOK /\ JobOK

(* The file a url is revalidated against, when its name was kept whole.    *)
Source(u) == registry[u].fs_path
Tracked(u) == Dynamic(u) /\ Source(u) \in Paths

(* A copy some client holds.  None is given before the server runs.        *)
Held(u) == cache[u] # NoCopy

(* The stamp of the file is the last of those it has had. *)
StampsOK ==
  \A p \in Paths :
    /\ StampOf(disk[p]) \in stamps[p]
    /\ policy = "later second" =>
         \A s \in stamps[p] : s = StampOf(disk[p]) \/ s[1] < disk[p].mtime

(* An entry whose tag is the stamp of its file holds the file's version.   *)
EntriesOK ==
  \A u \in Urls : Tracked(u) =>
    /\ registry[u].etag \in stamps[Source(u)]
    /\ registry[u].etag = StampOf(disk[Source(u)])
         => registry[u].body.version = disk[Source(u)].version

(* A copy with the file's present stamp came from the present entry.       *)
CopiesOK ==
  /\ ~serving => \A u \in Urls : ~Held(u)
  /\ \A u \in Urls : Tracked(u) /\ Held(u) =>
       /\ cache[u].etag \in stamps[Source(u)]
       /\ cache[u].etag = StampOf(disk[Source(u)]) => cache[u].etag = registry[u].etag
       /\ cache[u].etag = registry[u].etag
            => /\ cache[u].version = registry[u].body.version
               /\ cache[u].len = registry[u].body.len

(* What a load was begun for: the stamp in hand is newer than the entry    *)
(* and than the client's copy, however the file changes meanwhile.         *)
LoadOK ==
  /\ job.kind \in {"add", "lookup"} => job.stamp \in stamps[job.path]
  /\ job.kind = "lookup" =>
       /\ job.since <= disk[job.path].version
       /\ job.since \in Nat
       /\ registry[job.url].etag # StampOf(disk[job.path])
       /\ Held(job.url) =>
            /\ cache[job.url].etag # job.stamp
            /\ policy = "later second" => cache[job.url].etag[1] < job.stamp[1]

ReplyOK == reply.status \in {"200", "304"} => reply.body.version >= reply.since

IInv ==
  /\ policy # "any"
  /\ TypeInv /\ StampsOK /\ EntriesOK /\ CopiesOK /\ LoadOK /\ ReplyOK

-----------------------------------------------------------------------------
(* Types *)

Copy == [etag : Stamp, version : 0 .. MaxVersion, len : Sizes \cup {0}]
Statuses == {"none", "miss", "200", "304", "404", "500"}

LEMMA Consts ==
  /\ Sizes \subseteq Nat /\ Sizes \cup {0} \subseteq Nat
  /\ MaxVersion \in Nat /\ MaxVersion >= 1 /\ MaxTime \in Nat
  /\ 0 \in 0 .. MaxVersion /\ 1 \in 0 .. MaxVersion /\ 0 \in 0 .. MaxTime
<1>1. Sizes \subseteq Nat /\ MaxVersion \in Nat \ {0} /\ MaxTime \in Nat
  BY RegistryAssumption, Zenon
<1> QED
  BY <1>1

LEMMA Seconds ==
  ASSUME NEW a \in 0 .. MaxTime, NEW b \in 0 .. MaxTime, a <= b
  PROVE  ~(b < a)
<1>1. MaxTime \in Nat
  BY Consts
<1> QED
  BY <1>1

(* The stamp of a file is one. *)
LEMMA DiskFacts ==
  ASSUME TypeOK, NEW p \in Paths
  PROVE  /\ StampOf(disk[p]) \in Stamp /\ StampOf(disk[p])[1] = disk[p].mtime
         /\ disk[p].version \in 0 .. MaxVersion /\ disk[p].size \in Sizes \cup {0}
         /\ disk[p].mtime \in 0 .. MaxTime
<1>1. disk[p] \in File
  BY DEF TypeOK
<1> QED
  BY <1>1 DEF File, Stamp, StampOf

LEMMA VersionIsNat ==
  ASSUME TypeOK, NEW p \in Paths
  PROVE  disk[p].version \in Nat
<1>1. disk[p].version \in 0 .. MaxVersion /\ MaxVersion \in Nat
  BY DiskFacts, Consts
<1> QED
  BY <1>1

(* A read gets the version the file has now, and no more than stat saw.    *)
LEMMA ReadFacts ==
  ASSUME TypeOK, NEW p \in Paths, NEW size \in Sizes \cup {0}
  PROVE  /\ file_read(p, size) \in Body
         /\ file_read(p, size).version = disk[p].version
         /\ file_read(p, size).len \in Nat /\ file_read(p, size).len <= size
<1> DEFINE f == disk[p]
           len == IF f.size < size THEN f.size ELSE size
<1>1. f.version \in 0 .. MaxVersion /\ f.size \in Sizes \cup {0}
  BY DiskFacts
<1>2. file_read(p, size) = [version |-> f.version, len |-> len, of |-> f.size]
  BY DEF file_read
<1>3. f.size \in Nat /\ size \in Nat
  BY <1>1, Consts
<1>4. len \in Sizes \cup {0} /\ len \in Nat /\ len <= size
  BY <1>1, <1>3
<1> HIDE DEF len
<1> QED
  BY <1>1, <1>2, <1>4 DEF Body

LEMMA LoadFacts ==
  ASSUME TypeOK, NEW p \in Paths, NEW mode \in Resident, NEW stamp \in Stamp
  PROVE  LET e == content_entry_load(mode, p, stamp)
         IN  /\ e \in Entry /\ e.mode = mode /\ e.etag = stamp
             /\ e.fs_path \in {p, Truncated}
             /\ e.body.version = disk[p].version
<1> DEFINE body == file_read(p, stamp[2])
<1>1. stamp[2] \in Sizes \cup {0} /\ stamp[2] \in Nat
  BY Consts DEF Stamp
<1>2. body \in Body /\ body.version = disk[p].version /\ body.len \in Nat /\ body.len <= stamp[2]
  BY <1>1, ReadFacts
<1>3. content_entry_load(mode, p, stamp) =
        [mode |-> mode, path |-> p, fs_path |-> IF mode = "DYN_RESIDENT" THEN Recorded(p) ELSE p,
         reval |-> mode = "DYN_RESIDENT", etag |-> stamp, body |-> body,
         room |-> stamp[2] - body.len + IF mode = "DYN_RESIDENT" THEN 0 ELSE 1]
  BY DEF content_entry_load
<1> HIDE DEF body
<1>4. stamp[2] - body.len + (IF mode = "DYN_RESIDENT" THEN 0 ELSE 1) \in Nat
  BY <1>1, <1>2
<1>5. mode \in Modes /\ Recorded(p) \in {p, Truncated}
  BY DEF Resident, Modes, Recorded
<1> QED
  BY <1>2, <1>3, <1>4, <1>5 DEF Entry

LEMMA InsertOK ==
  ASSUME TypeOK, NEW u \in Urls, NEW e \in Entry, Insert(u, e)
  PROVE  /\ registry' \in [Urls -> Entry] /\ revals' \in Nat
         /\ registry'[u] = e
         /\ \A v \in Urls : v # u => registry'[v] = registry[v]
<1>1. registry \in [Urls -> Entry] /\ revals \in Nat
  BY DEF TypeOK
<1> QED
  BY <1>1 DEF Insert

(* What an answer does to the client's copy of its url.                    *)
LEMMA GiveOK ==
  ASSUME TypeOK, NEW u \in Urls, NEW r, NEW mode, Give(r, mode),
         r.url = u, r.status \in Statuses, r.etag \in Stamp, r.body \in Body
  PROVE  /\ reply' = r
         /\ cache' \in [Urls -> Copy]
         /\ reply'.status \in Statuses /\ reply'.url \in Urls \cup {"none"}
         /\ reply'.etag \in Stamp /\ reply'.body \in Body
         /\ \A v \in Urls : v # u => cache'[v] = cache[v]
         /\ cache'[u] = cache[u] \/ /\ r.status = "200" /\ cache'[u].etag = r.etag
                                    /\ cache'[u].version = r.body.version
                                    /\ cache'[u].len = r.body.len
         /\ r.status # "200" => cache' = cache
<1>1. cache \in [Urls -> Copy]
  BY DEF TypeOK, Copy
<1>2. r.body.version \in 0 .. MaxVersion /\ r.body.len \in Sizes \cup {0}
  BY DEF Body
<1>3. reply' = r /\ cache' = IF r.status = "200" /\ mode # "STATIC_RESIDENT"
              THEN [cache EXCEPT ![u] = [etag |-> r.etag, version |-> r.body.version,
                                             len |-> r.body.len]]
              ELSE cache
  BY DEF Give
<1> DEFINE copy == [etag |-> r.etag, version |-> r.body.version, len |-> r.body.len]
<1>4. copy \in Copy /\ copy.etag = r.etag /\ copy.version = r.body.version /\ copy.len = r.body.len
  BY <1>2 DEF Copy
<1>5. cache' = cache \/ (r.status = "200" /\ cache' = [cache EXCEPT ![u] = copy])
  BY <1>3
<1> HIDE DEF copy
<1>6. CASE cache' = cache
  BY <1>1, <1>3, <1>6
<1>7. CASE r.status = "200" /\ cache' = [cache EXCEPT ![u] = copy]
  BY <1>1, <1>3, <1>4, <1>7
<1> QED
  BY <1>5, <1>6, <1>7

LEMMA StatusIs ==
  ASSUME NEW s \in Statuses, NEW u
  PROVE  /\ Status(s, u).status = s /\ Status(s, u).url = u
         /\ Status(s, u).etag \in Stamp /\ Status(s, u).body \in Body
BY Consts DEF Status, NoReply, NoBody, Stamp, Body

LEMMA AnswerIs ==
  ASSUME NEW s, NEW u, NEW cond, NEW e, NEW body, NEW since
  PROVE  LET r == Answer(s, u, cond, e, body, since)
         IN  /\ r.status = s /\ r.url = u /\ r.cond = cond /\ r.since = since
             /\ r.etag = e.etag /\ r.body = body
BY DEF Answer

-----------------------------------------------------------------------------
(* Type correctness *)

(* What the actions on files leave alone keeps its type.                   *)
Served == <<registry, revals, serving, job, cache, reply>>

LEMMA FilesTyped == TypeInv /\ Files => TypeInv'
<1> SUFFICES ASSUME TypeInv, Files PROVE TypeInv'
  OBVIOUS
<1>1. disk \in [Paths -> File] /\ stamps \in [Paths -> SUBSET Stamp] /\ now \in 0 .. MaxTime
  BY DEF TypeInv, TypeOK
<1>2. UNCHANGED policy /\ UNCHANGED Served
  BY DEF Files, Replace, Remove, Tick, Served
<1> DEFINE Typed == disk' \in [Paths -> File] /\ stamps' \in [Paths -> SUBSET Stamp] /\ now' \in 0 .. MaxTime
<1>3. Typed
  <2>1. ASSUME NEW p \in Paths, Replace(p) PROVE Typed
    <3>1. PICK size \in Sizes :
            /\ disk' = [disk EXCEPT ![p] = [there |-> TRUE, version |-> @.version + 1,
                                            mtime |-> now, size |-> size]]
            /\ stamps' = [stamps EXCEPT ![p] = @ \cup {<<now, size>>}]
      BY <2>1 DEF Replace
    <3>2. disk[p].version + 1 \in 0 .. MaxVersion
      BY <1>1, <2>1, DiskFacts, Consts DEF Replace, TypeInv
    <3> DEFINE f == [there |-> TRUE, version |-> disk[p].version + 1, mtime |-> now, size |-> size]
    <3>3. f \in File
      BY <1>1, <3>2 DEF File
    <3>4. disk' = [disk EXCEPT ![p] = f]
      BY <3>1
    <3>5. <<now, size>> \in Stamp
      BY <1>1 DEF Stamp
    <3> HIDE DEF f
    <3> QED
      BY <1>1, <2>1, <3>1, <3>3, <3>4, <3>5 DEF Replace
  <2>2. ASSUME NEW p \in Paths, Remove(p) PROVE Typed
    <3>1. disk' = [disk EXCEPT ![p] = [@ EXCEPT !.there = FALSE]] /\ UNCHANGED <<stamps, now>>
      BY <2>2 DEF Remove
    <3>2. [disk[p] EXCEPT !.there = FALSE] \in File
      BY <1>1 DEF File
    <3> QED
      BY <1>1, <3>1, <3>2
  <2>3. CASE Tick
    BY <1>1, <2>3, Consts DEF Tick
  <2> QED
    BY <2>1, <2>2, <2>3 DEF Files
<1>4. TypeOK'
  BY <1>2, <1>3 DEF TypeInv, TypeOK, Served
<1>5. JobOK'
  BY <1>2 DEF TypeInv, JobOK, Dynamic, Served
<1> QED
  BY <1>4, <1>5 DEF TypeInv

LEMMA StreamedEntry ==
  ASSUME NEW mode \in Modes, NEW p \in Paths, NEW stamp \in Stamp
  PROVE  content_entry_streamed_load(mode, p, stamp) \in Entry
<1>1. 0 \in Nat /\ NoBody \in Body
  BY Consts DEF NoBody, Body
<1>2. Recorded(p) \in Paths \cup {Truncated}
  BY DEF Recorded
<1> QED
  BY <1>1, <1>2 DEF content_entry_streamed_load, Entry

LEMMA AddFileTyped == \A r \in Registrations : TypeInv /\ AddFile(r) => TypeInv'
<1> SUFFICES ASSUME NEW r \in Registrations, TypeInv, AddFile(r) PROVE TypeInv'
  OBVIOUS
<1>1. r.url \in Urls /\ r.path \in Paths /\ r.mode \in Modes
  BY RegistryAssumption
<1>2. UNCHANGED <<policy, disk, stamps, now, serving, cache, reply>> /\ ~serving
  BY DEF AddFile
<1>3. TypeOK
  BY DEF TypeInv
<1>4. StampOf(disk[r.path]) \in Stamp
  BY <1>1, <1>3, DiskFacts
<1>5. CASE r.mode \in Resident
  <2>1. /\ job' = [kind |-> "add", url |-> r.url, path |-> r.path, mode |-> r.mode,
                   stamp |-> StampOf(disk[r.path])]
        /\ UNCHANGED <<registry, revals>>
    BY <1>5 DEF AddFile
  <2>2. TypeOK'
    BY <1>2, <1>3, <2>1 DEF TypeOK
  <2>3. JobOK'
    BY <1>1, <1>2, <1>4, <1>5, <2>1 DEF JobOK
  <2> QED
    BY <2>2, <2>3 DEF TypeInv
<1>6. CASE r.mode \notin Resident
  <2> DEFINE e == content_entry_streamed_load(r.mode, r.path, StampOf(disk[r.path]))
  <2>1. job = Idle /\ UNCHANGED job /\ Insert(r.url, e)
    BY <1>6 DEF AddFile
  <2>2. e \in Entry
    BY <1>1, <1>4, StreamedEntry
  <2> HIDE DEF e
  <2>3. registry' \in [Urls -> Entry] /\ revals' \in Nat
    BY <1>1, <1>3, <2>1, <2>2, InsertOK
  <2>4. TypeOK'
    BY <1>2, <1>3, <2>1, <2>3 DEF TypeOK
  <2>5. JobOK'
    BY <2>1 DEF JobOK, Idle
  <2> QED
    BY <2>4, <2>5 DEF TypeInv
<1> QED
  BY <1>5, <1>6

LEMMA AddLoadTyped == TypeInv /\ AddLoad => TypeInv'
<1> SUFFICES ASSUME TypeInv, AddLoad PROVE TypeInv'
  OBVIOUS
<1>1. /\ job.url \in Urls /\ job.path \in Paths /\ job.mode \in Resident /\ job.stamp \in Stamp
      /\ TypeOK
  BY DEF AddLoad, TypeInv, JobOK
<1>2. UNCHANGED <<policy, disk, stamps, now, serving, cache, reply>> /\ job' = Idle
  BY DEF AddLoad
<1> DEFINE e == content_entry_load(job.mode, job.path, job.stamp)
<1>3. e \in Entry
  BY <1>1, LoadFacts
<1>4. Insert(job.url, e) \/ UNCHANGED <<registry, revals>>
  BY DEF AddLoad
<1> HIDE DEF e
<1>5. registry' \in [Urls -> Entry] /\ revals' \in Nat
  BY <1>1, <1>3, <1>4, InsertOK DEF TypeOK
<1>6. job'.kind = "idle"
  BY <1>2 DEF Idle
<1>7. TypeOK'
  BY <1>1, <1>2, <1>5, <1>6 DEF TypeOK
<1>8. JobOK'
  BY <1>6 DEF JobOK
<1> QED
  BY <1>7, <1>8 DEF TypeInv

LEMMA ServerRunTyped == TypeInv /\ server_run => TypeInv'
<1> SUFFICES ASSUME TypeInv, server_run PROVE TypeInv'
  OBVIOUS
<1>1. job = Idle /\ UNCHANGED job /\ serving' = TRUE
      /\ UNCHANGED <<policy, disk, stamps, now, registry, revals, cache, reply>>
  BY DEF server_run
<1>2. TypeOK'
  BY <1>1 DEF TypeInv, TypeOK
<1>3. JobOK'
  BY <1>1 DEF JobOK, Idle
<1> QED
  BY <1>2, <1>3 DEF TypeInv

-----------------------------------------------------------------------------
(* What a lookup does *)

(* The answers.  One with a body or a 304 comes from an entry that is not  *)
(* revalidated, and is then as old as the request, or from one whose tag   *)
(* is the present stamp of its file.                                       *)
AnswerOK(u, c, r) ==
  /\ r.url = u /\ r.status \in Statuses /\ r.etag \in Stamp /\ r.body \in Body
  /\ r.status \in {"200", "304"} =>
       \/ ~Dynamic(u) /\ r.status = "200" /\ r.since = r.body.version
       \/ /\ Tracked(u)
          /\ registry[u].etag = StampOf(disk[Source(u)])
          /\ r.since = disk[Source(u)].version /\ r.cond = c
          /\ r.etag = registry[u].etag /\ r.body = registry[u].body
          /\ r.status = "304" => request_validators_match(c, cache[u], registry[u])

(* A load is begun when the file has another stamp than the entry.         *)
Begun(u, c) ==
  /\ Tracked(u)
  /\ registry[u].etag # StampOf(disk[Source(u)])
  /\ job' = [kind |-> "lookup", url |-> u, cond |-> c, path |-> Source(u),
             stamp |-> StampOf(disk[Source(u)]), since |-> disk[Source(u)].version]
  /\ UNCHANGED <<cache, reply>>

LEMMA StatusAnswers ==
  ASSUME NEW u \in Urls, NEW c, NEW s \in {"miss", "404", "500"}
  PROVE  AnswerOK(u, c, Status(s, u))
<1>1. s \in Statuses /\ s # "200" /\ s # "304"
  BY DEF Statuses
<1>2. /\ Status(s, u).status = s /\ Status(s, u).url = u
      /\ Status(s, u).etag \in Stamp /\ Status(s, u).body \in Body
  BY <1>1, StatusIs
<1> QED
  BY <1>1, <1>2 DEF AnswerOK

LEMMA StaticAnswers ==
  ASSUME TypeInv, NEW u \in Urls, NEW c, LookupStatic(u)
  PROVE  \E r, mode : Give(r, mode) /\ AnswerOK(u, c, r)
<1> DEFINE e == registry[u]
           r == Answer("200", u, "none", e, e.body, e.body.version)
<1>1. Give(r, e.mode) /\ e.mode = "STATIC_RESIDENT"
  BY DEF LookupStatic
<1>2. e.etag \in Stamp /\ e.body \in Body
  BY DEF TypeInv, TypeOK, Entry
<1>3. /\ r.status = "200" /\ r.url = u /\ r.since = e.body.version /\ r.etag = e.etag /\ r.body = e.body
  BY AnswerIs
<1>4. AnswerOK(u, c, r)
  <2> HIDE DEF r
  <2> QED
    BY <1>1, <1>2, <1>3 DEF AnswerOK, Statuses, Dynamic
<1> QED
  BY <1>1, <1>4

LEMMA StreamedAnswers ==
  ASSUME TypeInv, NEW u \in Urls, NEW c, LookupStreamed(u)
  PROVE  \E r, mode : Give(r, mode) /\ AnswerOK(u, c, r)
<1> DEFINE e == registry[u]
           f == disk[e.fs_path]
           body == [version |-> f.version, len |-> f.size, of |-> f.size]
           r == Answer("200", u, "none", e, body, f.version)
<1>1. /\ e.mode # "DYN_RESIDENT"
      /\ Give(Status("500", u), e.mode) \/ (~Missing(e.fs_path) /\ Give(r, e.mode))
  BY DEF LookupStreamed
<1>2. CASE Give(Status("500", u), e.mode)
  BY <1>1, <1>2, StatusAnswers
<1>3. CASE ~Missing(e.fs_path) /\ Give(r, e.mode)
  <2>1. f.version \in 0 .. MaxVersion /\ f.size \in Sizes \cup {0}
    BY <1>3, DiskFacts DEF Missing, TypeInv
  <2>2. body \in Body /\ body.version = f.version
    BY <2>1 DEF Body
  <2>3. e.etag \in Stamp
    BY DEF TypeInv, TypeOK, Entry
  <2> HIDE DEF body
  <2>4. r.status = "200" /\ r.url = u /\ r.since = f.version /\ r.etag = e.etag /\ r.body = body
    BY AnswerIs
  <2>5. AnswerOK(u, c, r)
    <3> HIDE DEF r
    <3> QED
      BY <1>1, <2>2, <2>3, <2>4 DEF AnswerOK, Statuses, Dynamic
  <2>6. Give(r, e.mode)
    BY <1>1, <1>3
  <2> QED
    BY <2>5, <2>6
<1> QED
  BY <1>1, <1>2, <1>3

LEMMA ResidentAnswers ==
  ASSUME TypeInv, NEW u \in Urls, NEW c, LookupResident(u, c)
  PROVE  \/ UNCHANGED job /\ \E r, mode : Give(r, mode) /\ AnswerOK(u, c, r)
         \/ Begun(u, c)
<1> DEFINE e == registry[u]
           f == disk[e.fs_path]
           s == IF request_validators_match(c, cache[u], e) THEN "304" ELSE "200"
           r == Answer(s, u, c, e, e.body, f.version)
<1>1. e.mode = "DYN_RESIDENT"
  BY DEF LookupResident
<1>2. CASE Missing(e.fs_path)
  <2>1. Give(Status("404", u), e.mode) /\ UNCHANGED job
    BY <1>2 DEF LookupResident
  <2> QED
    BY <2>1, StatusAnswers
<1>3. CASE ~Missing(e.fs_path) /\ Unchanged(e, f)
  <2>1. Give(r, e.mode) /\ UNCHANGED job
    BY <1>3 DEF LookupResident, Classify
  <2>2. e.etag \in Stamp /\ e.body \in Body
    BY DEF TypeInv, TypeOK, Entry
  <2>3. Tracked(u) /\ e.etag = StampOf(f)
    BY <1>1, <1>3 DEF Missing, Tracked, Dynamic, Source, Unchanged
  <2>4. /\ r.status = s /\ r.url = u /\ r.cond = c /\ r.since = f.version
        /\ r.etag = e.etag /\ r.body = e.body
    BY AnswerIs
  <2>5. s \in {"200", "304"} /\ (s = "304" => request_validators_match(c, cache[u], e))
    OBVIOUS
  <2>6. AnswerOK(u, c, r)
    <3> HIDE DEF r, s
    <3> QED
      BY <2>2, <2>3, <2>4, <2>5 DEF AnswerOK, Statuses, Source
  <2> QED
    BY <2>1, <2>6
<1>4. CASE ~Missing(e.fs_path) /\ ~Unchanged(e, f)
  <2>1. /\ job' = [kind |-> "lookup", url |-> u, cond |-> c, path |-> e.fs_path,
                   stamp |-> StampOf(f), since |-> f.version]
        /\ UNCHANGED <<cache, reply>>
    BY <1>4 DEF LookupResident
  <2> QED
    BY <1>1, <1>4, <2>1 DEF Begun, Missing, Tracked, Dynamic, Source, Unchanged
<1> QED
  BY <1>2, <1>3, <1>4

LEMMA LookupCases ==
  ASSUME TypeInv, NEW u \in Urls, NEW c, content_registry_lookup(u, c)
  PROVE  /\ serving /\ job = Idle
         /\ UNCHANGED <<policy, disk, stamps, now, serving, registry, revals>>
         /\ \/ UNCHANGED job /\ \E r, mode : Give(r, mode) /\ AnswerOK(u, c, r)
            \/ Begun(u, c)
<1>1. /\ serving /\ job = Idle
      /\ UNCHANGED <<policy, disk, stamps, now, serving, registry, revals>>
  BY DEF content_registry_lookup, LookupMiss, LookupStatic, LookupStreamed, LookupResident
<1>2. CASE LookupMiss(u)
  BY <1>1, <1>2, StatusAnswers DEF LookupMiss
<1>3. CASE LookupStatic(u)
  BY <1>1, <1>3, StaticAnswers DEF LookupStatic
<1>4. CASE LookupStreamed(u)
  <2>1. UNCHANGED job
    BY <1>4 DEF LookupStreamed
  <2> QED
    BY <1>1, <1>4, <2>1, StreamedAnswers
<1>5. CASE LookupResident(u, c)
  BY <1>1, <1>5, ResidentAnswers
<1> QED
  BY <1>1, <1>2, <1>3, <1>4, <1>5 DEF content_registry_lookup

LEMMA LookupTyped == \A u \in Urls, c \in Conditions : TypeInv /\ content_registry_lookup(u, c) => TypeInv'
<1> SUFFICES ASSUME NEW u \in Urls, NEW c \in Conditions, TypeInv, content_registry_lookup(u, c)
             PROVE  TypeInv'
  OBVIOUS
<1>1. /\ serving /\ job = Idle
      /\ UNCHANGED <<policy, disk, stamps, now, serving, registry, revals>>
  BY LookupCases
<1>2. CASE UNCHANGED job /\ \E r, mode : Give(r, mode) /\ AnswerOK(u, c, r)
  <2>1. PICK r, mode : Give(r, mode) /\ AnswerOK(u, c, r)
    BY <1>2
  <2>2. /\ cache' \in [Urls -> Copy]
        /\ reply'.status \in Statuses /\ reply'.url \in Urls \cup {"none"}
        /\ reply'.etag \in Stamp /\ reply'.body \in Body
    BY <2>1, GiveOK DEF AnswerOK, TypeInv
  <2>3. TypeOK'
    BY <1>1, <1>2, <2>2 DEF TypeInv, TypeOK, Copy, Statuses
  <2>4. JobOK'
    BY <1>1, <1>2 DEF JobOK, Idle
  <2> QED
    BY <2>3, <2>4 DEF TypeInv
<1>3. CASE Begun(u, c)
  <2>1. Tracked(u) /\ StampOf(disk[Source(u)]) \in Stamp
    BY <1>3, DiskFacts DEF Begun, Tracked, TypeInv
  <2>2. /\ job'.kind = "lookup" /\ job'.url = u /\ job'.path = Source(u)
        /\ job'.stamp = StampOf(disk[Source(u)]) /\ UNCHANGED <<cache, reply>>
    BY <1>3 DEF Begun
  <2>3. TypeOK'
    BY <1>1, <2>2 DEF TypeInv, TypeOK
  <2>4. JobOK'
    BY <1>1, <2>1, <2>2 DEF JobOK, Dynamic, Tracked, Source
  <2> QED
    BY <2>3, <2>4 DEF TypeInv
<1> QED
  BY <1>2, <1>3, LookupCases

(* The second half of a load either replaces the entry and answers from    *)
(* the new one, or fails and leaves the old one.                           *)
Fresh == content_entry_load("DYN_RESIDENT", job.path, job.stamp)

LEMMA LoadCases ==
  ASSUME TypeInv, LookupLoad
  PROVE  /\ job.kind = "lookup" /\ job'.kind = "idle"
         /\ UNCHANGED <<policy, disk, stamps, now, serving>>
         /\ \/ /\ Insert(job.url, Fresh)
               /\ \E r, mode : /\ Give(r, mode)
                               /\ r.url = job.url /\ r.status \in {"200", "304"} /\ r.cond = job.cond
                               /\ r.since = job.since /\ r.etag = Fresh.etag /\ r.body = Fresh.body
                               /\ r.status = "304" => request_validators_match(job.cond, cache[job.url], Fresh)
            \/ /\ UNCHANGED <<registry, revals>>
               /\ Give(Status("404", job.url), "DYN_RESIDENT")
<1>1. /\ job.kind = "lookup" /\ job'.kind = "idle"
      /\ UNCHANGED <<policy, disk, stamps, now, serving>>
  BY DEF LookupLoad, Idle
<1>2. CASE Insert(job.url, Fresh) /\ Classify(job.url, job.cond, Fresh, job.since)
  <2> DEFINE s == IF request_validators_match(job.cond, cache[job.url], Fresh) THEN "304" ELSE "200"
             r == Answer(s, job.url, job.cond, Fresh, Fresh.body, job.since)
  <2>1. Give(r, Fresh.mode)
    BY <1>2 DEF Classify
  <2>2. /\ r.status = s /\ r.url = job.url /\ r.cond = job.cond /\ r.since = job.since
        /\ r.etag = Fresh.etag /\ r.body = Fresh.body
    BY AnswerIs
  <2>3. s \in {"200", "304"} /\ (s = "304" => request_validators_match(job.cond, cache[job.url], Fresh))
    OBVIOUS
  <2> HIDE DEF r, s
  <2> QED
    BY <1>1, <1>2, <2>1, <2>2, <2>3
<1>3. CASE UNCHANGED <<registry, revals>> /\ Give(Status("404", job.url), "DYN_RESIDENT")
  BY <1>1, <1>3
<1> QED
  BY <1>2, <1>3 DEF LookupLoad, Fresh

LEMMA LookupLoadTyped == TypeInv /\ LookupLoad => TypeInv'
<1> SUFFICES ASSUME TypeInv, LookupLoad PROVE TypeInv'
  OBVIOUS
<1>1. /\ job.kind = "lookup" /\ job'.kind = "idle"
      /\ UNCHANGED <<policy, disk, stamps, now, serving>>
  BY LoadCases
<1>2. TypeOK /\ job.url \in Urls /\ job.path \in Paths /\ job.stamp \in Stamp
  BY <1>1 DEF TypeInv, JobOK
<1>3. Fresh \in Entry /\ Fresh.etag \in Stamp /\ Fresh.body \in Body
  <2>1. Fresh \in Entry
    BY <1>2, LoadFacts DEF Fresh, Resident
  <2> QED
    BY <2>1 DEF Entry
<1>4. registry' \in [Urls -> Entry] /\ revals' \in Nat
  <2>1. CASE Insert(job.url, Fresh)
    BY <1>2, <1>3, <2>1, InsertOK
  <2>2. CASE UNCHANGED <<registry, revals>>
    BY <1>2, <2>2 DEF TypeOK
  <2> QED
    BY <2>1, <2>2, LoadCases
<1>5. \E r, mode : /\ Give(r, mode) /\ r.url = job.url /\ r.status \in Statuses
                   /\ r.etag \in Stamp /\ r.body \in Body
  <2>1. /\ Status("404", job.url).status \in Statuses /\ Status("404", job.url).url = job.url
        /\ Status("404", job.url).etag \in Stamp /\ Status("404", job.url).body \in Body
    BY StatusIs DEF Statuses
  <2>2. {"200", "304"} \subseteq Statuses
    BY DEF Statuses
  <2> QED
    BY <1>3, <2>1, <2>2, LoadCases
<1>6. /\ cache' \in [Urls -> Copy]
      /\ reply'.status \in Statuses /\ reply'.url \in Urls \cup {"none"}
      /\ reply'.etag \in Stamp /\ reply'.body \in Body
  BY <1>2, <1>5, GiveOK
<1>7. TypeOK'
  BY <1>1, <1>2, <1>4, <1>6 DEF TypeOK, Copy, Statuses
<1>8. JobOK'
  BY <1>1 DEF JobOK
<1> QED
  BY <1>7, <1>8 DEF TypeInv

LEMMA InitTyped == Init => TypeInv
<1> SUFFICES ASSUME Init PROVE TypeInv
  OBVIOUS
<1>1. PICK sizes \in [Paths -> Sizes] :
        /\ disk = [p \in Paths |-> [there |-> TRUE, version |-> 1, mtime |-> 0, size |-> sizes[p]]]
        /\ stamps = [p \in Paths |-> {<<0, sizes[p]>>}]
  BY DEF Init
<1>2. disk \in [Paths -> File] /\ stamps \in [Paths -> SUBSET Stamp]
  BY <1>1, Consts DEF File, Stamp
<1>3. NoEntry \in Entry /\ NoCopy \in Copy /\ <<0, 0>> \in Stamp /\ NoBody \in Body
  BY Consts DEF NoEntry, NoBody, NoCopy, Entry, Copy, Stamp, Body
<1>4. job.kind = "idle" /\ reply = NoReply
  BY DEF Init, Idle
<1>5. /\ reply.status \in {"none", "miss", "200", "304", "404", "500"}
      /\ reply.url \in Urls \cup {"none"} /\ reply.etag \in Stamp /\ reply.body \in Body
  BY <1>3, <1>4 DEF NoReply
<1>6. registry \in [Urls -> Entry] /\ cache \in [Urls -> Copy]
  BY <1>3 DEF Init
<1>7. policy \in Policies /\ now \in 0 .. MaxTime /\ revals \in Nat /\ serving \in BOOLEAN
  BY Consts DEF Init
<1>8. TypeOK
  BY <1>2, <1>4, <1>5, <1>6, <1>7 DEF TypeOK, Copy
<1> QED
  BY <1>4, <1>8 DEF TypeInv, JobOK

LEMMA TypeKept == TypeInv /\ [Next]_vars => TypeInv'
<1>1. ASSUME TypeInv, UNCHANGED vars PROVE TypeInv'
  BY <1>1 DEF TypeInv, TypeOK, JobOK, Dynamic, vars
<1> QED
  BY <1>1, FilesTyped, AddFileTyped, AddLoadTyped, ServerRunTyped, LookupTyped, LookupLoadTyped
  DEF Next, Setup, Serve

(* Entries, copies and answers hold stamps and versions files had, and a   *)
(* load under way is for a url, whoever writes the files and however.      *)
THEOREM TypeCorrect == Spec => []TypeOK
<1>1. TypeInv => TypeOK
  BY DEF TypeInv
<1> QED
  BY InitTyped, TypeKept, <1>1, PTL DEF Spec

-----------------------------------------------------------------------------
(* Freshness *)

(* A file either keeps its stamp and its version, or gets a stamp it has   *)
(* not had.                                                                *)
Kept(p) ==
  /\ StampOf(disk'[p]) = StampOf(disk[p]) /\ disk'[p].version = disk[p].version
  /\ disk'[p].mtime = disk[p].mtime /\ stamps'[p] = stamps[p]

Renewed(p) ==
  /\ StampOf(disk'[p]) \notin stamps[p]
  /\ stamps'[p] = stamps[p] \cup {StampOf(disk'[p])}
  /\ disk'[p].version > disk[p].version
  /\ policy = "later second" => \A s \in stamps[p] : s[1] < disk'[p].mtime

LEMMA NewStamp ==
  ASSUME TypeInv, StampsOK, policy # "any", Files, NEW p \in Paths
  PROVE  Kept(p) \/ Renewed(p)
<1>1. disk \in [Paths -> File] /\ stamps \in [Paths -> SUBSET Stamp] /\ now \in 0 .. MaxTime
  BY DEF TypeInv, TypeOK
<1>2. disk[p].version \in Nat
  BY <1>1, Consts DEF File
<1>3. ASSUME NEW q \in Paths, Replace(q), q # p PROVE disk'[p] = disk[p] /\ stamps'[p] = stamps[p]
  BY <1>1, <1>3 DEF Replace
<1>4. CASE Replace(p)
  <2>1. PICK size \in Sizes :
          /\ Allowed(p, <<now, size>>)
          /\ disk' = [disk EXCEPT ![p] = [there |-> TRUE, version |-> @.version + 1,
                                          mtime |-> now, size |-> size]]
          /\ stamps' = [stamps EXCEPT ![p] = @ \cup {<<now, size>>}]
    BY <1>4 DEF Replace
  <2>2. /\ StampOf(disk'[p]) = <<now, size>> /\ disk'[p].mtime = now
        /\ disk'[p].version = disk[p].version + 1
        /\ stamps'[p] = stamps[p] \cup {<<now, size>>}
    BY <1>1, <2>1 DEF StampOf
  <2>3. policy \in {"later second", "other stamp"}
    BY RegistryAssumption DEF TypeInv, TypeOK
  <2>4. policy = "later second" => \A s \in stamps[p] : s[1] < now
    BY <2>1 DEF Allowed
  <2>5. <<now, size>> \notin stamps[p]
    <3>1. CASE policy = "later second"
      <4>1. ~(now < now)
        BY <1>1, Consts
      <4> QED
        BY <2>4, <3>1, <4>1
    <3>2. CASE policy = "other stamp"
      BY <2>1, <3>2 DEF Allowed
    <3> QED
      BY <2>3, <3>1, <3>2
  <2>6. disk'[p].version > disk[p].version
    BY <1>2, <2>2
  <2> QED
    BY <2>2, <2>4, <2>5, <2>6 DEF Renewed
<1>5. ASSUME NEW q \in Paths, Remove(q) PROVE Kept(p)
  BY <1>1, <1>5 DEF Remove, StampOf, File, Kept
<1>6. CASE Tick
  BY <1>6 DEF Tick, Kept
<1>7. ASSUME NEW q \in Paths, Replace(q), q # p PROVE Kept(p)
  BY <1>3, <1>7 DEF Kept
<1> QED
  BY <1>4, <1>5, <1>6, <1>7 DEF Files

LEMMA FilesOK == IInv /\ Files => IInv'
<1> SUFFICES ASSUME IInv, Files PROVE IInv'
  OBVIOUS
<1>1. TypeInv' /\ UNCHANGED policy /\ UNCHANGED Served
  BY FilesTyped DEF IInv, Files, Replace, Remove, Tick, Served
<1>2. TypeInv /\ StampsOK /\ EntriesOK /\ CopiesOK /\ LoadOK /\ ReplyOK /\ policy # "any"
  BY DEF IInv
<1>3. ASSUME NEW p \in Paths
      PROVE  Kept(p) \/ Renewed(p)
  BY <1>2, NewStamp
<1>4. \A v \in Urls : /\ (Dynamic(v)' <=> Dynamic(v)) /\ Source(v)' = Source(v)
                      /\ (Tracked(v)' <=> Tracked(v)) /\ (Held(v)' <=> Held(v))
  BY <1>1 DEF Served, Dynamic, Source, Tracked, Held
<1>5. StampsOK'
  <2> SUFFICES ASSUME NEW p \in Paths
               PROVE  /\ StampOf(disk'[p]) \in stamps'[p]
                      /\ policy = "later second" =>
                           \A s \in stamps'[p] : s = StampOf(disk'[p]) \/ s[1] < disk'[p].mtime
    BY <1>1 DEF StampsOK, StampOf
  <2> QED
    BY <1>2, <1>3 DEF StampsOK, Kept, Renewed
<1>6. EntriesOK'
  <2> SUFFICES ASSUME NEW u \in Urls, Tracked(u)
               PROVE  /\ registry[u].etag \in stamps'[Source(u)]
                      /\ registry[u].etag = StampOf(disk'[Source(u)])
                           => registry[u].body.version = disk'[Source(u)].version
    BY <1>1, <1>4 DEF EntriesOK, Served, StampOf
  <2>1. Source(u) \in Paths
    BY DEF Tracked
  <2> QED
    BY <1>2, <1>3, <2>1 DEF EntriesOK, Kept, Renewed
<1>7. CopiesOK'
  <2>1. ~serving' => \A u \in Urls : ~Held(u)'
    BY <1>1, <1>2, <1>4 DEF CopiesOK, Served
  <2>2. ASSUME NEW u \in Urls, Tracked(u), Held(u)
        PROVE  /\ cache[u].etag \in stamps'[Source(u)]
               /\ cache[u].etag = StampOf(disk'[Source(u)]) => cache[u].etag = registry[u].etag
               /\ cache[u].etag = registry[u].etag
                    => /\ cache[u].version = registry[u].body.version
                       /\ cache[u].len = registry[u].body.len
    <3>1. Source(u) \in Paths
      BY <2>2 DEF Tracked
    <3> QED
      BY <1>2, <1>3, <2>2, <3>1 DEF CopiesOK, Kept, Renewed
  <2> QED
    BY <1>1, <1>4, <2>1, <2>2 DEF CopiesOK, Served, StampOf
<1>8. LoadOK'
  <2>1. job.kind \in {"add", "lookup"} => job.stamp \in stamps'[job.path]
    BY <1>2, <1>3 DEF LoadOK, TypeInv, JobOK, Kept, Renewed
  <2>2. ASSUME job.kind = "lookup"
        PROVE  /\ job.since <= disk'[job.path].version
               /\ registry[job.url].etag # StampOf(disk'[job.path])
    <3>1. job.path \in Paths /\ job.url \in Urls /\ Tracked(job.url) /\ Source(job.url) = job.path
      BY <1>2, <2>2 DEF TypeInv, JobOK, Tracked, Source
    <3>2. registry[job.url].etag \in stamps[job.path]
      BY <1>2, <3>1 DEF EntriesOK
    <3>3. registry[job.url].etag # StampOf(disk[job.path]) /\ job.since <= disk[job.path].version /\ job.since \in Nat
      BY <1>2, <2>2 DEF LoadOK
    <3>4. disk[job.path].version \in Nat /\ disk'[job.path].version \in Nat
      BY <1>1, <1>2, <3>1, Consts DEF TypeInv, TypeOK, File
    <3>5. /\ disk'[job.path].version = disk[job.path].version \/ disk'[job.path].version > disk[job.path].version
          /\ StampOf(disk'[job.path]) = StampOf(disk[job.path]) \/ StampOf(disk'[job.path]) \notin stamps[job.path]
      BY <1>3, <3>1 DEF Kept, Renewed
    <3>6. job.since <= disk'[job.path].version
      BY <3>3, <3>4, <3>5
    <3> QED
      BY <3>2, <3>3, <3>5, <3>6
  <2> QED
    BY <1>1, <1>2, <2>1, <2>2 DEF LoadOK, Held, Served, StampOf
<1>9. ReplyOK'
  BY <1>1, <1>2 DEF ReplyOK, Served
<1> QED
  BY <1>1, <1>2, <1>5, <1>6, <1>7, <1>8, <1>9 DEF IInv

(* Before the server runs only entries change: no client has a copy yet.   *)
LEMMA EntryAdded ==
  ASSUME IInv, TypeInv', ~serving, NEW u \in Urls, NEW e \in Entry, Insert(u, e),
         UNCHANGED <<policy, disk, stamps, serving, cache, reply>>, job'.kind = "idle",
         e.mode = "DYN_RESIDENT" /\ e.fs_path \in Paths =>
           e.etag \in stamps[e.fs_path] /\ e.body.version = disk[e.fs_path].version
  PROVE  IInv'
<1>1. /\ registry'[u] = e /\ \A v \in Urls : v # u => registry'[v] = registry[v]
  BY InsertOK DEF IInv, TypeInv
<1>2. EntriesOK'
  <2> SUFFICES ASSUME NEW v \in Urls, Tracked(v)'
               PROVE  /\ registry'[v].etag \in stamps[registry'[v].fs_path]
                      /\ registry'[v].etag = StampOf(disk[registry'[v].fs_path])
                           => registry'[v].body.version = disk[registry'[v].fs_path].version
    BY DEF EntriesOK, Source, StampOf
  <2>1. CASE v = u
    BY <1>1, <2>1 DEF Tracked, Dynamic, Source
  <2>2. CASE v # u
    <3>1. registry'[v] = registry[v] /\ Tracked(v)
      BY <1>1, <2>2 DEF Tracked, Dynamic, Source
    <3> QED
      BY <3>1 DEF IInv, EntriesOK, Source
  <2> QED
    BY <2>1, <2>2
<1>3. StampsOK' /\ ReplyOK' /\ LoadOK' /\ policy' # "any"
  BY DEF IInv, StampsOK, StampOf, ReplyOK, LoadOK
<1>4. CopiesOK'
  <2>1. \A v \in Urls : ~Held(v)'
    BY DEF IInv, CopiesOK, Held
  <2> QED
    BY <2>1 DEF CopiesOK
<1> QED
  BY <1>2, <1>3, <1>4 DEF IInv

LEMMA AddFileOK == \A r \in Registrations : IInv /\ AddFile(r) => IInv'
<1> SUFFICES ASSUME NEW r \in Registrations, IInv, AddFile(r) PROVE IInv'
  OBVIOUS
<1>1. r.url \in Urls /\ r.path \in Paths /\ r.mode \in Modes
  BY RegistryAssumption
<1>2. TypeInv' /\ ~serving /\ UNCHANGED <<policy, disk, stamps, now, serving, cache, reply>>
  BY AddFileTyped DEF AddFile, IInv
<1>3. CASE r.mode \in Resident
  <2>1. job'.kind = "add" /\ job'.path = r.path /\ job'.stamp = StampOf(disk[r.path])
        /\ UNCHANGED <<registry, revals>>
    BY <1>3 DEF AddFile
  <2>2. LoadOK'
    BY <1>1, <1>2, <2>1 DEF LoadOK, IInv, StampsOK
  <2>3. StampsOK' /\ EntriesOK' /\ CopiesOK' /\ ReplyOK' /\ policy' # "any"
    BY <1>2, <2>1 DEF IInv, StampsOK, EntriesOK, CopiesOK, ReplyOK, StampOf, Tracked, Dynamic, Source, Held
  <2> QED
    BY <1>2, <2>2, <2>3 DEF IInv
<1>4. CASE r.mode \notin Resident
  <2> DEFINE e == content_entry_streamed_load(r.mode, r.path, StampOf(disk[r.path]))
  <2>1. job'.kind = "idle" /\ Insert(r.url, e)
    BY <1>4 DEF AddFile, Idle
  <2>2. e.mode # "DYN_RESIDENT"
    BY <1>4 DEF content_entry_streamed_load, Resident
  <2>3. e \in Entry
    BY <1>1, StreamedEntry, DiskFacts DEF IInv, TypeInv
  <2> HIDE DEF e
  <2> QED
    BY <1>1, <1>2, <2>1, <2>2, <2>3, EntryAdded
<1> QED
  BY <1>3, <1>4

LEMMA AddLoadOK == IInv /\ AddLoad => IInv'
<1> SUFFICES ASSUME IInv, AddLoad PROVE IInv'
  OBVIOUS
<1>1. TypeInv /\ TypeInv' /\ LoadOK
  BY AddLoadTyped DEF IInv
<1>2. /\ job.kind = "add" /\ ~serving
      /\ job.url \in Urls /\ job.path \in Paths /\ job.mode \in Resident /\ job.stamp \in Stamp
      /\ job.stamp \in stamps[job.path]
  BY <1>1 DEF AddLoad, TypeInv, JobOK, LoadOK
<1>3. UNCHANGED <<policy, disk, stamps, now, serving, cache, reply>> /\ job'.kind = "idle"
  BY DEF AddLoad, Idle
<1> DEFINE e == content_entry_load(job.mode, job.path, job.stamp)
<1>4. CASE Insert(job.url, e)
  <2>1. /\ e \in Entry /\ e.etag = job.stamp
        /\ e.fs_path \in {job.path, Truncated}
        /\ e.body.version = disk[job.path].version
    BY <1>1, <1>2, LoadFacts DEF TypeInv
  <2>2. Truncated \notin Paths
    BY RegistryAssumption
  <2> HIDE DEF e
  <2> QED
    BY <1>1, <1>2, <1>3, <1>4, <2>1, <2>2, EntryAdded
<1>5. CASE UNCHANGED <<registry, revals>>
  <2>1. StampsOK' /\ EntriesOK' /\ CopiesOK' /\ ReplyOK' /\ LoadOK' /\ policy' # "any"
    BY <1>3, <1>5 DEF IInv, StampsOK, EntriesOK, CopiesOK, ReplyOK, LoadOK, StampOf, Tracked, Dynamic, Source, Held
  <2> QED
    BY <1>1, <2>1 DEF IInv
<1> QED
  BY <1>4, <1>5 DEF AddLoad

LEMMA ServerRunOK == IInv /\ server_run => IInv'
<1> SUFFICES ASSUME IInv, server_run PROVE IInv'
  OBVIOUS
<1>1. /\ ~serving /\ UNCHANGED <<policy, disk, stamps, now, registry, revals, job, cache, reply>>
      /\ TypeInv' /\ job.kind = "idle"
  BY ServerRunTyped DEF IInv, server_run, Idle
<1>2. StampsOK' /\ EntriesOK' /\ ReplyOK' /\ LoadOK' /\ policy' # "any"
  BY <1>1 DEF IInv, StampsOK, EntriesOK, ReplyOK, LoadOK, StampOf, Tracked, Dynamic, Source
<1>3. CopiesOK'
  BY <1>1 DEF IInv, CopiesOK, Held
<1> QED
  BY <1>1, <1>2, <1>3 DEF IInv

(* A lookup that answers: only the url's copy changes, to what it is given. *)
LEMMA AnsweredOK ==
  ASSUME IInv, TypeInv', NEW u \in Urls, NEW c, NEW r, NEW mode, Give(r, mode), AnswerOK(u, c, r),
         serving, UNCHANGED <<policy, disk, stamps, now, serving, registry, revals, job>>, job = Idle
  PROVE  IInv'
<1>1. TypeInv /\ StampsOK /\ EntriesOK /\ CopiesOK
  BY DEF IInv
<1>2. /\ reply' = r
      /\ \A v \in Urls : v # u => cache'[v] = cache[v]
      /\ cache'[u] = cache[u] \/ /\ r.status = "200" /\ cache'[u].etag = r.etag
                                 /\ cache'[u].version = r.body.version
                                 /\ cache'[u].len = r.body.len
  BY <1>1, GiveOK DEF AnswerOK, TypeInv
<1>3. ASSUME NEW v \in Urls, Tracked(v), Held(v)'
      PROVE  /\ cache'[v].etag \in stamps[Source(v)]
             /\ cache'[v].etag = StampOf(disk[Source(v)]) => cache'[v].etag = registry[v].etag
             /\ cache'[v].etag = registry[v].etag
                  => /\ cache'[v].version = registry[v].body.version
                     /\ cache'[v].len = registry[v].body.len
  <2>1. CASE cache'[v] = cache[v]
    BY <1>1, <1>3, <2>1 DEF CopiesOK, Held
  <2>2. CASE cache'[v] # cache[v]
    <3>1. /\ v = u /\ r.status = "200" /\ cache'[u].etag = r.etag
          /\ cache'[u].version = r.body.version /\ cache'[u].len = r.body.len
      BY <1>2, <2>2
    <3>2. r.etag = registry[u].etag /\ r.body = registry[u].body
      BY <1>3, <3>1 DEF AnswerOK, Tracked
    <3> QED
      BY <1>1, <1>3, <3>1, <3>2 DEF EntriesOK
  <2> QED
    BY <2>1, <2>2
<1>4. CopiesOK'
  BY <1>3 DEF CopiesOK, Tracked, Dynamic, Source, StampOf
<1>5. ReplyOK'
  <2>1. ASSUME r.status \in {"200", "304"} PROVE r.body.version >= r.since
    <3>1. CASE r.since = r.body.version
      <4>1. r.body.version \in Nat
        BY Consts DEF AnswerOK, Body
      <4> QED
        BY <3>1, <4>1
    <3>2. CASE /\ Tracked(u) /\ registry[u].etag = StampOf(disk[Source(u)])
               /\ r.since = disk[Source(u)].version /\ r.body = registry[u].body
      <4>1. r.body.version = r.since
        BY <1>1, <3>2 DEF EntriesOK
      <4> QED
        BY <3>1, <4>1
    <3> QED
      BY <2>1, <3>1, <3>2 DEF AnswerOK
  <2> QED
    BY <1>2, <2>1 DEF ReplyOK
<1>6. StampsOK' /\ EntriesOK' /\ LoadOK' /\ policy' # "any"
  BY DEF IInv, StampsOK, EntriesOK, LoadOK, StampOf, Tracked, Dynamic, Source, Idle
<1> QED
  BY <1>4, <1>5, <1>6 DEF IInv

(* A lookup that begins a load: the stamp in hand is the file's last, so   *)
(* it is neither the entry's nor the copy's.                               *)
LEMMA BegunOK ==
  ASSUME IInv, TypeInv', NEW u \in Urls, NEW c, Begun(u, c),
         serving, UNCHANGED <<policy, disk, stamps, now, serving, registry, revals>>
  PROVE  IInv'
<1>1. TypeInv /\ StampsOK /\ EntriesOK /\ CopiesOK
  BY DEF IInv
<1>2. /\ job'.kind = "lookup" /\ job'.url = u /\ job'.path = Source(u)
      /\ job'.stamp = StampOf(disk[Source(u)]) /\ job'.since = disk[Source(u)].version
      /\ UNCHANGED <<cache, reply>> /\ Tracked(u) /\ Source(u) \in Paths
      /\ registry[u].etag # StampOf(disk[Source(u)])
  BY DEF Begun, Tracked
<1>3. disk[Source(u)].version \in Nat /\ StampOf(disk[Source(u)]) \in stamps[Source(u)]
      /\ StampOf(disk[Source(u)])[1] = disk[Source(u)].mtime
  BY <1>1, <1>2, DiskFacts, VersionIsNat DEF TypeInv, StampsOK
<1>4. ASSUME Held(u)
      PROVE  /\ cache[u].etag # StampOf(disk[Source(u)])
             /\ policy = "later second" => cache[u].etag[1] < StampOf(disk[Source(u)])[1]
  <2>1. cache[u].etag \in stamps[Source(u)] /\ cache[u].etag # StampOf(disk[Source(u)])
    BY <1>1, <1>2, <1>4 DEF CopiesOK
  <2> QED
    BY <1>1, <1>2, <1>3, <2>1 DEF StampsOK
<1>5. LoadOK'
  <2>1. disk[Source(u)].version <= disk[Source(u)].version
    BY <1>3
  <2> QED
    BY <1>2, <1>3, <1>4, <2>1 DEF LoadOK, Held, StampOf
<1>6. StampsOK' /\ EntriesOK' /\ CopiesOK' /\ ReplyOK' /\ policy' # "any"
  BY <1>2 DEF IInv, StampsOK, EntriesOK, CopiesOK, ReplyOK, StampOf, Tracked, Dynamic, Source, Held
<1> QED
  BY <1>5, <1>6 DEF IInv

LEMMA LookupOK == \A u \in Urls, c \in Conditions : IInv /\ content_registry_lookup(u, c) => IInv'
<1> SUFFICES ASSUME NEW u \in Urls, NEW c \in Conditions, IInv, content_registry_lookup(u, c)
             PROVE  IInv'
  OBVIOUS
<1>1. TypeInv /\ TypeInv'
  BY LookupTyped DEF IInv
<1>2. /\ serving /\ job = Idle
      /\ UNCHANGED <<policy, disk, stamps, now, serving, registry, revals>>
      /\ \/ UNCHANGED job /\ \E r, mode : Give(r, mode) /\ AnswerOK(u, c, r)
         \/ Begun(u, c)
  BY <1>1, LookupCases
<1> QED
  BY <1>1, <1>2, AnsweredOK, BegunOK

(* The new entry has the stamp stat saw and the version fread found: the   *)
(* version of the file now, which is no older than the request.            *)
LEMMA LoadedOK ==
  ASSUME IInv, TypeInv', NEW u \in Urls, u = job.url, job.kind = "lookup", job'.kind = "idle",
         UNCHANGED <<policy, disk, stamps, now, serving>>, Insert(u, Fresh),
         NEW r, NEW mode, Give(r, mode), r.url = u, r.status \in {"200", "304"},
         r.since = job.since, r.etag = Fresh.etag, r.body = Fresh.body
  PROVE  IInv'
<1>1. /\ TypeInv /\ StampsOK /\ EntriesOK /\ CopiesOK /\ LoadOK
      /\ serving /\ job.path \in Paths /\ job.stamp \in Stamp
      /\ Tracked(u) /\ Source(u) = job.path
  BY DEF IInv, TypeInv, JobOK, Tracked, Source
<1>2. /\ Fresh \in Entry /\ Fresh.etag = job.stamp /\ Fresh.fs_path \in {job.path, Truncated}
      /\ Fresh.body.version = disk[job.path].version
  BY <1>1, LoadFacts DEF Fresh, TypeInv, Resident
<1>3. registry'[u] = Fresh /\ \A v \in Urls : v # u => registry'[v] = registry[v]
  BY <1>1, <1>2, InsertOK DEF TypeInv
<1>4. /\ reply' = r
      /\ \A v \in Urls : v # u => cache'[v] = cache[v]
      /\ cache'[u] = cache[u] \/ /\ cache'[u].etag = r.etag
                                 /\ cache'[u].version = r.body.version
                                 /\ cache'[u].len = r.body.len
  <2>1. r.status \in Statuses /\ r.etag \in Stamp /\ r.body \in Body
    BY <1>2 DEF Statuses, Entry
  <2> QED
    BY <1>1, <2>1, GiveOK DEF TypeInv
<1>5. /\ job.stamp \in stamps[job.path] /\ job.since <= disk[job.path].version
      /\ registry[u].etag # StampOf(disk[job.path])
      /\ Held(u) => cache[u].etag # job.stamp
      /\ job.since \in Nat
  BY <1>1 DEF LoadOK
<1>6. ASSUME NEW v \in Urls, v # u
      PROVE  /\ registry'[v] = registry[v] /\ cache'[v] = cache[v]
             /\ (Tracked(v)' <=> Tracked(v)) /\ Source(v)' = Source(v) /\ (Held(v)' <=> Held(v))
  BY <1>3, <1>4, <1>6 DEF Tracked, Dynamic, Source, Held
<1>7. Tracked(u)' => Source(u)' = job.path
  BY <1>2, <1>3, RegistryAssumption DEF Tracked, Source
<1>8. EntriesOK'
  <2>1. ASSUME NEW v \in Urls, Tracked(v)'
        PROVE  /\ registry'[v].etag \in stamps[Source(v)']
               /\ registry'[v].etag = StampOf(disk[Source(v)'])
                    => registry'[v].body.version = disk[Source(v)'].version
    <3>1. CASE v = u
      BY <1>2, <1>3, <1>5, <1>7, <2>1, <3>1
    <3>2. CASE v # u
      BY <1>1, <1>6, <2>1, <3>2 DEF EntriesOK
    <3> QED
      BY <3>1, <3>2
  <2> QED
    BY <2>1 DEF EntriesOK, StampOf
<1>9. CopiesOK'
  <2>1. ASSUME NEW v \in Urls, Tracked(v)', Held(v)'
        PROVE  /\ cache'[v].etag \in stamps[Source(v)']
               /\ cache'[v].etag = StampOf(disk[Source(v)']) => cache'[v].etag = registry'[v].etag
               /\ cache'[v].etag = registry'[v].etag
                    => /\ cache'[v].version = registry'[v].body.version
                       /\ cache'[v].len = registry'[v].body.len
    <3>1. CASE v = u /\ cache'[u] = cache[u]
      <4>1. /\ Held(u) /\ Source(u)' = job.path /\ registry'[u].etag = job.stamp
        BY <1>2, <1>3, <1>7, <2>1, <3>1 DEF Held
      <4>2. /\ cache[u].etag \in stamps[job.path]
            /\ cache[u].etag = StampOf(disk[job.path]) => cache[u].etag = registry[u].etag
        BY <1>1, <4>1 DEF CopiesOK
      <4> QED
        BY <1>5, <3>1, <4>1, <4>2
    <3>2. CASE v = u /\ cache'[u] # cache[u]
      BY <1>2, <1>3, <1>4, <1>5, <1>7, <2>1, <3>2
    <3>3. CASE v # u
      BY <1>1, <1>6, <2>1, <3>3 DEF CopiesOK
    <3> QED
      BY <3>1, <3>2, <3>3
  <2> QED
    BY <1>1, <2>1 DEF CopiesOK, StampOf
<1>10. ReplyOK'
  <2>1. r.body.version >= r.since
    <3>1. disk[job.path].version \in Nat
      BY <1>1, VersionIsNat DEF TypeInv
    <3> QED
      BY <1>2, <1>5, <3>1
  <2> QED
    BY <1>4, <2>1 DEF ReplyOK
<1>11. StampsOK' /\ LoadOK' /\ policy' # "any"
  BY DEF IInv, StampsOK, LoadOK, StampOf
<1> QED
  BY <1>8, <1>9, <1>10, <1>11 DEF IInv

LEMMA LookupLoadOK == IInv /\ LookupLoad => IInv'
<1> SUFFICES ASSUME IInv, LookupLoad PROVE IInv'
  OBVIOUS
<1>1. TypeInv /\ TypeInv' /\ job.url \in Urls
  BY LookupLoadTyped DEF IInv, LookupLoad, TypeInv, JobOK
<1>2. /\ job.kind = "lookup" /\ job'.kind = "idle"
      /\ UNCHANGED <<policy, disk, stamps, now, serving>>
  BY <1>1, LoadCases
<1>3. CASE /\ UNCHANGED <<registry, revals>>
           /\ Give(Status("404", job.url), "DYN_RESIDENT")
  <2>1. reply'.status = "404" /\ UNCHANGED cache
    <3>1. /\ Status("404", job.url).status = "404" /\ Status("404", job.url).url = job.url
          /\ Status("404", job.url).etag \in Stamp /\ Status("404", job.url).body \in Body
          /\ "404" \in Statuses
      BY StatusIs DEF Statuses
    <3> QED
      BY <1>1, <1>3, <3>1, GiveOK DEF TypeInv
  <2>2. ReplyOK' /\ LoadOK'
    BY <1>2, <2>1 DEF ReplyOK, LoadOK
  <2>3. StampsOK' /\ EntriesOK' /\ CopiesOK' /\ policy' # "any"
    BY <1>2, <1>3, <2>1 DEF IInv, StampsOK, EntriesOK, CopiesOK, StampOf, Tracked, Dynamic, Source, Held
  <2> QED
    BY <1>1, <2>2, <2>3 DEF IInv
<1>4. CASE Insert(job.url, Fresh)
           /\ \E r, mode : /\ Give(r, mode) /\ r.url = job.url /\ r.status \in {"200", "304"}
                           /\ r.since = job.since /\ r.etag = Fresh.etag /\ r.body = Fresh.body
  <2>1. PICK u \in Urls : u = job.url
    BY <1>1
  <2>2. PICK r, mode : /\ Give(r, mode) /\ r.url = u /\ r.status \in {"200", "304"}
                       /\ r.since = job.since /\ r.etag = Fresh.etag /\ r.body = Fresh.body
    BY <1>4, <2>1
  <2>3. Insert(u, Fresh)
    BY <1>4, <2>1
  <2> QED
    BY <1>1, <1>2, <2>1, <2>2, <2>3, LoadedOK
<1> QED
  BY <1>1, <1>3, <1>4, LoadCases

LEMMA InitOK == Init /\ policy # "any" => IInv
<1> SUFFICES ASSUME Init, policy # "any" PROVE IInv
  OBVIOUS
<1>1. TypeInv
  BY InitTyped
<1>2. PICK sizes \in [Paths -> Sizes] :
        /\ disk = [p \in Paths |-> [there |-> TRUE, version |-> 1, mtime |-> 0, size |-> sizes[p]]]
        /\ stamps = [p \in Paths |-> {<<0, sizes[p]>>}]
  BY DEF Init
<1>3. StampsOK
  BY <1>2 DEF StampsOK, StampOf
<1>4. \A u \in Urls : ~Held(u) /\ ~Tracked(u)
  BY DEF Init, Held, Tracked, Dynamic, NoEntry
<1>5. LoadOK /\ ReplyOK
  BY DEF Init, LoadOK, ReplyOK, Idle, NoReply
<1> QED
  BY <1>1, <1>3, <1>4, <1>5 DEF IInv, EntriesOK, CopiesOK

LEMMA NextOK == IInv /\ [Next]_vars => IInv'
<1>1. ASSUME IInv, UNCHANGED vars PROVE IInv'
  <2>1. TypeInv'
    BY <1>1, TypeKept DEF IInv
  <2> QED
    BY <1>1, <2>1 DEF IInv, StampsOK, EntriesOK, CopiesOK, LoadOK, ReplyOK, StampOf, Tracked, Dynamic,
       Source, Held, vars
<1> QED
  BY <1>1, FilesOK, AddFileOK, AddLoadOK, ServerRunOK, LookupOK, LookupLoadOK DEF Next, Setup, Serve

(* The inductive invariant, for every way files may be replaced that gives *)
(* each version a stamp of its own.                                        *)
THEOREM Invariance == Spec /\ policy # "any" => []IInv
  BY InitOK, NextOK, PTL DEF Spec

(* Every answer is as new as the request: a dynamic resident entry that    *)
(* content_registry_lookup finds unchanged holds the version the file has, *)
(* and one it loads holds a version that was there after the stat.         *)
THEOREM NeverStale == Spec /\ policy # "any" => []NoStaleAnswer
<1>1. IInv => NoStaleAnswer
  BY DEF IInv, ReplyOK, NoStaleAnswer
<1> QED
  BY Invariance, <1>1, PTL

-----------------------------------------------------------------------------
(* Validators *)

LEMMA NoOlder == \A x \in Nat : x >= x
  OBVIOUS

(* Only lookups answer. *)
LEMMA OnlyLookupsReply ==
  ASSUME [Next]_vars, reply' # reply
  PROVE  \/ \E u \in Urls, c \in Conditions : content_registry_lookup(u, c)
         \/ LookupLoad
<1>1. ~UNCHANGED vars
  BY DEF vars
<1>2. ~Files /\ ~AddLoad /\ ~server_run /\ \A r \in Registrations : ~AddFile(r)
  BY DEF Files, Replace, Remove, Tick, AddLoad, server_run, AddFile
<1> QED
  BY <1>1, <1>2 DEF Next, Setup, Serve

(* An answer from an entry with the present stamp of its file.             *)
PresentAnswer(u, c) ==
  /\ Tracked(u) /\ registry[u].etag = StampOf(disk[Source(u)])
  /\ reply'.since = disk[Source(u)].version
  /\ reply'.etag = registry[u].etag /\ reply'.body = registry[u].body
  /\ reply'.cond = c
  /\ reply'.status = "304" => request_validators_match(c, cache[u], registry[u])

(* An answer from an entry that has just been loaded. *)
LoadedAnswer(u) ==
  /\ job.kind = "lookup" /\ job.url = u
  /\ reply'.etag = job.stamp /\ reply'.cond = job.cond
  /\ reply'.status = "304" => request_validators_match(reply'.cond, cache[u], Fresh)
  /\ Fresh.etag = job.stamp

(* What a new answer with a body or a 304 comes from. *)
LEMMA Sources ==
  ASSUME IInv, [Next]_vars, reply' # reply, reply'.status \in {"200", "304"},
         NEW u \in Urls, reply'.url = u
  PROVE  \/ reply'.status = "200" /\ ~Dynamic(u)
         \/ \E c \in Conditions : PresentAnswer(u, c)
         \/ LoadedAnswer(u)
<1>1. TypeInv
  BY DEF IInv
<1>2. ASSUME NEW v \in Urls, NEW c \in Conditions, content_registry_lookup(v, c)
      PROVE  v = u /\ ((reply'.status = "200" /\ ~Dynamic(u)) \/ PresentAnswer(u, c))
  <2>1. ~Begun(v, c)
    BY DEF Begun
  <2>2. PICK r, mode : Give(r, mode) /\ AnswerOK(v, c, r)
    BY <1>1, <1>2, <2>1, LookupCases
  <2>3. reply' = r
    BY <2>2 DEF Give
  <2>4. r.url = v
    BY <2>2 DEF AnswerOK
  <2> QED
    BY <2>2, <2>3, <2>4 DEF AnswerOK, PresentAnswer
<1>3. CASE LookupLoad
  <2>1. job.kind = "lookup" /\ job.url \in Urls /\ job.path \in Paths /\ job.stamp \in Stamp
    BY <1>1, <1>3 DEF LookupLoad, TypeInv, JobOK
  <2>2. Fresh.etag = job.stamp
    BY <1>1, <2>1, LoadFacts DEF Fresh, TypeInv, Resident
  <2>3. CASE Give(Status("404", job.url), "DYN_RESIDENT")
    <3>1. reply'.status = "404"
      BY <2>3 DEF Give, Status, NoReply
    <3> QED
      BY <3>1
  <2>4. CASE \E r, mode : /\ Give(r, mode)
                          /\ r.url = job.url /\ r.cond = job.cond /\ r.etag = Fresh.etag
                          /\ r.status = "304" => request_validators_match(job.cond, cache[job.url], Fresh)
    <3>1. /\ reply'.url = job.url /\ reply'.cond = job.cond /\ reply'.etag = Fresh.etag
          /\ reply'.status = "304" => request_validators_match(job.cond, cache[job.url], Fresh)
      BY <2>4 DEF Give
    <3> QED
      BY <2>1, <2>2, <3>1 DEF LoadedAnswer
  <2> QED
    BY <1>1, <1>3, <2>3, <2>4, LoadCases
<1> QED
  BY <1>2, <1>3, OnlyLookupsReply

(* A 304 tells a client that its copy is the file's present version, or a  *)
(* later one than when the request was looked at, as long as the validator *)
(* that decides (the tag if there is one, else the date) can tell versions *)
(* apart.                                                                  *)
THEOREM NotModifiedCurrent == Spec /\ policy # "any" => NotModifiedIsCurrent
<1>1. IInv /\ [Next]_vars =>
        [ \A u \in Urls :
            /\ reply' # reply /\ reply'.status = "304" /\ reply'.url = u
            /\ cache[u] # NoCopy /\ reply'.cond # "star"
            /\ policy = "later second" \/ reply'.cond # "date"
            => cache[u].version >= reply'.since ]_vars
  <2> SUFFICES ASSUME IInv, [Next]_vars, NEW u \in Urls,
                      reply' # reply, reply'.status = "304", reply'.url = u,
                      Held(u), reply'.cond # "star",
                      policy = "later second" \/ reply'.cond # "date"
               PROVE  cache[u].version >= reply'.since
    BY DEF Held
  <2>1. TypeInv /\ StampsOK /\ EntriesOK /\ CopiesOK /\ LoadOK /\ JobOK
    BY DEF IInv, TypeInv
  <2>2. ASSUME NEW c \in Conditions, PresentAnswer(u, c) PROVE cache[u].version >= reply'.since
    <3> DEFINE f == disk[Source(u)]
    <3>1. Tracked(u) /\ Source(u) \in Paths /\ registry[u].etag = StampOf(f)
      BY <2>2 DEF PresentAnswer, Tracked
    <3>2. cache[u].etag \in stamps[Source(u)]
      BY <2>1, <3>1 DEF CopiesOK
    <3>3. request_validators_match(c, cache[u], registry[u]) /\ c = reply'.cond
      BY <2>2 DEF PresentAnswer
    <3>4. c \in {"etag", "date", "etag and date"}
      BY <3>3 DEF request_validators_match
    <3>5. cache[u].etag = registry[u].etag
      <4>1. CASE c \in {"etag", "etag and date"}
        BY <3>3, <4>1 DEF request_validators_match
      <4>2. CASE c = "date"
        <5>1. registry[u].etag[1] <= cache[u].etag[1] /\ policy = "later second"
          BY <3>3, <4>2 DEF request_validators_match
        <5>2. registry[u].etag[1] = f.mtime /\ f.mtime \in 0 .. MaxTime
          BY <2>1, <3>1, DiskFacts DEF TypeInv
        <5>3. cache[u].etag = StampOf(f) \/ cache[u].etag[1] < f.mtime
          BY <2>1, <3>1, <3>2, <5>1 DEF StampsOK
        <5>4. cache[u].etag[1] \in 0 .. MaxTime
          BY <2>1 DEF TypeInv, TypeOK, Stamp
        <5>5. ~(cache[u].etag[1] < f.mtime)
          BY <5>1, <5>2, <5>4, Seconds
        <5> QED
          BY <3>1, <5>3, <5>5
      <4> QED
        BY <3>4, <4>1, <4>2
    <3>6. cache[u].version = registry[u].body.version /\ registry[u].body.version = f.version
      BY <2>1, <3>1, <3>5 DEF CopiesOK, EntriesOK
    <3>7. reply'.since = f.version /\ f.version \in Nat
      BY <2>1, <2>2, <3>1, VersionIsNat DEF PresentAnswer, TypeInv
    <3>8. cache[u].version = reply'.since /\ reply'.since \in Nat
      BY <3>6, <3>7, Zenon
    <3> QED
      BY <3>8, NoOlder, Zenon
  <2>3. CASE LoadedAnswer(u)
    <3>1. /\ cache[u].etag # job.stamp
          /\ policy = "later second" => cache[u].etag[1] < job.stamp[1]
      BY <2>1, <2>3 DEF LoadOK, LoadedAnswer
    <3>2. request_validators_match(reply'.cond, cache[u], Fresh) /\ Fresh.etag = job.stamp
      BY <2>3 DEF LoadedAnswer
    <3>3. reply'.cond = "date" /\ Fresh.etag[1] <= cache[u].etag[1]
      BY <3>1, <3>2 DEF request_validators_match
    <3>4. cache[u].etag[1] \in 0 .. MaxTime /\ job.stamp[1] \in 0 .. MaxTime
      BY <2>1, <2>3 DEF LoadedAnswer, JobOK, TypeInv, TypeOK, Stamp
    <3> QED
      BY <3>1, <3>2, <3>3, <3>4, Seconds
  <2> QED
    BY <2>2, <2>3, Sources
<1> QED
  BY Invariance, <1>1, PTL DEF Spec, NotModifiedIsCurrent

(* One tag names one body: no client gets a second body with the tag of    *)
(* the copy it holds, although the tag is made from a stat and the body is *)
(* read later.                                                             *)
THEOREM TagNamesBody == Spec /\ policy # "any" => EtagNamesBody
<1>1. IInv /\ [Next]_vars =>
        [ \A u \in Urls :
            /\ reply' # reply /\ reply'.status = "200" /\ reply'.url = u
            /\ Dynamic(u)
            /\ cache[u] # NoCopy /\ reply'.etag = cache[u].etag
            => reply'.body.version = cache[u].version /\ reply'.body.len = cache[u].len ]_vars
  <2> SUFFICES ASSUME IInv, [Next]_vars, NEW u \in Urls,
                      reply' # reply, reply'.status = "200", reply'.url = u,
                      Dynamic(u), Held(u), reply'.etag = cache[u].etag
               PROVE  reply'.body.version = cache[u].version /\ reply'.body.len = cache[u].len
    BY DEF Held
  <2>1. CopiesOK /\ LoadOK
    BY DEF IInv
  <2>2. ASSUME NEW c \in Conditions, PresentAnswer(u, c)
        PROVE  reply'.body.version = cache[u].version /\ reply'.body.len = cache[u].len
    BY <2>1, <2>2 DEF PresentAnswer, CopiesOK
  <2>3. ~LoadedAnswer(u)
    BY <2>1 DEF LoadOK, LoadedAnswer
  <2> QED
    BY <2>2, <2>3, Sources
<1> QED
  BY Invariance, <1>1, PTL DEF Spec, EtagNamesBody
=============================================================================
