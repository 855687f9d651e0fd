------------------------------- MODULE Server -------------------------------
(***************************************************************************)
(* The life cycle of the server around the forwarder (Net::run in          *)
(* src/net/mod.rs): start, load of the persistent cache file, serving,     *)
(* graceful shutdown with a save, crashes at any point, restart.           *)
(*                                                                         *)
(* The file is written by a plain fs::write, so a crash or a failed write  *)
(* may leave it torn; a torn file is not valid JSON and does not load.     *)
(* now is the wall clock too: the file's mtime is compared with it.        *)
(***************************************************************************)
EXTENDS Forwarder

CONSTANTS
  MinLoadSize,   \* least size of a loaded cache (100 in the code)
  LoadedStale,   \* serve-stale window of a loaded cache (30 s in the code)
  MaxAge,        \* persistent_max_age_days
  InitialFiles,  \* what may lie at the path when the server first starts
  Absent, Torn,  \* no file; a file cut short
  ProxyTcp,      \* [proxy].enable: TCP is served by the server's own listener
  MaxRestarts    \* bound: how often the process is started

\* One line of a snapshot file, and what a file holds that parses: a line for
\* each of finitely many keys.
SnapshotLine == [response_bytes : Bytes, ttl : TTLs, hit_count : Nat]
IsSnapshot(c) ==
  /\ DOMAIN c \subseteq Keys /\ IsFiniteSet(DOMAIN c)
  /\ c \in [DOMAIN c -> SnapshotLine]

ASSUME LoadAssumption == MinLoadSize \in Nat \ {0} /\ LoadedStale \in Nat
ASSUME RestartsAssumption == MaxRestarts \in Nat
ASSUME InitialFilesAssumption ==
  \A f \in InitialFiles :
    \/ f = Absent
    \/ /\ DOMAIN f = {"content", "mtime"}
       /\ f.mtime \in Int /\ f.mtime <= 0
       /\ IsSnapshot(f.content)
       /\ \A k \in DOMAIN f.content :
            LET bytes == f.content[k].response_bytes
            IN bytes = Garbled \/ bytes.key = k

VARIABLES
  life,      \* down, running, stopping, writing or stopped
  file,      \* the persistent cache file
  saved,     \* history: the entries as they were when the file was written
  restarts   \* how often the process was started

serverVars == <<forwardVars, life, file, saved, restarts>>

\* One line of the snapshot: what save_to_file writes of an entry.
SavedFields(e) ==
  [response_bytes |-> e.response_bytes, ttl |-> e.original_ttl,
   hit_count |-> e.hit_count]

-----------------------------------------------------------------------------
(* Starting.                                                               *)

\* load_persistent_cache returns a cache: the file is there, no older than the
\* limit, and parses.
Loadable ==
  /\ file # Absent
  /\ now - file.mtime <= MaxAge
  /\ file.content # Torn

\* The entry load_from_file makes of a snapshot line.
LoadedEntry(line) ==
  [response_bytes |-> line.response_bytes, inserted_at |-> now,
   original_ttl |-> line.ttl, hit_count |-> line.hit_count, last_access |-> now]

\* Mutant: the loaded cache is made exactly as large as the snapshot.
LoadCache_ExactSize ==
  LET snap == file.content
      n == Cardinality(DOMAIN snap)
  IN /\ config' = [size |-> n, serve_stale |-> LoadedStale, prefetch |-> 0]
     /\ entries' = [k \in DOMAIN snap |-> LoadedEntry(snap[k])]
     /\ access_order' \in {s \in [1 .. n -> DOMAIN snap] : Distinct(s)}

\* Mutant: the snapshot goes to the map without passing through insert.
LoadCache_MapOnly ==
  LET snap == file.content
  IN /\ config' = [size |-> MinLoadSize, serve_stale |-> LoadedStale, prefetch |-> 0]
     /\ entries' = [k \in DOMAIN snap |-> LoadedEntry(snap[k])]
     /\ access_order' = << >>

\* The cache load_from_file builds replaces the configured one, limits
\* included.  The snapshot comes in the order of a hash map's iteration.
LoadCache ==
  LET snap == file.content
      n == Cardinality(DOMAIN snap)
  IN /\ config' = [size |-> IF n > MinLoadSize THEN n ELSE MinLoadSize,
                   serve_stale |-> LoadedStale, prefetch |-> 0]
     /\ entries' = [k \in DOMAIN snap |-> LoadedEntry(snap[k])]
     /\ access_order' \in {s \in [1 .. n -> DOMAIN snap] : Distinct(s)}

\* Cache::new with the operator's configuration.
FreshCache ==
  /\ config' = Config
  /\ entries' = << >>
  /\ access_order' = << >>

\* The process starts: every counter is new, and so is the cache unless the file
\* loads.
Start ==
  /\ life = "down"
  /\ restarts < MaxRestarts
  /\ life' = "running"
  /\ restarts' = restarts + 1
  /\ \/ Loadable /\ LoadCache
     \/ ~Loadable /\ FreshCache
  /\ hits' = 0 /\ misses' = 0 /\ hits_total' = 0 /\ misses_total' = 0
  /\ UNCHANGED <<now, taskVars, prefetchVars, file, saved>>

-----------------------------------------------------------------------------
(* Stopping.                                                               *)

\* The requests of T that are under way are gone; their clients get nothing.
DropRequests(T) ==
  /\ pc' = [t \in Tasks |->
              IF t \in T /\ pc[t] \in UnderWay THEN "done" ELSE pc[t]]
  /\ UNCHANGED <<asked, qkey, raw, work, reply>>

\* Ctrl-C: the library's listeners stop.  The server's own TCP listener, its
\* connections and the prefetch tasks hear nothing of it and run on.
Shutdown ==
  /\ life = "running"
  /\ life' = "stopping"
  /\ \E T \in SUBSET Tasks :
       /\ ProxyTcp \/ T = Tasks
       /\ DropRequests(T)
  /\ UNCHANGED <<vars, prefetchVars, file, saved, restarts>>

\* Mutant: the file is written entry by entry in a format that parses at every
\* point.
SaveBegin_LineByLine ==
  /\ life = "stopping"
  /\ life' = "writing"
  /\ saved' = entries
  /\ \E k \in DOMAIN entries :
       file' = [content |-> [x \in {k} |-> SavedFields(entries[x])], mtime |-> now]
  /\ UNCHANGED <<forwardVars, restarts>>

\* save_persistent_cache takes the snapshot and truncates the file.
SaveBegin ==
  /\ life = "stopping"
  /\ life' = "writing"
  /\ saved' = entries
  /\ file' = [content |-> Torn, mtime |-> now]
  /\ UNCHANGED <<forwardVars, restarts>>

\* The write completes with the snapshot that was taken.
SaveEnd ==
  /\ life = "writing"
  /\ life' = "stopped"
  /\ file' = [content |-> [k \in DOMAIN saved |-> SavedFields(saved[k])],
              mtime |-> now]
  /\ UNCHANGED <<forwardVars, saved, restarts>>

\* The directory or the file cannot be created, or the disk is full half way;
\* the error is logged.  Also a shutdown with no path configured.
SaveFail ==
  /\ life \in {"stopping", "writing"}
  /\ life' = "stopped"
  /\ UNCHANGED <<forwardVars, file, saved, restarts>>

\* The process ends, after a shutdown or by a crash at any point.
Exit ==
  /\ life # "down"
  /\ life' = "down"
  /\ DropRequests(Tasks)
  /\ pf' = [t \in Tasks |-> IF pf[t] \in {"fetch", "store"} THEN "failed" ELSE pf[t]]
  /\ UNCHANGED <<vars, pfwork, file, saved, restarts>>

-----------------------------------------------------------------------------
(* Serving.                                                                *)

\* Where a request waits for the resolver, and so needs no lock to go on.
AtResolver == {"upstream", "dns64", "flatten_a", "flatten_aaaa", "any_upstream"}

\* Requests are served while the listeners run, and over the server's own TCP
\* listener until the process ends; nothing takes the cache's write lock while
\* the save holds its read lock.
Serve ==
  /\ life = "running" \/ (ProxyTcp /\ life # "down")
  /\ \E t \in Tasks :
       /\ Arrive(t) \/ Proceed(t)
       /\ life = "writing" => pc[t] \in AtResolver
  /\ UNCHANGED <<life, file, saved, restarts>>

\* Prefetch tasks outlive the listeners, under the same lock.
ServePrefetch ==
  /\ life # "down"
  /\ \E t \in Tasks : Prefetch(t) /\ (life = "writing" => pf[t] = "fetch")
  /\ UNCHANGED <<life, file, saved, restarts>>

TimePasses == ForwardTick /\ UNCHANGED <<life, file, saved, restarts>>

ServerInit ==
  /\ ForwardInit
  /\ life = "down"
  /\ restarts = 0
  /\ file \in InitialFiles
  /\ saved = IF file = Absent THEN << >>
             ELSE [k \in DOMAIN file.content |-> LoadedEntry(file.content[k])]

ServerNext ==
  \/ Start \/ Shutdown \/ SaveBegin \/ SaveEnd \/ SaveFail \/ Exit
  \/ Serve \/ ServePrefetch \/ TimePasses

ServerSpec == ServerInit /\ [][ServerNext]_serverVars

-----------------------------------------------------------------------------
(* Properties.                                                             *)

\* Type invariant of the life cycle, on top of the forwarder's; every entry,
\* loaded ones included, is well typed.
ServerTypeOK ==
  /\ ForwardTypeOK
  /\ life \in {"down", "running", "stopping", "writing", "stopped"}
  /\ file = Absent \/ (DOMAIN file = {"content", "mtime"} /\ file.mtime <= now)
  /\ restarts \in 0 .. MaxRestarts

\* A loaded cache is as sound as a new one, whatever order its entries were read
\* in: map and eviction order agree and its own limit holds, then and while
\* further requests and prefetches use it.
LoadedCacheSound == OrderMatchesEntries /\ WithinCapacity

\* A start brings back all of the last snapshot or nothing, wherever a crash, a
\* failed write or an earlier shutdown hit: never part of it, never an entry
\* that was not in it.
LoadsAllOrNothing ==
  [][(life = "down" /\ life' = "running") =>
       \/ DOMAIN entries' = {}
       \/ /\ DOMAIN entries' = DOMAIN saved
          /\ \A k \in DOMAIN saved :
               SavedFields(entries'[k]) = SavedFields(saved[k])]_serverVars
=============================================================================
