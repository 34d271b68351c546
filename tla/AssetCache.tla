----------------------------- MODULE AssetCache -----------------------------
(***************************************************************************)
(* The disk cache of fetched images (internal/storage/assetcache): one     *)
(* leader per key looks the image up, fetches and stores it, and evicts    *)
(* what exceeds the byte budget; other requests for the key wait for it.   *)
(* Files and rows are written apart, and leaders of different keys         *)
(* interleave.                                                             *)
(*                                                                         *)
(* The only right content of key k is k itself; a damaged file is Junk.    *)
(* The rows are kept in the order of last_access_at, oldest first; that    *)
(* the column is text, whose order within a second need not be that of     *)
(* time, only decides which row is the oldest.                             *)
(***************************************************************************)
EXTENDS Naturals, Sequences

CONSTANTS Keys, SizeOf, Budget, Junk, Nothing, MaxFailures, MaxAsked

ASSUME CacheAssumption == SizeOf \in [Keys -> Nat] /\ Budget \in Nat /\ Nothing \notin Keys

VARIABLES
    files,    \* the content of each key's file, or Nothing
    rows,     \* the keys in asset_cache
    flight,   \* the leader of each key
    waiting,  \* keys some other request waits for
    served,   \* history: <<key, content>> of every answer
    asked,
    failures      \* cancelled requests, damaged files and crashes so far

cacheVars == <<files, rows, flight, waiting, served, asked, failures>>

Grounded == [at |-> "none", result |-> Nothing, victim |-> Nothing]

\* Sums(s)[n] is what the first n rows of s take.
Sums(s) ==
    LET sum[n \in 0..Len(s)] == IF n = 0 THEN 0 ELSE sum[n - 1] + SizeOf[s[n]]
    IN  sum
Bytes == Sums(rows)[Len(rows)]

HasRow(k) == \E i \in DOMAIN rows : rows[i] = k
Deleted(k) ==
    IF HasRow(k)
    THEN LET p == CHOOSE i \in DOMAIN rows : rows[i] = k
         IN  SubSeq(rows, 1, p - 1) \o SubSeq(rows, p + 1, Len(rows))
    ELSE rows
Touched(k) == Append(Deleted(k), k)

CacheInit ==
    /\ files = [k \in Keys |-> Nothing] /\ rows = <<>>
    /\ flight = [k \in Keys |-> Grounded] /\ waiting = {}
    /\ served = {} /\ asked = 0 /\ failures = 0

At(k, label) == flight[k].at = label
Go(k, label) == flight' = [flight EXCEPT ![k].at = label]
Disk == UNCHANGED <<files, rows>>
Rest == UNCHANGED <<waiting, served, asked, failures>>

\* GetOrFetch: the first request for a key leads, the others wait for its result.
Ask(k) ==
    /\ asked < MaxAsked /\ asked' = asked + 1
    /\ IF At(k, "none") THEN Go(k, "row") /\ waiting' = waiting
                        ELSE waiting' = waiting \cup {k} /\ flight' = flight
    /\ Disk /\ UNCHANGED <<served, failures>>

\* get: the row, then the file.
LookUpRow(k) ==
    /\ At(k, "row")
    /\ Go(k, IF HasRow(k) THEN "file" ELSE "fetch")
    /\ Disk /\ Rest

\* The mutant takes any file for the body.
IntactUnchecked(k) == files[k] # Nothing

\* The length and the digest stored in front of the body both match.
Intact(k) == files[k] = k

ReadFile(k) ==
    /\ At(k, "file")
    /\ \/ /\ Intact(k)
          /\ flight' = [flight EXCEPT ![k].at = "done", ![k].result = files[k]]
          /\ rows' = IF HasRow(k) THEN Touched(k) ELSE rows
       \/ /\ ~Intact(k)
          /\ flight' = [flight EXCEPT ![k].at = "unlink", ![k].victim = k]
          /\ rows' = rows
    /\ files' = files /\ Rest

\* remove, of the key's own damaged entry or of an evicted one: the file, then the row.
Unlink(k) ==
    /\ At(k, "unlink")
    /\ files' = [files EXCEPT ![flight[k].victim] = Nothing]
    /\ Go(k, "delete")
    /\ rows' = rows /\ Rest

DeleteRow(k) ==
    /\ At(k, "delete")
    /\ rows' = Deleted(flight[k].victim)
    /\ Go(k, IF flight[k].result = Nothing THEN "fetch" ELSE "evict")
    /\ files' = files /\ Rest

\* A body larger than the whole budget is answered and not stored.
Fetch(k) ==
    /\ At(k, "fetch")
    /\ flight' = [flight EXCEPT ![k].result = k,
                                ![k].at = IF SizeOf[k] > Budget THEN "done" ELSE "rename"]
    /\ Disk /\ Rest

\* put: the complete file is renamed into place, then the row is written.
Rename(k) ==
    /\ At(k, "rename")
    /\ files' = [files EXCEPT ![k] = k]
    /\ Go(k, "insert")
    /\ rows' = rows /\ Rest

InsertRow(k) ==
    /\ At(k, "insert")
    /\ rows' = Touched(k)
    /\ Go(k, "evict")
    /\ files' = files /\ Rest

\* The mutant decides by the total before the insertion.
EvictByOldTotal(k) ==
    /\ At(k, "evict")
    /\ Go(k, IF Bytes - SizeOf[k] <= Budget THEN "done" ELSE "pick")
    /\ Disk /\ Rest

\* evict: while the rows exceed the budget, the least recently used one goes.
Evict(k) ==
    /\ At(k, "evict")
    /\ Go(k, IF Bytes <= Budget THEN "done" ELSE "pick")
    /\ Disk /\ Rest

\* Other leaders may have removed rows since the total was taken, even all of them: then
\* there is none to pick, and that is an error.
PickVictim(k) ==
    /\ At(k, "pick")
    /\ \/ /\ rows # << >>
          /\ flight' = [flight EXCEPT ![k].at = "unlink", ![k].victim = Head(rows)]
          /\ waiting' = waiting
       \/ /\ rows = << >>
          /\ flight' = [flight EXCEPT ![k] = Grounded]
          /\ waiting' = waiting \ {k}
    /\ Disk /\ UNCHANGED <<served, asked, failures>>

\* The leader answers its own request and everyone who waits.
Land(k) ==
    /\ At(k, "done")
    /\ served' = served \cup {<<k, flight[k].result>>}
    /\ flight' = [flight EXCEPT ![k] = Grounded]
    /\ waiting' = waiting \ {k}
    /\ Disk /\ UNCHANGED <<asked, failures>>

\* The leader's request is cancelled, or a statement fails: its next call returns an
\* error, and it hands that error to everyone who waits.
Cancel(k) ==
    /\ flight[k].at \in {"row", "file", "fetch", "rename", "insert", "evict", "pick", "delete"}
    /\ failures < MaxFailures /\ failures' = failures + 1
    /\ flight' = [flight EXCEPT ![k] = Grounded]
    /\ waiting' = waiting \ {k}
    /\ Disk /\ UNCHANGED <<served, asked>>

Damage(k) ==
    /\ files[k] # Nothing /\ failures < MaxFailures /\ failures' = failures + 1
    /\ files' = [files EXCEPT ![k] = Junk]
    /\ UNCHANGED <<rows, flight, waiting, served, asked>>

CacheCrash ==
    /\ failures < MaxFailures /\ failures' = failures + 1
    /\ flight' = [k \in Keys |-> Grounded] /\ waiting' = {}
    /\ Disk /\ UNCHANGED <<served, asked>>

Step(k) ==
    \/ LookUpRow(k) \/ ReadFile(k) \/ Unlink(k) \/ DeleteRow(k) \/ Fetch(k)
    \/ Rename(k) \/ InsertRow(k) \/ Evict(k) \/ PickVictim(k) \/ Land(k)

CacheNext == CacheCrash \/ \E k \in Keys : Ask(k) \/ Step(k) \/ Cancel(k) \/ Damage(k)

CacheSpec == CacheInit /\ [][CacheNext]_cacheVars

-----------------------------------------------------------------------------
(* What the cache promises *)

\* Every answer for a key has that key's bytes, whatever other leaders removed or
\* overwrote meanwhile, and whatever a crash between the file and its row or a damaged
\* disk left behind.
AnswersIntact == \A a \in served : a[2] = a[1]

\* When no leader is at work the rows are within the budget, unless a leader was cut short
\* before it evicted.
WithinBudget ==
    (\A k \in Keys : At(k, "none")) /\ failures = 0 => Bytes <= Budget
=============================================================================
