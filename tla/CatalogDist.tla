---------------------------- MODULE CatalogDist ----------------------------
(* The signed distribution catalog (catalog_dist.rs). Several fetches may be
   under way; each gets catalog.json and catalog.json.sig with two requests,
   between which a new pair may be published, and either of which an edge cache
   may answer with an older one. The highest version ever accepted is kept in a
   file, read and written under a lock of the process. *)
EXTENDS Integers

CONSTANTS
  Fetches,    \* calls of fetch_dist_catalog that may be under way together
  MaxVersion  \* bound: versions published
NoFetch == "nobody"
ASSUME CatalogDistAssumption ==
  MaxVersion \in Nat \ {0} /\ NoFetch \notin Fetches

VARIABLES
  published,    \* the newest catalog_version in the bucket
  fetches,      \* per fetch: where it is, what it got and what it read
  fetch_lock,   \* FETCH_LOCK: its holder
  highest,      \* highest_catalog_version in the state file; 0 without one
  answered          \* history: the version of the catalog answered last
distvars == <<published, fetches, fetch_lock, highest, answered>>

Idle == [pc |-> "idle", catalog |-> 0, sig |-> 0, seen |-> 0]
DistInit == /\ published = 1 /\ highest = 0 /\ answered = 0 /\ fetch_lock = NoFetch
            /\ fetches = [f \in Fetches |-> Idle]

Publish == /\ published < MaxVersion /\ published' = published + 1
           /\ UNCHANGED <<fetches, fetch_lock, highest, answered>>

Goes(f, pc) == fetches' = [fetches EXCEPT ![f].pc = pc]
\* get_capped, twice; a request that fails ends the fetch.
GetCatalog(f) ==
  /\ fetches[f].pc = "idle"
  /\ \E v \in 1..published :
       fetches' = [fetches EXCEPT ![f].catalog = v, ![f].pc = "sig"]
  /\ UNCHANGED <<published, fetch_lock, highest, answered>>
GetSig(f) ==
  /\ fetches[f].pc = "sig"
  /\ \E s \in 1..published :
       fetches' = [fetches EXCEPT ![f].sig = s, ![f].pc = "verify"]
  /\ UNCHANGED <<published, fetch_lock, highest, answered>>
FetchFails(f) ==
  /\ fetches[f].pc = "sig" /\ fetches' = [fetches EXCEPT ![f] = Idle]
  /\ UNCHANGED <<published, fetch_lock, highest, answered>>
\* parse_and_verify: the signature is of the very bytes.
ParseAndVerify(f) ==
  /\ fetches[f].pc = "verify"
  /\ IF fetches[f].sig = fetches[f].catalog THEN Goes(f, "lock")
     ELSE fetches' = [fetches EXCEPT ![f] = Idle]
  /\ UNCHANGED <<published, fetch_lock, highest, answered>>

\* Mutant: the section is not guarded.
Lock_Not(f) == /\ fetches[f].pc = "lock" /\ Goes(f, "read")
               /\ UNCHANGED <<published, fetch_lock, highest, answered>>
Lock(f) == /\ fetches[f].pc = "lock" /\ fetch_lock = NoFetch
           /\ fetch_lock' = f /\ Goes(f, "read")
           /\ UNCHANGED <<published, highest, answered>>
ReadHighest(f) ==
  /\ fetches[f].pc = "read"
  /\ fetches' = [fetches EXCEPT ![f].seen = highest, ![f].pc = "check"]
  /\ UNCHANGED <<published, fetch_lock, highest, answered>>

\* The fetch returns, and its guard is dropped.
Unlocks(f) == /\ fetches' = [fetches EXCEPT ![f] = Idle]
              /\ fetch_lock' = IF fetch_lock = f THEN NoFetch ELSE fetch_lock
RefuseOlder(f) ==
  /\ fetches[f].pc = "check" /\ fetches[f].catalog < fetches[f].seen
  /\ Unlocks(f) /\ UNCHANGED <<published, highest, answered>>
\* write_highest_version: a temporary file and a rename, which may fail.
WriteHighest(f) ==
  /\ fetches[f].pc = "check" /\ fetches[f].catalog > fetches[f].seen
  /\ \/ highest' = fetches[f].catalog /\ Goes(f, "answer") /\ UNCHANGED fetch_lock
     \/ Unlocks(f) /\ UNCHANGED highest
  /\ UNCHANGED <<published, answered>>
Answer(f) ==
  /\ \/ fetches[f].pc = "answer"
     \/ fetches[f].pc = "check" /\ fetches[f].catalog = fetches[f].seen
  /\ answered' = fetches[f].catalog /\ Unlocks(f) /\ UNCHANGED <<published, highest>>

\* The app ends, whatever it was at, and is started again.
Restarted ==
  /\ \E f \in Fetches : fetches[f] # Idle
  /\ fetches' = [f \in Fetches |-> Idle] /\ fetch_lock' = NoFetch
  /\ UNCHANGED <<published, highest, answered>>

DistNext ==
  \/ Publish \/ Restarted
  \/ \E f \in Fetches :
       \/ GetCatalog(f) \/ GetSig(f) \/ FetchFails(f) \/ ParseAndVerify(f)
       \/ Lock(f) \/ ReadHighest(f) \/ RefuseOlder(f) \/ WriteHighest(f) \/ Answer(f)
DistSpec == DistInit /\ [][DistNext]_distvars

-----------------------------------------------------------------------------
\* No fetch is answered with a catalog older than one that was answered before,
\* by this or an earlier run of the app; and what is on disk is never behind.
NeverOlder == [][answered' >= answered /\ highest' >= answered']_distvars
=============================================================================
