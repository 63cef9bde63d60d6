----------------------------- MODULE ListCache -----------------------------
(***************************************************************************)
(* The Redis cache in front of the user, client and role lists:            *)
(* getUserListCacheKey, getClientListCacheKey, getRoleListCacheKey, the    *)
(* list methods that use them, and the mutations that increment a version  *)
(* key once their statements have committed.                               *)
(*                                                                         *)
(* A list method reads the version key, looks its page up under that       *)
(* version and, on a miss, runs two queries and stores the page for thirty *)
(* minutes.  The first query is for the rows and the second for the total, *)
(* in GetClientList the other way round.  Nothing locks: the mutations     *)
(* commit and increment between any two of these steps.                    *)
(*                                                                         *)
(* The content of a page is the set of mutations each query reflected.  A  *)
(* mutation of several statements is reflected once the last of them that  *)
(* takes effect has committed.                                             *)
(***************************************************************************)
EXTENDS Naturals, FiniteSets

CONSTANTS
  Writer,  \* mutating requests, each made at most once
  Reader,  \* slots for list requests in flight
  Kinds,   \* what the mutating requests may be
  Lists    \* the lists that are asked for

(***************************************************************************)
(* The version keys each kind of mutation increments.  They are those of   *)
(* the rows it writes, not those of every list that shows them:            *)
(* SyncAdminClientAccess ("managed") increments the users' key and changes *)
(* what GetBoundClients lists, SyncUserAccess ("access") increments none   *)
(* and changes what GetAllowedClients and the user lists show.             *)
(***************************************************************************)
Bumped == [user |-> {"users"}, managed |-> {"users"}, client |-> {"clients"},
           role |-> {"roles"}, access |-> {}]

\* The version key a list is stored under.
VersionOf == [users |-> "users", admins |-> "users", clients |-> "clients",
              bound |-> "clients", allowed |-> "clients", roles |-> "roles"]

VersionKeys == {"users", "clients", "roles"}

ASSUME KindsAssumption == Kinds \subseteq DOMAIN Bumped

ASSUME ListsAssumption == Lists \subseteq DOMAIN VersionOf

VARIABLES
  ver,     \* the version keys; a key that is missing counts as 0
  cache,   \* the stored pages
  wr,      \* mutating requests
  rd,      \* list requests in flight
  faulted  \* ghost: Redis lost a version key or failed to serve one

vars == <<ver, cache, wr, rd, faulted>>

Page == [list: Lists, version: Nat, first: SUBSET Writer,
         second: SUBSET Writer]

WriteRow == [pc: {"idle", "committed", "done", "dead"}, kind: Kinds]

\* need: the mutations, of any kind, answered before the request came in.
ReadRow == [pc: {"idle", "lookup", "first", "second", "store", "answer"},
            list: Lists, version: Nat, first: SUBSET Writer,
            second: SUBSET Writer, need: SUBSET Writer]

TypeOK ==
  /\ ver \in [VersionKeys -> Nat]
  /\ cache \subseteq Page
  /\ wr \in [Writer -> WriteRow]
  /\ rd \in [Reader -> ReadRow]
  /\ faulted \in BOOLEAN

Request(pc, l, v, need) ==
  [pc |-> pc, list |-> l, version |-> v, first |-> {}, second |-> {},
   need |-> need]

Init ==
  /\ ver = [k \in VersionKeys |-> 0]
  /\ cache = {}
  /\ wr \in [Writer -> [pc: {"idle"}, kind: Kinds]]
  /\ rd \in [Reader -> {Request("idle", l, 0, {}) : l \in Lists}]
  /\ faulted = FALSE

\* What the tables reflect, and whose callers have been told.
Committed == {w \in Writer : wr[w].pc # "idle"}
Answered == {w \in Writer : wr[w].pc = "done"}

---------------------------------------------------------------------------
(* Mutations: the transaction, then INCR, whose error is dropped.          *)
Commit(w) ==
  /\ wr[w].pc = "idle"
  /\ wr' = [wr EXCEPT ![w].pc = "committed"]
  /\ UNCHANGED <<ver, cache, rd, faulted>>

Bump(w) ==
  LET keys == Bumped[wr[w].kind] IN
  /\ wr[w].pc = "committed"
  /\ wr' = [wr EXCEPT ![w].pc = "done"]
  /\ \/ /\ ver' = [k \in VersionKeys |->
                     IF k \in keys THEN ver[k] + 1 ELSE ver[k]]
        /\ UNCHANGED faulted
     \/ /\ keys # {}
        /\ faulted' = TRUE
        /\ UNCHANGED ver
  /\ UNCHANGED <<cache, rd>>

\* The process dies, or the caller is told of an error, before INCR.
Die(w) ==
  /\ wr[w].pc = "committed"
  /\ wr' = [wr EXCEPT ![w].pc = "dead"]
  /\ UNCHANGED <<ver, cache, rd, faulted>>

---------------------------------------------------------------------------
(* List requests.                                                          *)

\* A version key that cannot be read counts as "0".
StartRead(r, l) ==
  /\ rd[r].pc = "idle"
  /\ \E v \in {ver[VersionOf[l]], 0} :
       /\ rd' = [rd EXCEPT ![r] = Request("lookup", l, v, Answered)]
       /\ faulted' = (faulted \/ v # ver[VersionOf[l]])
  /\ UNCHANGED <<ver, cache, wr>>

SameKey(e, r) == e.list = rd[r].list /\ e.version = rd[r].version

Hit(r) ==
  /\ rd[r].pc = "lookup"
  /\ \E e \in cache :
       /\ SameKey(e, r)
       /\ rd' = [rd EXCEPT ![r].pc = "answer", ![r].first = e.first,
                           ![r].second = e.second]
  /\ UNCHANGED <<ver, cache, wr, faulted>>

\* A page that cannot be fetched or decoded is a miss as well.
Miss(r) ==
  /\ rd[r].pc = "lookup"
  /\ rd' = [rd EXCEPT ![r].pc = "first"]
  /\ UNCHANGED <<ver, cache, wr, faulted>>

QueryFirst(r) ==
  /\ rd[r].pc = "first"
  /\ rd' = [rd EXCEPT ![r].pc = "second", ![r].first = Committed]
  /\ UNCHANGED <<ver, cache, wr, faulted>>

QuerySecond(r) ==
  /\ rd[r].pc = "second"
  /\ rd' = [rd EXCEPT ![r].pc = "store", ![r].second = Committed]
  /\ UNCHANGED <<ver, cache, wr, faulted>>

\* The page goes under the version read first, not the one there is now.
VersionAtStore(r) == ver[VersionOf[rd[r].list]]
StoredVersion(r) == rd[r].version

\* SET replaces the page under its key; its error is dropped.
Store(r) ==
  LET page == [list |-> rd[r].list, version |-> StoredVersion(r),
               first |-> rd[r].first, second |-> rd[r].second] IN
  /\ rd[r].pc = "store"
  /\ \/ cache' = {e \in cache : e.list # page.list
                                \/ e.version # page.version} \cup {page}
     \/ UNCHANGED cache
  /\ rd' = [rd EXCEPT ![r].pc = "answer"]
  /\ UNCHANGED <<ver, wr, faulted>>

\* The response is sent, or a query failed and an error is.
EndRead(r) ==
  /\ rd[r].pc \in {"first", "second", "answer"}
  /\ rd' = [rd EXCEPT ![r] = Request("idle", @.list, 0, {})]
  /\ UNCHANGED <<ver, cache, wr, faulted>>

---------------------------------------------------------------------------
(* Redis: the time to live of a page, and eviction (allkeys-lru).          *)
ExpiringOld(e) == e.version # ver[VersionOf[e.list]]
Expiring(e) == TRUE

Expire(l, v) ==
  /\ \E e \in cache : e.list = l /\ e.version = v /\ Expiring(e)
  /\ cache' = {e \in cache : e.list # l \/ e.version # v}
  /\ UNCHANGED <<ver, wr, rd, faulted>>

EvictVersion(k) ==
  /\ ver[k] # 0
  /\ ver' = [ver EXCEPT ![k] = 0]
  /\ faulted' = TRUE
  /\ UNCHANGED <<cache, wr, rd>>

---------------------------------------------------------------------------
Versions == 0..Cardinality(Writer)

Read(r) ==
  \/ \E l \in Lists : StartRead(r, l)
  \/ Hit(r) \/ Miss(r) \/ QueryFirst(r) \/ QuerySecond(r) \/ Store(r)
  \/ EndRead(r)

Next ==
  \/ \E w \in Writer : Commit(w) \/ Bump(w) \/ Die(w)
  \/ \E r \in Reader : Read(r)
  \/ \E e \in cache : Expire(e.list, e.version)
  \/ \E k \in VersionKeys : EvictVersion(k)

Spec == Init /\ [][Next]_vars

\* Every stored page has a time to live.
FairSpec ==
  /\ Spec
  /\ \A l \in Lists, v \in Versions : WF_vars(Expire(l, v))

---------------------------------------------------------------------------
InFlight(r) == rd[r].pc # "idle"
KeyOf(r) == VersionOf[rd[r].list]

\* The mutations a version key counts, and what a request has not got of those
\* answered before it came in.
CountedBy(k) == {w \in Writer : k \in Bumped[wr[w].kind]}
Missed(r) == rd[r].need \ (rd[r].first \cap rd[r].second)

(***************************************************************************)
(* What a list promises about the mutations answered before it was asked   *)
(* for (getUserListCacheKey and its siblings).  Whoever else was reading,  *)
(* storing or mutating: unless Redis lost or failed to serve a version     *)
(* key, an answer misses none that increments the version key of the list. *)
(* It may miss those that do not, for as long as a stored page lives; a    *)
(* list that was queried misses none of any kind, whatever Redis did.      *)
(***************************************************************************)
ListsShowCountedWrites ==
  \A r \in Reader :
    /\ rd[r].pc = "store" => Missed(r) = {}
    /\ ~faulted /\ rd[r].pc = "answer" =>
         Missed(r) \cap CountedBy(KeyOf(r)) = {}

(***************************************************************************)
(* Whatever Redis lost, whatever died between commit and INCR and whatever *)
(* mutation increments nothing: in the end every stored page reflects      *)
(* every mutation.                                                         *)
(***************************************************************************)
StalePagesVanish ==
  <>[](\A e \in cache : e.first = Committed /\ e.second = Committed)

---------------------------------------------------------------------------
(***************************************************************************)
(* Why ListsShowCountedWrites holds.  A query sees all that was answered.  *)
(* While Redis serves the version keys, a page or a request at the version *)
(* a key has now reflects every answered mutation that key counts;         *)
(* requests at the same version of a key asked for the same ones of these; *)
(* no page is ahead of its key.                                            *)
(***************************************************************************)
Acked(k) == Answered \cap CountedBy(k)
Owed(r) == rd[r].need \cap CountedBy(KeyOf(r))

QueriesAreComplete ==
  \A r \in Reader : InFlight(r) =>
    /\ rd[r].need \subseteq Answered
    /\ rd[r].pc \in {"second", "store"} => rd[r].need \subseteq rd[r].first
    /\ rd[r].pc = "store" => rd[r].need \subseteq rd[r].second

PagesBehindKeys == \A e \in cache : e.version <= ver[VersionOf[e.list]]

PagesAreCurrent ==
  \A e \in cache : e.version = ver[VersionOf[e.list]] =>
    Acked(VersionOf[e.list]) \subseteq e.first \cap e.second

RequestsAreCurrent ==
  \A r \in Reader : InFlight(r) =>
    /\ rd[r].version <= ver[KeyOf(r)]
    /\ rd[r].version = ver[KeyOf(r)] => Owed(r) = Acked(KeyOf(r))
    /\ rd[r].pc = "answer" => Owed(r) \subseteq rd[r].first \cap rd[r].second

RequestsAgree ==
  /\ \A r1, r2 \in Reader :
       InFlight(r1) /\ InFlight(r2) /\ KeyOf(r1) = KeyOf(r2)
         /\ rd[r1].version = rd[r2].version => Owed(r1) = Owed(r2)
  /\ \A r \in Reader, e \in cache :
       InFlight(r) /\ SameKey(e, r) => Owed(r) \subseteq e.first \cap e.second

Coherent ==
  /\ PagesBehindKeys /\ PagesAreCurrent
  /\ RequestsAreCurrent /\ RequestsAgree

(***************************************************************************)
(* The inductive invariant: types, complete queries, and coherence while   *)
(* Redis serves its version keys.                                          *)
(***************************************************************************)
CacheInv == TypeOK /\ QueriesAreComplete /\ (~faulted => Coherent)
============================================================================
