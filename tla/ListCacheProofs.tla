-------------------------- MODULE ListCacheProofs --------------------------
(***************************************************************************)
(* CacheInv is inductive, for any number of mutations and list requests    *)
(* and any set of lists: a list that is queried reflects every mutation    *)
(* answered before the request came in, and while Redis serves its version *)
(* keys a stored page reflects those its key counts.                       *)
(***************************************************************************)
EXTENDS ListCache, TLAPS

LEMMA Keys ==
  /\ \A l \in Lists : VersionOf[l] \in VersionKeys
  /\ \A m \in Kinds : Bumped[m] \subseteq VersionKeys
  BY ListsAssumption, KindsAssumption DEF VersionOf, VersionKeys, Bumped

LEMMA AnsweredIsCommitted ==
  Answered \subseteq Committed /\ Committed \subseteq Writer
  BY DEF Answered, Committed

LEMMA RequestRow ==
  ASSUME NEW l \in Lists, NEW v \in Nat, NEW need \in SUBSET Writer,
         NEW pc \in {"idle", "lookup"}
  PROVE  Request(pc, l, v, need) \in ReadRow
  BY DEF Request, ReadRow

LEMMA TypeStep ==
  ASSUME TypeOK, [Next]_vars
  PROVE  TypeOK'
  <1> USE DEF TypeOK
  <1>1. ASSUME NEW w \in Writer, Commit(w) \/ Die(w)
        PROVE  TypeOK'
    BY <1>1 DEF Commit, Die, WriteRow
  <1>2. ASSUME NEW w \in Writer, Bump(w)
        PROVE  TypeOK'
    <2>1. wr' \in [Writer -> WriteRow]
      BY <1>2 DEF Bump, WriteRow
    <2>2. ver' \in [VersionKeys -> Nat]
      <3>1. CASE UNCHANGED ver
        BY <3>1
      <3>2. CASE ~(UNCHANGED ver)
        <4>1. ver' = [k \in VersionKeys |->
                        IF k \in Bumped[wr[w].kind] THEN ver[k] + 1
                          ELSE ver[k]]
          BY <1>2, <3>2 DEF Bump
        <4>2. QED
          BY <4>1
      <3>3. QED
        BY <3>1, <3>2
    <2>3. faulted' \in BOOLEAN
      BY <1>2 DEF Bump
    <2>4. QED
      BY <1>2, <2>1, <2>2, <2>3 DEF Bump
  <1>3. ASSUME NEW r \in Reader, NEW l \in Lists, StartRead(r, l)
        PROVE  TypeOK'
    <2>1. PICK v \in {ver[VersionOf[l]], 0} :
            /\ rd' = [rd EXCEPT ![r] = Request("lookup", l, v, Answered)]
            /\ faulted' = (faulted \/ v # ver[VersionOf[l]])
      BY <1>3 DEF StartRead
    <2>2. v \in Nat /\ Answered \in SUBSET Writer
      BY Keys, AnsweredIsCommitted
    <2>3. Request("lookup", l, v, Answered) \in ReadRow
      BY <2>2, RequestRow
    <2>4. rd' \in [Reader -> ReadRow]
      BY <2>1, <2>3
    <2>5. faulted' \in BOOLEAN
      BY <2>1
    <2>6. QED
      BY <1>3, <2>4, <2>5 DEF StartRead
  <1>4. ASSUME NEW r \in Reader, Hit(r)
        PROVE  TypeOK'
    <2>1. PICK e \in cache :
            rd' = [rd EXCEPT ![r].pc = "answer", ![r].first = e.first,
                             ![r].second = e.second]
      BY <1>4 DEF Hit
    <2>2. e \in Page /\ rd[r] \in ReadRow
      OBVIOUS
    <2>3. rd' \in [Reader -> ReadRow]
      BY <2>1, <2>2 DEF Page, ReadRow
    <2>4. QED
      BY <1>4, <2>3 DEF Hit
  <1>5. ASSUME NEW r \in Reader, Miss(r) \/ QueryFirst(r) \/ QuerySecond(r)
        PROVE  TypeOK'
    <2>1. Committed \in SUBSET Writer /\ rd[r] \in ReadRow
      BY DEF Committed
    <2>2. rd' \in [Reader -> ReadRow]
      BY <1>5, <2>1 DEF Miss, QueryFirst, QuerySecond, ReadRow
    <2>3. QED
      BY <1>5, <2>2 DEF Miss, QueryFirst, QuerySecond
  <1>6. ASSUME NEW r \in Reader, Store(r)
        PROVE  TypeOK'
    <2>1. rd[r] \in ReadRow
      OBVIOUS
    <2>2. [list |-> rd[r].list, version |-> StoredVersion(r),
           first |-> rd[r].first, second |-> rd[r].second] \in Page
      BY <2>1 DEF ReadRow, Page, StoredVersion
    <2>3. cache' \subseteq Page
      BY <1>6, <2>2 DEF Store
    <2>4. rd' \in [Reader -> ReadRow]
      BY <1>6, <2>1 DEF Store, ReadRow
    <2>5. QED
      BY <1>6, <2>3, <2>4 DEF Store
  <1>7. ASSUME NEW r \in Reader, EndRead(r)
        PROVE  TypeOK'
    <2>1. rd[r].list \in Lists
      BY DEF ReadRow
    <2>2. Request("idle", rd[r].list, 0, {}) \in ReadRow
      BY <2>1, RequestRow
    <2>3. QED
      BY <1>7, <2>2 DEF EndRead
  <1>8. ASSUME NEW e \in cache, Expire(e.list, e.version)
        PROVE  TypeOK'
    BY <1>8 DEF Expire
  <1>9. ASSUME NEW k \in VersionKeys, EvictVersion(k)
        PROVE  TypeOK'
    BY <1>9 DEF EvictVersion
  <1>10. CASE UNCHANGED vars
    BY <1>10 DEF vars
  <1>11. QED
    BY <1>1, <1>2, <1>3, <1>4, <1>5, <1>6, <1>7, <1>8, <1>9, <1>10
       DEF Next, Read

---------------------------------------------------------------------------
\* Kinds never change, so a key goes on counting the mutations it counts, and
\* those answered only become more.
LEMMA CountedStays ==
  ASSUME TypeOK, [Next]_vars
  PROVE  /\ \A k : CountedBy(k)' = CountedBy(k)
         /\ Answered \subseteq Answered'
  <1>1. \A w \in Writer : /\ wr'[w].kind = wr[w].kind
                          /\ wr[w].pc = "done" => wr'[w].pc = "done"
    <2>1. CASE UNCHANGED wr
      BY <2>1
    <2>2. CASE \E w \in Writer : Commit(w) \/ Bump(w) \/ Die(w)
      <3>1. PICK w \in Writer : Commit(w) \/ Bump(w) \/ Die(w)
        BY <2>2
      <3>2. PICK pc \in {"committed", "done", "dead"} :
              wr' = [wr EXCEPT ![w].pc = pc]
        BY <3>1 DEF Commit, Bump, Die
      <3>3. wr[w].pc # "done" /\ wr \in [Writer -> WriteRow]
        BY <3>1 DEF Commit, Bump, Die, TypeOK
      <3>4. QED
        BY <3>2, <3>3 DEF WriteRow
    <2>3. QED
      BY <2>1, <2>2 DEF Next, Read, vars, StartRead, Hit, Miss, QueryFirst,
                        QuerySecond, Store, EndRead, Expire, EvictVersion
  <1>2. QED
    BY <1>1 DEF CountedBy, Answered

\* What a mutation does to the answered mutations of a key.
LEMMA AnsweredUnchanged ==
  ASSUME TypeOK, NEW w \in Writer, Commit(w) \/ Die(w)
  PROVE  Answered' = Answered /\ \A k : CountedBy(k)' = CountedBy(k)
  BY DEF TypeOK, Commit, Die, Answered, CountedBy, WriteRow

LEMMA AckedOfOtherKeys ==
  ASSUME TypeOK, NEW w \in Writer, Bump(w), NEW k \in VersionKeys
  PROVE  k \notin Bumped[wr[w].kind] => Acked(k)' = Acked(k)
  <1>1. /\ wr' = [wr EXCEPT ![w].pc = "done"]
        /\ wr[w].pc = "committed" /\ wr \in [Writer -> WriteRow]
    BY DEF Bump, TypeOK
  <1>2. \A x \in Writer : wr'[x].kind = wr[x].kind
                          /\ (x # w => wr'[x].pc = wr[x].pc)
    BY <1>1 DEF WriteRow
  <1>3. QED
    BY <1>1, <1>2 DEF Acked, Answered, CountedBy

---------------------------------------------------------------------------
\* A query sees everything committed, so everything answered, whatever Redis
\* does.
LEMMA QueriesStep ==
  ASSUME TypeOK, QueriesAreComplete, [Next]_vars
  PROVE  QueriesAreComplete'
  <1>1. Answered \subseteq Answered'
    BY CountedStays
  <1>2. Answered \subseteq Committed
    BY AnsweredIsCommitted
  <1> SUFFICES ASSUME NEW r \in Reader, InFlight(r)'
      PROVE  /\ rd'[r].need \subseteq Answered'
             /\ rd'[r].pc \in {"second", "store"} =>
                  rd'[r].need \subseteq rd'[r].first
             /\ rd'[r].pc = "store" => rd'[r].need \subseteq rd'[r].second
    BY DEF QueriesAreComplete
  <1>3. rd \in [Reader -> ReadRow]
    BY DEF TypeOK
  <1>4. InFlight(r) =>
          /\ rd[r].need \subseteq Answered
          /\ rd[r].pc \in {"second", "store"} => rd[r].need \subseteq rd[r].first
          /\ rd[r].pc = "store" => rd[r].need \subseteq rd[r].second
    BY DEF QueriesAreComplete
  <1>5. CASE rd'[r] = rd[r]
    BY <1>1, <1>4, <1>5 DEF InFlight
  <1>6. CASE \E l \in Lists : StartRead(r, l)
    <2>1. PICK l \in Lists : StartRead(r, l)
      BY <1>6
    <2>2. \E v : rd'[r] = Request("lookup", l, v, Answered)
      BY <1>3, <2>1 DEF StartRead
    <2>3. QED
      BY <1>1, <2>2 DEF Request
  <1>7. CASE Hit(r)
    <2>1. rd'[r].pc = "answer" /\ rd'[r].need = rd[r].need /\ InFlight(r)
      BY <1>3, <1>7 DEF Hit, InFlight, ReadRow
    <2>2. QED
      BY <1>1, <1>4, <2>1
  <1>8. CASE Miss(r)
    <2>1. rd'[r].pc = "first" /\ rd'[r].need = rd[r].need /\ InFlight(r)
      BY <1>3, <1>8 DEF Miss, InFlight, ReadRow
    <2>2. QED
      BY <1>1, <1>4, <2>1
  <1>9. CASE QueryFirst(r)
    <2>1. /\ rd'[r].pc = "second" /\ rd'[r].need = rd[r].need
          /\ rd'[r].first = Committed /\ InFlight(r)
      BY <1>3, <1>9 DEF QueryFirst, InFlight, ReadRow
    <2>2. QED
      BY <1>1, <1>2, <1>4, <2>1
  <1>10. CASE QuerySecond(r)
    <2>1. /\ rd'[r].pc = "store" /\ rd'[r].need = rd[r].need
          /\ rd'[r].first = rd[r].first /\ rd'[r].second = Committed
          /\ rd[r].pc = "second" /\ InFlight(r)
      BY <1>3, <1>10 DEF QuerySecond, InFlight, ReadRow
    <2>2. QED
      BY <1>1, <1>2, <1>4, <2>1
  <1>11. CASE Store(r)
    <2>1. rd'[r].pc = "answer" /\ rd'[r].need = rd[r].need /\ InFlight(r)
      BY <1>3, <1>11 DEF Store, InFlight, ReadRow
    <2>2. QED
      BY <1>1, <1>4, <2>1
  <1>12. CASE EndRead(r)
    BY <1>3, <1>12 DEF EndRead, Request, InFlight
  <1>13. \/ rd'[r] = rd[r] \/ Read(r)
    <2>1. ASSUME NEW r1 \in Reader, Read(r1), r1 # r
          PROVE  rd'[r] = rd[r]
      BY <1>3, <2>1 DEF Read, StartRead, Hit, Miss, QueryFirst, QuerySecond,
                        Store, EndRead
    <2>2. CASE UNCHANGED rd
      BY <2>2
    <2>3. QED
      BY <2>1, <2>2 DEF Next, vars, Commit, Bump, Die, Expire, EvictVersion
  <1>14. QED
    BY <1>5, <1>6, <1>7, <1>8, <1>9, <1>10, <1>11, <1>12, <1>13 DEF Read

---------------------------------------------------------------------------
\* A request that stays in flight under the same key owes the same.
LEMMA OwesTheSame ==
  ASSUME NEW r \in Reader, UNCHANGED wr,
         rd'[r].list = rd[r].list, rd'[r].need = rd[r].need
  PROVE  KeyOf(r)' = KeyOf(r) /\ Owed(r)' = Owed(r)
  BY DEF KeyOf, Owed, CountedBy

\* The conjuncts that speak of one page or one request at a time, for a step
\* that only moves one request forward under the same key.
LEMMA RequestMoves ==
  ASSUME CacheInv, ~faulted, NEW r \in Reader, InFlight(r),
         UNCHANGED <<ver, wr>>, NEW row \in ReadRow,
         rd' = [rd EXCEPT ![r] = row],
         row.list = rd[r].list, row.version = rd[r].version,
         row.need = rd[r].need, row.pc # "idle",
         row.pc = "answer" => Owed(r) \subseteq row.first \cap row.second
  PROVE  RequestsAreCurrent'
         /\ \A r1 \in Reader :
              /\ InFlight(r1) <=> InFlight(r1)'
              /\ KeyOf(r1)' = KeyOf(r1) /\ Owed(r1)' = Owed(r1)
              /\ rd'[r1].list = rd[r1].list
              /\ rd'[r1].version = rd[r1].version
  <1>1. rd \in [Reader -> ReadRow] /\ RequestsAreCurrent
    BY DEF CacheInv, TypeOK, Coherent
  <1>2. rd'[r] = row /\ \A r1 \in Reader : r1 # r => rd'[r1] = rd[r1]
    BY <1>1
  <1>3. \A r1 \in Reader :
          /\ rd'[r1].list = rd[r1].list /\ rd'[r1].need = rd[r1].need
          /\ rd'[r1].version = rd[r1].version
          /\ InFlight(r1) <=> InFlight(r1)'
    BY <1>2 DEF InFlight
  <1>4. \A r1 \in Reader : KeyOf(r1)' = KeyOf(r1) /\ Owed(r1)' = Owed(r1)
    BY <1>3, OwesTheSame
  <1>5. RequestsAreCurrent'
    <2> SUFFICES ASSUME NEW r1 \in Reader, InFlight(r1)'
        PROVE  /\ rd'[r1].version <= ver'[KeyOf(r1)']
               /\ rd'[r1].version = ver'[KeyOf(r1)']
                    => Owed(r1)' = Acked(KeyOf(r1))'
               /\ rd'[r1].pc = "answer" =>
                    Owed(r1)' \subseteq rd'[r1].first \cap rd'[r1].second
      BY DEF RequestsAreCurrent
    <2>1. Acked(KeyOf(r1))' = Acked(KeyOf(r1))
      BY <1>4 DEF Acked, Answered, CountedBy
    <2>2. /\ InFlight(r1) /\ Owed(r1)' = Owed(r1) /\ KeyOf(r1)' = KeyOf(r1)
          /\ rd'[r1].version = rd[r1].version
      BY <1>3, <1>4
    <2>3. /\ rd[r1].version <= ver[KeyOf(r1)]
          /\ rd[r1].version = ver[KeyOf(r1)] => Owed(r1) = Acked(KeyOf(r1))
          /\ rd[r1].pc = "answer" =>
               Owed(r1) \subseteq rd[r1].first \cap rd[r1].second
      BY <1>1, <2>2 DEF RequestsAreCurrent
    <2>4. CASE r1 = r
      BY <1>2, <2>1, <2>2, <2>3, <2>4
    <2>5. CASE r1 # r
      BY <1>2, <2>1, <2>2, <2>3, <2>5
    <2>6. QED
      BY <2>4, <2>5
  <1>6. QED
    BY <1>3, <1>4, <1>5

\* ... and the other conjuncts, when it leaves the pages alone.
LEMMA OnlyRequestMoves ==
  ASSUME CacheInv, ~faulted, NEW r \in Reader, InFlight(r),
         UNCHANGED <<ver, wr, cache>>, NEW row \in ReadRow,
         rd' = [rd EXCEPT ![r] = row],
         row.list = rd[r].list, row.version = rd[r].version,
         row.need = rd[r].need, row.pc # "idle",
         row.pc = "answer" => Owed(r) \subseteq row.first \cap row.second
  PROVE  Coherent'
  <1>1. /\ RequestsAreCurrent'
        /\ \A r1 \in Reader :
             /\ InFlight(r1) <=> InFlight(r1)'
             /\ KeyOf(r1)' = KeyOf(r1) /\ Owed(r1)' = Owed(r1)
             /\ rd'[r1].list = rd[r1].list
             /\ rd'[r1].version = rd[r1].version
    BY RequestMoves
  <1>2. Coherent
    BY DEF CacheInv
  <1>3. PagesBehindKeys' /\ PagesAreCurrent'
    BY <1>2 DEF Coherent, PagesBehindKeys, PagesAreCurrent, Acked, Answered,
                CountedBy
  <1>4. RequestsAgree'
    BY <1>1, <1>2 DEF Coherent, RequestsAgree, SameKey
  <1>5. QED
    BY <1>1, <1>3, <1>4 DEF Coherent

---------------------------------------------------------------------------
\* Coherence, one lemma per kind of step.
LEMMA CommitStep ==
  ASSUME CacheInv, ~faulted, NEW w \in Writer, Commit(w) \/ Die(w)
  PROVE  Coherent'
  <1>1. UNCHANGED <<ver, cache, rd>> /\ Coherent /\ TypeOK
    BY DEF Commit, Die, CacheInv
  <1>2. Answered' = Answered /\ \A k : CountedBy(k)' = CountedBy(k)
    BY <1>1, AnsweredUnchanged
  <1>3. \A k : Acked(k)' = Acked(k)
    BY <1>2 DEF Acked
  <1>4. \A r \in Reader : KeyOf(r)' = KeyOf(r) /\ Owed(r)' = Owed(r)
    BY <1>1, <1>2 DEF KeyOf, Owed
  <1>5. PagesBehindKeys'
    BY <1>1 DEF Coherent, PagesBehindKeys
  <1>6. PagesAreCurrent'
    BY <1>1, <1>3 DEF Coherent, PagesAreCurrent
  <1>7. RequestsAreCurrent' /\ RequestsAgree'
    BY <1>1, <1>3, <1>4
       DEF Coherent, RequestsAreCurrent, RequestsAgree, InFlight, SameKey
  <1>8. QED
    BY <1>5, <1>6, <1>7 DEF Coherent

\* INCR moves the key past every page and every request there is.
LEMMA BumpStep ==
  ASSUME CacheInv, ~faulted', NEW w \in Writer, Bump(w), ~faulted
  PROVE  Coherent'
  <1> DEFINE keys == Bumped[wr[w].kind]
  <1>1. UNCHANGED <<cache, rd>> /\ Coherent /\ TypeOK
    BY DEF Bump, CacheInv
  <1>2. \A k \in VersionKeys :
          /\ k \in keys => ver'[k] = ver[k] + 1
          /\ k \notin keys => ver'[k] = ver[k] /\ Acked(k)' = Acked(k)
          /\ ver[k] \in Nat
    BY <1>1, AckedOfOtherKeys DEF Bump, TypeOK
  <1>3. /\ \A r \in Reader : KeyOf(r) \in VersionKeys /\ KeyOf(r)' = KeyOf(r)
                             /\ rd[r].version \in Nat
        /\ \A e \in cache : VersionOf[e.list] \in VersionKeys
                            /\ e.version \in Nat
    BY <1>1, Keys DEF TypeOK, KeyOf, ReadRow, Page
  <1>4. \A r \in Reader : Owed(r)' = Owed(r)
    BY <1>1, <1>3, CountedStays DEF Owed, Next
  <1> HIDE DEF keys
  <1>5. PagesBehindKeys'
    BY <1>1, <1>2, <1>3 DEF Coherent, PagesBehindKeys
  <1>6. PagesAreCurrent'
    <2> SUFFICES ASSUME NEW e \in cache, e.version = ver'[VersionOf[e.list]]
        PROVE  Acked(VersionOf[e.list])' \subseteq e.first \cap e.second
      BY <1>1 DEF PagesAreCurrent
    <2>1. e.version <= ver[VersionOf[e.list]]
      BY <1>1 DEF Coherent, PagesBehindKeys
    <2>2. VersionOf[e.list] \notin keys
      BY <2>1, <1>2, <1>3
    <2>3. QED
      BY <2>2, <1>1, <1>2, <1>3 DEF Coherent, PagesAreCurrent
  <1>7. RequestsAreCurrent'
    <2> SUFFICES ASSUME NEW r \in Reader, InFlight(r)
        PROVE  /\ rd[r].version <= ver'[KeyOf(r)]
               /\ rd[r].version = ver'[KeyOf(r)] => Owed(r) = Acked(KeyOf(r))'
               /\ rd[r].pc = "answer" =>
                    Owed(r) \subseteq rd[r].first \cap rd[r].second
      BY <1>1, <1>3, <1>4 DEF RequestsAreCurrent, InFlight
    <2>1. /\ rd[r].version <= ver[KeyOf(r)]
          /\ rd[r].version = ver[KeyOf(r)] => Owed(r) = Acked(KeyOf(r))
          /\ rd[r].pc = "answer" =>
               Owed(r) \subseteq rd[r].first \cap rd[r].second
      BY <1>1 DEF Coherent, RequestsAreCurrent
    <2>2. CASE KeyOf(r) \in keys
      BY <2>1, <2>2, <1>2, <1>3
    <2>3. CASE KeyOf(r) \notin keys
      BY <2>1, <2>3, <1>2, <1>3
    <2>4. QED
      BY <2>2, <2>3
  <1>8. RequestsAgree'
    BY <1>1, <1>3, <1>4 DEF Coherent, RequestsAgree, SameKey, InFlight
  <1>9. QED
    BY <1>5, <1>6, <1>7, <1>8 DEF Coherent

\* A request that comes in reads the version and owes what it counts.
LEMMA StartStep ==
  ASSUME CacheInv, ~faulted', NEW r \in Reader, NEW l \in Lists,
         StartRead(r, l), ~faulted
  PROVE  Coherent'
  <1> DEFINE k == VersionOf[l]
             row == Request("lookup", l, ver[k], Answered)
  <1>1. Coherent /\ TypeOK /\ k \in VersionKeys
    BY Keys DEF CacheInv
  <1>2. rd' = [rd EXCEPT ![r] = row] /\ UNCHANGED <<ver, cache, wr>>
    BY DEF StartRead
  <1>3. rd'[r] = row /\ \A r1 \in Reader : r1 # r => rd'[r1] = rd[r1]
    BY <1>1, <1>2 DEF TypeOK
  <1>4. row.list = l /\ row.version = ver[k] /\ row.need = Answered
        /\ row.pc = "lookup"
    BY DEF Request
  <1> HIDE DEF row
  <1>5. /\ KeyOf(r)' = k /\ Owed(r)' = Acked(k)
        /\ \A r1 \in Reader : r1 # r => KeyOf(r1)' = KeyOf(r1)
                                        /\ Owed(r1)' = Owed(r1)
                                        /\ (InFlight(r1)' <=> InFlight(r1))
        /\ \A j : Acked(j)' = Acked(j)
        /\ ver[k] \in Nat
    BY <1>1, <1>2, <1>3, <1>4
       DEF KeyOf, Owed, InFlight, Acked, Answered, CountedBy, TypeOK
  <1> HIDE DEF k
  <1>6. PagesBehindKeys' /\ PagesAreCurrent'
    BY <1>1, <1>2, <1>5 DEF Coherent, PagesBehindKeys, PagesAreCurrent
  <1>7. RequestsAreCurrent'
    <2> SUFFICES ASSUME NEW r1 \in Reader, InFlight(r1)'
        PROVE  /\ rd'[r1].version <= ver'[KeyOf(r1)']
               /\ rd'[r1].version = ver'[KeyOf(r1)']
                    => Owed(r1)' = Acked(KeyOf(r1))'
               /\ rd'[r1].pc = "answer" =>
                    Owed(r1)' \subseteq rd'[r1].first \cap rd'[r1].second
      BY DEF RequestsAreCurrent
    <2>1. CASE r1 = r
      <3>1. Acked(KeyOf(r))' = Acked(k)
        BY <1>2, <1>5 DEF Acked, Answered, CountedBy
      <3>2. QED
        BY <1>2, <1>3, <1>4, <1>5, <2>1, <3>1
    <2>2. CASE r1 # r
      <3>1. Acked(KeyOf(r1))' = Acked(KeyOf(r1)) /\ InFlight(r1)
        BY <1>2, <1>5, <2>2 DEF Acked, Answered, CountedBy
      <3>2. QED
        BY <1>1, <1>2, <1>3, <1>5, <2>2, <3>1
           DEF Coherent, RequestsAreCurrent
    <2>3. QED
      BY <2>1, <2>2
  <1>8. RequestsAgree'
    <2>1. \A r1 \in Reader : r1 # r /\ InFlight(r1) /\ KeyOf(r1) = k
            /\ rd[r1].version = row.version => Owed(r1) = Acked(k)
      BY <1>1, <1>4 DEF Coherent, RequestsAreCurrent
    <2>2. \A e \in cache : e.list = l /\ e.version = ver[k] =>
            Acked(k) \subseteq e.first \cap e.second
      BY <1>1 DEF Coherent, PagesAreCurrent, k
    <2>3. QED
      BY <1>1, <1>2, <1>3, <1>4, <1>5, <2>1, <2>2
         DEF Coherent, RequestsAgree, SameKey
  <1>9. QED
    BY <1>6, <1>7, <1>8 DEF Coherent

\* Lookups and queries; a page that is found reflects what is owed.
LEMMA QueryStep ==
  ASSUME CacheInv, ~faulted, NEW r \in Reader,
         Miss(r) \/ QueryFirst(r) \/ QuerySecond(r) \/ Hit(r)
  PROVE  Coherent'
  <1>1. Coherent /\ TypeOK /\ rd[r] \in ReadRow /\ InFlight(r)
    BY DEF CacheInv, TypeOK, Miss, QueryFirst, QuerySecond, Hit, InFlight
  <1>2. UNCHANGED <<ver, wr, cache>>
    BY DEF Miss, QueryFirst, QuerySecond, Hit
  <1>3. CASE Miss(r) \/ QueryFirst(r) \/ QuerySecond(r)
    <2> DEFINE row == rd'[r]
    <2>1. rd' = [rd EXCEPT ![r] = row] /\ row \in ReadRow
      <3>1. Committed \in SUBSET Writer
        BY DEF Committed
      <3>2. QED
        BY <1>1, <1>3, <3>1 DEF Miss, QueryFirst, QuerySecond, ReadRow, TypeOK
    <2>2. row.list = rd[r].list /\ row.version = rd[r].version
          /\ row.need = rd[r].need /\ row.pc \in {"first", "second", "store"}
      BY <1>1, <1>3 DEF Miss, QueryFirst, QuerySecond, ReadRow, TypeOK
    <2> HIDE DEF row
    <2>3. QED
      BY <1>1, <1>2, <2>1, <2>2, OnlyRequestMoves
  <1>4. CASE Hit(r)
    <2>1. PICK e \in cache :
            /\ SameKey(e, r)
            /\ rd' = [rd EXCEPT ![r].pc = "answer", ![r].first = e.first,
                                ![r].second = e.second]
      BY <1>4 DEF Hit
    <2> DEFINE row == [rd[r] EXCEPT !.pc = "answer", !.first = e.first,
                                    !.second = e.second]
    <2>2. row \in ReadRow /\ rd' = [rd EXCEPT ![r] = row]
      BY <1>1, <2>1 DEF ReadRow, TypeOK, Page
    <2>3. row.list = rd[r].list /\ row.version = rd[r].version
          /\ row.need = rd[r].need /\ row.pc = "answer"
          /\ row.first = e.first /\ row.second = e.second
      BY <1>1 DEF ReadRow
    <2>4. Owed(r) \subseteq e.first \cap e.second
      BY <1>1, <2>1 DEF Coherent, RequestsAgree
    <2> HIDE DEF row
    <2>5. QED
      BY <1>1, <1>2, <2>2, <2>3, <2>4, OnlyRequestMoves
  <1>5. QED
    BY <1>3, <1>4

\* SET: the page carries the version its request read first.
LEMMA StoreStep ==
  ASSUME CacheInv, ~faulted, NEW r \in Reader, Store(r)
  PROVE  Coherent'
  <1>1. Coherent /\ TypeOK /\ rd[r] \in ReadRow /\ InFlight(r)
    BY DEF CacheInv, TypeOK, Store, InFlight
  <1> DEFINE row == [rd[r] EXCEPT !.pc = "answer"]
             page == [list |-> rd[r].list, version |-> StoredVersion(r),
                      first |-> rd[r].first, second |-> rd[r].second]
  <1>2. /\ row \in ReadRow /\ rd' = [rd EXCEPT ![r] = row]
        /\ row.list = rd[r].list /\ row.version = rd[r].version
        /\ row.need = rd[r].need /\ row.pc = "answer"
        /\ row.first = rd[r].first /\ row.second = rd[r].second
    BY <1>1 DEF Store, ReadRow
  <1>3. /\ Owed(r) \subseteq rd[r].first \cap rd[r].second
        /\ rd[r].version <= ver[KeyOf(r)]
        /\ rd[r].version = ver[KeyOf(r)] => Owed(r) = Acked(KeyOf(r))
    BY <1>1 DEF Store, CacheInv, QueriesAreComplete, Owed, Coherent,
                RequestsAreCurrent
  <1>4. page.list = rd[r].list /\ page.version = rd[r].version
        /\ page.first = rd[r].first /\ page.second = rd[r].second
    BY DEF StoredVersion
  <1>5. cache' \subseteq cache \cup {page} /\ UNCHANGED <<ver, wr>>
    BY DEF Store
  <1> HIDE DEF row, page
  <1>6. /\ RequestsAreCurrent'
        /\ \A r1 \in Reader :
             /\ InFlight(r1) <=> InFlight(r1)'
             /\ KeyOf(r1)' = KeyOf(r1) /\ Owed(r1)' = Owed(r1)
             /\ rd'[r1].list = rd[r1].list
             /\ rd'[r1].version = rd[r1].version
    BY <1>1, <1>2, <1>3, <1>5, RequestMoves
  <1>7. VersionOf[page.list] = KeyOf(r)
    BY <1>4 DEF KeyOf
  <1>8. PagesBehindKeys'
    BY <1>1, <1>3, <1>4, <1>5, <1>7 DEF Coherent, PagesBehindKeys
  <1>9. PagesAreCurrent'
    BY <1>1, <1>3, <1>4, <1>5, <1>7
       DEF Coherent, PagesAreCurrent, Acked, Answered, CountedBy
  <1>10. RequestsAgree'
    <2>1. \A r1 \in Reader : InFlight(r1) /\ rd[r1].list = page.list
            /\ rd[r1].version = page.version
            => Owed(r1) \subseteq page.first \cap page.second
      <3>1. \A r1 \in Reader : rd[r1].list = page.list => KeyOf(r1) = KeyOf(r)
        BY <1>7 DEF KeyOf
      <3>2. QED
        BY <1>1, <1>3, <1>4, <3>1 DEF Coherent, RequestsAgree
    <2>2. QED
      BY <1>1, <1>5, <1>6, <2>1 DEF Coherent, RequestsAgree, SameKey
  <1>11. QED
    BY <1>6, <1>8, <1>9, <1>10 DEF Coherent

\* A request that ends, and a page that expires, only take away.
LEMMA EndStep ==
  ASSUME CacheInv, ~faulted, NEW r \in Reader, EndRead(r)
  PROVE  Coherent'
  <1>1. Coherent /\ TypeOK /\ UNCHANGED <<ver, cache, wr>>
    BY DEF CacheInv, EndRead
  <1>2. rd'[r].pc = "idle" /\ \A r1 \in Reader : r1 # r => rd'[r1] = rd[r1]
    BY <1>1 DEF EndRead, TypeOK, Request
  <1>3. \A k : Acked(k)' = Acked(k)
    BY <1>1 DEF Acked, Answered, CountedBy
  <1>4. PagesBehindKeys' /\ PagesAreCurrent'
    BY <1>1, <1>3 DEF Coherent, PagesBehindKeys, PagesAreCurrent
  <1>5. \A r1 \in Reader : InFlight(r1)' =>
          InFlight(r1) /\ rd'[r1] = rd[r1] /\ KeyOf(r1)' = KeyOf(r1)
                       /\ Owed(r1)' = Owed(r1)
    BY <1>1, <1>2 DEF InFlight, KeyOf, Owed, CountedBy
  <1>6. RequestsAreCurrent'
    BY <1>1, <1>3, <1>5 DEF Coherent, RequestsAreCurrent
  <1>7. RequestsAgree'
    BY <1>1, <1>5 DEF Coherent, RequestsAgree, SameKey
  <1>8. QED
    BY <1>4, <1>6, <1>7 DEF Coherent

\* Fewer pages, and nothing else: an expiry, or no step at all.
LEMMA ExpireStep ==
  ASSUME CacheInv, ~faulted, UNCHANGED <<ver, wr, rd>>, cache' \subseteq cache
  PROVE  Coherent'
  <1>1. Coherent
    BY DEF CacheInv
  <1>2. PagesBehindKeys' /\ PagesAreCurrent'
    BY <1>1 DEF Coherent, PagesBehindKeys, PagesAreCurrent, Acked, Answered,
                CountedBy
  <1>3. RequestsAreCurrent' /\ RequestsAgree'
    BY <1>1 DEF Coherent, RequestsAreCurrent, RequestsAgree, Acked, Answered,
                Owed, CountedBy, InFlight, KeyOf, SameKey
  <1>4. QED
    BY <1>2, <1>3 DEF Coherent

---------------------------------------------------------------------------
LEMMA InitCache ==
  ASSUME Init
  PROVE  CacheInv
  <1>1. \A r \in Reader : rd[r].pc = "idle" /\ rd[r] \in ReadRow
    <2> SUFFICES ASSUME NEW r \in Reader
                 PROVE  rd[r].pc = "idle" /\ rd[r] \in ReadRow
      OBVIOUS
    <2>1. PICK l \in Lists : rd[r] = Request("idle", l, 0, {})
      BY DEF Init
    <2>2. QED
      BY <2>1 DEF Request, ReadRow
  <1>2. rd \in [Reader -> ReadRow]
    BY <1>1 DEF Init
  <1>3. TypeOK
    BY <1>2 DEF Init, TypeOK, WriteRow
  <1>4. Coherent /\ QueriesAreComplete
    BY <1>1 DEF Init, Coherent, PagesBehindKeys, PagesAreCurrent,
                RequestsAreCurrent, RequestsAgree, InFlight,
                QueriesAreComplete
  <1>5. QED
    BY <1>3, <1>4 DEF CacheInv

LEMMA NextCache ==
  ASSUME CacheInv, [Next]_vars
  PROVE  CacheInv'
  <1>1. TypeOK' /\ QueriesAreComplete'
    BY TypeStep, QueriesStep DEF CacheInv
  <1> SUFFICES ASSUME ~faulted' PROVE Coherent'
    BY <1>1 DEF CacheInv
  <1>2. ~faulted
    BY DEF Next, Read, vars, Commit, Bump, Die, StartRead, Hit, Miss,
           QueryFirst, QuerySecond, Store, EndRead, Expire, EvictVersion
  <1>3. ASSUME NEW w \in Writer, Commit(w) \/ Bump(w) \/ Die(w)
        PROVE  Coherent'
    BY <1>2, <1>3, CommitStep, BumpStep
  <1>4. ASSUME NEW r \in Reader, Read(r)
        PROVE  Coherent'
    <2>1. CASE \E l \in Lists : StartRead(r, l)
      BY <1>2, <2>1, StartStep
    <2>2. CASE Miss(r) \/ QueryFirst(r) \/ QuerySecond(r) \/ Hit(r)
      BY <1>2, <2>2, QueryStep
    <2>3. CASE Store(r)
      BY <1>2, <2>3, StoreStep
    <2>4. CASE EndRead(r)
      BY <1>2, <2>4, EndStep
    <2>5. QED
      BY <1>4, <2>1, <2>2, <2>3, <2>4 DEF Read
  <1>5. ASSUME NEW e \in cache, Expire(e.list, e.version)
        PROVE  Coherent'
    BY <1>2, <1>5, ExpireStep DEF Expire
  <1>6. ASSUME NEW k \in VersionKeys, EvictVersion(k)
        PROVE  Coherent'
    BY <1>6 DEF EvictVersion
  <1>7. CASE UNCHANGED vars
    BY <1>2, <1>7, ExpireStep DEF vars
  <1>8. QED
    BY <1>3, <1>4, <1>5, <1>6, <1>7 DEF Next

(***************************************************************************)
(* CacheInv holds in every reachable state, whatever mutations, list       *)
(* requests, expiries and lost version keys interleave.                    *)
(***************************************************************************)
THEOREM CacheInvariant == Spec => []CacheInv
  <1>1. Init => CacheInv
    BY InitCache
  <1>2. CacheInv /\ [Next]_vars => CacheInv'
    BY NextCache
  <1>3. QED
    BY <1>1, <1>2, PTL DEF Spec

(***************************************************************************)
(* Of the mutations answered before a list request came in, a list that    *)
(* was queried misses none, whatever Redis did; an answer misses none that *)
(* increments the version key of the list, unless Redis lost or failed to  *)
(* serve a version key.  GetUserList, GetClientList, GetRoleList and their *)
(* siblings never store a page under a version that promises more than the *)
(* page; mutations that leave the version key alone are not promised.      *)
(***************************************************************************)
THEOREM ListsAreFresh == Spec => []ListsShowCountedWrites
  <1>1. CacheInv => ListsShowCountedWrites
    <2> SUFFICES ASSUME CacheInv, NEW r \in Reader
                 PROVE  /\ rd[r].pc = "store" => Missed(r) = {}
                        /\ ~faulted /\ rd[r].pc = "answer" =>
                             Missed(r) \cap CountedBy(KeyOf(r)) = {}
      BY DEF ListsShowCountedWrites
    <2>1. ASSUME rd[r].pc = "store"
          PROVE  Missed(r) = {}
      BY <2>1 DEF CacheInv, QueriesAreComplete, InFlight, Missed
    <2>2. ASSUME ~faulted, rd[r].pc = "answer"
          PROVE  Missed(r) \cap CountedBy(KeyOf(r)) = {}
      <3>1. Owed(r) \subseteq rd[r].first \cap rd[r].second
        BY <2>2 DEF CacheInv, Coherent, RequestsAreCurrent, InFlight
      <3>2. QED
        BY <3>1 DEF Owed, Missed
    <2>3. QED
      BY <2>1, <2>2
  <1>2. QED
    BY <1>1, CacheInvariant, PTL
=============================================================================
