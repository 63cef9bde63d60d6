------------------------- MODULE PasskeyCeremonies -------------------------
(***************************************************************************)
(* The passkey ceremonies of one account on the server                     *)
(* (passkey_service.go).  A challenge is kept twice, in Redis and in the   *)
(* memory of the process, one for each kind of ceremony, and taken back by *)
(* the first answer: read from Redis, else from memory, then deleted from  *)
(* one and from the other.  Errors of Redis are dropped, several requests  *)
(* do this at the same time, the process may restart.                      *)
(***************************************************************************)
EXTENDS AccountData, Naturals

VARIABLES
  drawn,    \* by challenge, the kind of ceremony it was drawn for
  told,     \* the challenges sent to a browser
  redis,    \* by kind, the copy in Redis
  memory,   \* by kind, the copy in the process
  passkeys, \* the rows of type passkey, counted by the challenge the new
            \* passkey answered
  req,      \* the requests
  over,     \* what users were told is over: challenges answered, passkeys
            \* removed
  slipped   \* the challenges Redis failed to delete, the passkeys that came
            \* back or were stored twice

vars == <<drawn, told, redis, memory, passkeys, req, over, slipped>>

Kinds == {"_reg", "_auth"}

\* Bound: rows of one passkey.
MaxRows == 2

Things == {"challenge", "passkey"} \X Challenges

\* A request: the step it comes to; its ceremony, challenge and, for a sign-in,
\* passkey; which of those were over when it was made; whether they fit what
\* it has read so far.
NoRequest == [pc |-> "none", kind |-> "_reg", of |-> None, by |-> None,
              late |-> {}, fits |-> TRUE]

TypeOK ==
  /\ drawn \in [Challenges -> Kinds \cup {None}] /\ told \subseteq Challenges
  /\ redis \in [Kinds -> Challenges \cup {None}]
  /\ memory \in [Kinds -> Challenges \cup {None}]
  /\ passkeys \in [Challenges -> 0..MaxRows]
  /\ req \in [Requests ->
       [pc : {"none", "set", "store", "user", "get", "unset", "forget", "save",
              "accepted"},
        kind : Kinds, of : Challenges \cup {None}, by : Challenges \cup {None},
        late : SUBSET Things, fits : BOOLEAN]]
  /\ over \subseteq Things /\ slipped \subseteq Things

Init ==
  /\ drawn = [c \in Challenges |-> None] /\ told = {}
  /\ redis = [n \in Kinds |-> None] /\ memory = [n \in Kinds |-> None]
  /\ passkeys = [c \in Challenges |-> 0]
  /\ req = [r \in Requests |-> NoRequest]
  /\ over = {} /\ slipped = {}

Stored == {c \in Challenges : passkeys[c] > 0}
Comes(r, pc) == req' = [req EXCEPT ![r].pc = pc]
Ends(r) == req' = [req EXCEPT ![r] = NoRequest]

---------------------------------------------------------------------------
(***************************************************************************)
(* Begin, with the next challenge; a sign-in needs a passkey (go-webauthn). *)
(***************************************************************************)
Begin(r, kind, c) ==
  /\ req[r] = NoRequest
  /\ drawn[c] = None /\ c = CHOOSE d \in Challenges : drawn[d] = None
  /\ kind = "_auth" => Stored # {}
  /\ drawn' = [drawn EXCEPT ![c] = kind]
  /\ req' = [req EXCEPT ![r].pc = "set", ![r].kind = kind, ![r].of = c]
  /\ UNCHANGED <<told, redis, memory, passkeys, over, slipped>>

\* setSessionData: an error of Redis leaves the challenge that was there.
SetRedis(r) ==
  /\ req[r].pc = "set"
  /\ \/ redis' = [redis EXCEPT ![req[r].kind] = req[r].of]
     \/ UNCHANGED redis
  /\ Comes(r, "store")
  /\ UNCHANGED <<drawn, told, memory, passkeys, over, slipped>>

StoreMemory(r) ==
  /\ req[r].pc = "store"
  /\ memory' = [memory EXCEPT ![req[r].kind] = req[r].of]
  /\ told' = told \cup {req[r].of}
  /\ Ends(r)
  /\ UNCHANGED <<drawn, redis, passkeys, over, slipped>>

---------------------------------------------------------------------------
(***************************************************************************)
(* Finish.  The browser answers a challenge it was sent, as often as it    *)
(* likes: with a new passkey, or with one the account has or had.          *)
(***************************************************************************)
Shown(kind, c, k) ==
  {<<"challenge", c>>} \cup (IF kind = "_auth" THEN {<<"passkey", k>>} ELSE {})

Finish(r, c, k) ==
  /\ req[r] = NoRequest /\ c \in told
  /\ IF drawn[c] = "_reg" THEN k = None
     ELSE k \in Stored \/ <<"passkey", k>> \in over
  /\ req' = [req EXCEPT ![r] =
       [NoRequest EXCEPT !.pc = "user", !.kind = drawn[c], !.of = c, !.by = k,
                         !.late = Shown(drawn[c], c, k) \cap over]]
  /\ UNCHANGED <<drawn, told, redis, memory, passkeys, over, slipped>>

\* buildPasskeyUser
ReadPasskeys(r) ==
  /\ req[r].pc = "user"
  /\ req' = [req EXCEPT ![r].pc = "get",
                        ![r].fits = req[r].kind = "_auth" => req[r].by \in Stored]
  /\ UNCHANGED <<drawn, told, redis, memory, passkeys, over, slipped>>

\* getSessionData: a miss or an error of Redis asks the memory.
Get(r) ==
  /\ req[r].pc = "get"
  /\ \E up \in BOOLEAN :
       LET c == IF up /\ redis[req[r].kind] # None THEN redis[req[r].kind]
                ELSE memory[req[r].kind]
       IN  IF c = None THEN Ends(r)
           ELSE req' = [req EXCEPT ![r].pc = "unset", ![r].fits = @ /\ c = req[r].of]
  /\ UNCHANGED <<drawn, told, redis, memory, passkeys, over, slipped>>

\* deleteSessionData: what Redis fails to delete stays there, unnoticed.
Unset(r) ==
  /\ req[r].pc = "unset"
  /\ \/ redis' = [redis EXCEPT ![req[r].kind] = None] /\ UNCHANGED slipped
     \/ /\ redis[req[r].kind] # None /\ UNCHANGED redis
        /\ slipped' = slipped \cup {<<"challenge", redis[req[r].kind]>>}
  /\ Comes(r, "forget")
  /\ UNCHANGED <<drawn, told, memory, passkeys, over>>

WithoutKept(kind) == memory
Without(kind) == [memory EXCEPT ![kind] = None]

\* Then go-webauthn wants an answer to the challenge that was read, by a
\* passkey that was read.
Forget(r) ==
  /\ req[r].pc = "forget"
  /\ memory' = Without(req[r].kind)
  /\ IF req[r].fits THEN Comes(r, "save") ELSE Ends(r)
  /\ UNCHANGED <<drawn, told, redis, passkeys, over, slipped>>

\* InsertPasskey: no constraint keeps a second row away.
InsertPasskey(r) ==
  /\ req[r].pc = "save" /\ req[r].kind = "_reg"
  /\ LET c == req[r].of
     IN  /\ passkeys[c] < MaxRows
         /\ passkeys' = [passkeys EXCEPT ![c] = @ + 1]
         /\ slipped' = IF c \in Stored \/ <<"passkey", c>> \in over
                       THEN slipped \cup {<<"passkey", c>>} ELSE slipped
  /\ Comes(r, "accepted")
  /\ UNCHANGED <<drawn, told, redis, memory, over>>

\* The row of a passkey removed meanwhile is not missed.
UpdatePasskeySignCount(r) ==
  /\ req[r].pc = "save" /\ req[r].kind = "_auth"
  /\ Comes(r, "accepted")
  /\ UNCHANGED <<drawn, told, redis, memory, passkeys, over, slipped>>

\* A statement failed, or the caller left.
Fails(r) ==
  /\ req[r].pc \in {"user", "save"}
  /\ Ends(r)
  /\ UNCHANGED <<drawn, told, redis, memory, passkeys, over, slipped>>

\* The user learns that it was accepted.
Answer(r) ==
  /\ req[r].pc = "accepted"
  /\ over' = over \cup {<<"challenge", req[r].of>>}
  /\ Ends(r)
  /\ UNCHANGED <<drawn, told, redis, memory, passkeys, slipped>>

---------------------------------------------------------------------------
\* RemoveAuthenticator, of one row.
RemovePasskey(c) ==
  /\ c \in Stored
  /\ passkeys' = [passkeys EXCEPT ![c] = @ - 1]
  /\ over' = IF passkeys[c] = 1 THEN over \cup {<<"passkey", c>>} ELSE over
  /\ UNCHANGED <<drawn, told, redis, memory, req, slipped>>

\* Five minutes, or an eviction.
RedisForgets(kind) ==
  /\ redis[kind] # None /\ redis' = [redis EXCEPT ![kind] = None]
  /\ UNCHANGED <<drawn, told, memory, passkeys, req, over, slipped>>

\* Five minutes.
MemoryForgets(kind) ==
  /\ memory[kind] # None /\ memory' = [memory EXCEPT ![kind] = None]
  /\ UNCHANGED <<drawn, told, redis, passkeys, req, over, slipped>>

Restart ==
  /\ memory' = [n \in Kinds |-> None]
  /\ req' = [r \in Requests |-> NoRequest]
  /\ UNCHANGED <<drawn, told, redis, passkeys, over, slipped>>

Next ==
  \/ \E r \in Requests :
       \/ \E n \in Kinds, c \in Challenges : Begin(r, n, c)
       \/ \E c \in Challenges, k \in Challenges \cup {None} : Finish(r, c, k)
       \/ SetRedis(r) \/ StoreMemory(r) \/ ReadPasskeys(r) \/ Get(r) \/ Unset(r)
       \/ Forget(r) \/ InsertPasskey(r)
       \/ UpdatePasskeySignCount(r) \/ Fails(r) \/ Answer(r)
  \/ \E c \in Challenges : RemovePasskey(c)
  \/ \E n \in Kinds : RedisForgets(n) \/ MemoryForgets(n)
  \/ Restart

Spec == Init /\ [][Next]_vars

---------------------------------------------------------------------------
\* Once the user was told that a challenge was answered, or a passkey removed,
\* no answer sent later is accepted with it, although the challenge is kept in
\* two places and taken back without a lock: unless Redis failed to delete it,
\* or the passkey was stored twice.
OverIsRefused ==
  \A r \in Requests : req[r].pc = "accepted" => req[r].late \subseteq slipped
=============================================================================
