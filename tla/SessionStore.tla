---------------------------- MODULE SessionStore ----------------------------
(***************************************************************************)
(* The store a program keeps its clients' sessions or login tokens in      *)
(* (src/src/sw_server.c): a table of entries, each named by the cookie     *)
(* given to one client, that expire, are evicted when the table is full,   *)
(* and are used through pointers into the table.                           *)
(*                                                                         *)
(* A client is a browser with several connections and one cookie.  Each    *)
(* request carries the cookie the browser had when it was sent; the handler *)
(* makes calls on the store, with the request's cookie, and reads and      *)
(* stores data in the entry its last call returned until it ends; the      *)
(* response may change the browser's cookie when it arrives, if it does.   *)
(*                                                                         *)
(* A handler runs to its end before its worker runs another one, and each  *)
(* call is one step here: the calls of two workers, which have no lock in  *)
(* the code, interleave only between calls.                                *)
(***************************************************************************)
EXTENDS Integers, Sequences, FiniteSets, Lists

CONSTANTS
  Client,          \* the browsers
  Link,            \* their connections
  Owner,           \* the browser of each connection
  Workers,         \* config.worker_count
  TTL,             \* config.ttl_seconds, in ticks
  MaxEntries,      \* config.max_sessions, config.max_tokens
  MaxCalls,        \* bound: calls on the store a handler makes
  MaxIds,          \* bound: entries ever made
  MaxTime          \* bound: ticks

ASSUME OwnerAssumption == Owner \in [Link -> Client]
ASSUME LimitAssumption == {Workers, TTL, MaxEntries} \subseteq Nat \ {0}
ASSUME BoundAssumption == {MaxCalls, MaxIds, MaxTime} \subseteq Nat

NoId == 0          \* no cookie, or a cookie the response clears
Keep == -1         \* the response says nothing about the cookie
Foreign == -2      \* a cookie that this store never gave

VARIABLES
  kind,            \* what the store is of: "session" or "token"
  now,             \* sw_now_ms, in ticks
  entries,         \* sessions->sessions, tokens->tokens
  made,            \* the entries ever made; the last one's identity
  evicted,         \* history: the entries evicted
  ended,           \* history: the entries ended, logged out or replaced
  cookie,          \* each browser's cookie: the entry, and when it was set
  link             \* each connection's request and its handler

vars == <<kind, now, entries, made, evicted, ended, cookie, link>>

Idle == [at |-> "idle", sent |-> NoId, calls |-> 0, entry |-> 0, given |-> NoId,
         reply |-> Keep, issued |-> 0]

NoCookie == [id |-> NoId, issued |-> 0, until |-> 0]

Ids(s) == {s[i].id : i \in DOMAIN s}

-----------------------------------------------------------------------------
(* The table.                                                               *)

\* Mutant: an entry is good at its deadline.
ExpiredLate(e) == e.expires < now

Expired(e) == e.expires <= now

\* sw_sessions_cleanup_expired, sw_tokens_cleanup_expired
CleanUp(s) == Kept(s, {i \in DOMAIN s : ~Expired(s[i])})

\* sw_sessions_find_id, sw_tokens_find_id; 0 is NULL.
Find(s, id) ==
  IF id \in Ids(s) THEN CHOOSE i \in DOMAIN s : s[i].id = id ELSE 0

Without(s, id) == Kept(s, {i \in DOMAIN s : s[i].id # id})

\* Mutant: the entry touched last is evicted.
OldestNewest(s) ==
  CHOOSE i \in DOMAIN s : \A j \in DOMAIN s : s[i].touched >= s[j].touched

\* The first of the entries not touched for longest.
Oldest(s) ==
  CHOOSE i \in DOMAIN s :
    \A j \in DOMAIN s :
      s[i].touched < s[j].touched \/ (s[i].touched = s[j].touched /\ i <= j)

\* sw_sessions_evict_oldest, sw_tokens_evict_oldest
Evict(s) == Kept(s, DOMAIN s \ {Oldest(s)})

\* Mutant: the limit is passed before anything is evicted.
MakeRoomLate(s) == IF Len(s) > MaxEntries THEN Evict(s) ELSE s

\* Entries are evicted while the table is full: it never holds more than its limit.
MakeRoom(s) == IF Len(s) >= MaxEntries THEN Evict(s) ELSE s

NewId == made + 1

\* Mutant: an entry's deadline is not moved when it is used.
TouchedOnly(s, i) == [s EXCEPT ![i].touched = now]

Touched(s, i) == [s EXCEPT ![i].touched = now, ![i].expires = now + TTL]

Added(s) ==
  Append(s, [id |-> NewId, touched |-> now, expires |-> now + TTL])

-----------------------------------------------------------------------------
(* The calls.  Each has the set of its outcomes: the table, the entry it    *)
(* returns and the cookie it queues for the response.  No cookie can be set *)
(* once the response has begun, or memory is short.                         *)

Outcome(s, entry, reply) == [entries |-> s, entry |-> entry, reply |-> reply]

\* A new entry is made, or room is made for it and no identity, memory or cookie is
\* to be had.
Make(s) ==
  LET room == MakeRoom(CleanUp(s))
  IN  {Outcome(room, 0, Keep), Outcome(Added(room), Len(room) + 1, NewId)}

\* sw_sessions_start
Start(id) ==
  LET s == CleanUp(entries)
      i == Find(s, id)
  IN  IF i = 0 THEN Make(s)
      ELSE {Outcome(Touched(s, i), i, id), Outcome(Touched(s, i), 0, Keep)}

\* The table an entry is sought in.  A foreign cookie may be refused before the table
\* is cleaned up, when it is not even a well-formed name.
Searched(id) == {CleanUp(entries)} \union (IF id = Foreign THEN {entries} ELSE {})

\* sw_sessions_find
Look(id) == {Outcome(s, Find(s, id), Keep) : s \in Searched(id)}

\* Mutant: the token of the request stays good after a login.
ReplacedNot(id) == entries

\* The token of the request goes, before anything else is tried.
Replaced(id) == Without(entries, id)

\* sw_tokens_login
Login(id) == Make(Replaced(id))

\* sw_tokens_current, with a connection or without.
Current(id) ==
  LET s == CleanUp(entries)
      i == Find(s, id)
  IN  IF i = 0
      THEN {Outcome(t, 0, reply) : t \in Searched(id),
                                   reply \in IF id = NoId THEN {Keep} ELSE {NoId, Keep}}
      ELSE {Outcome(Touched(s, i), i, id), Outcome(Touched(s, i), i, Keep),
            Outcome(Touched(s, i), 0, Keep)}

\* sw_sessions_end, sw_tokens_logout
End(id) == {Outcome(Without(entries, id), 0, reply) : reply \in {NoId, Keep}}

Outcomes(name, id) ==
  CASE name = "start" -> Start(id)
    [] name = "find" -> Look(id)
    [] name = "login" -> Login(id)
    [] name = "current" -> Current(id)
    [] name = "end" -> End(id)

Calls == IF kind = "session" THEN {"start", "find", "end"} ELSE {"login", "current", "end"}

-----------------------------------------------------------------------------

Init ==
  /\ kind \in {"session", "token"}
  /\ now = 0
  /\ entries = <<>>
  /\ made = 0 /\ evicted = {} /\ ended = {}
  /\ cookie = [c \in Client |-> NoCookie]
  /\ link = [k \in Link |-> Idle]

\* A browser sends a request, with its cookie unless the cookie's Max-Age has passed,
\* or with one of another server's, of an earlier run's or of its own making.
Send(k) ==
  /\ link[k].at = "idle"
  /\ LET jar == cookie[Owner[k]]
     IN  \E id \in {Foreign, IF now < jar.until THEN jar.id ELSE NoId} :
           link' = [link EXCEPT ![k].at = "sent", ![k].sent = id]
  /\ UNCHANGED <<kind, now, entries, made, evicted, ended, cookie>>

Handling == {k \in Link : link[k].at = "handling"}

Begin(k) ==
  /\ link[k].at = "sent"
  /\ Cardinality(Handling) < Workers
  /\ link' = [link EXCEPT ![k].at = "handling"]
  /\ UNCHANGED <<kind, now, entries, made, evicted, ended, cookie>>

\* Of the cookies queued for a response, the browser keeps the last.
Call(k, name) ==
  /\ link[k].at = "handling"
  /\ link[k].calls < MaxCalls
  /\ name \in Calls
  /\ ended' = IF name \in {"login", "end"} THEN ended \union ({link[k].sent} \ {NoId, Foreign}) ELSE ended
  /\ \E o \in Outcomes(name, link[k].sent) :
       /\ o.reply <= MaxIds
       /\ entries' = o.entries
       /\ made' = IF o.reply = NewId THEN NewId ELSE made
       /\ evicted' = evicted \union ((Ids(CleanUp(entries)) \ Ids(o.entries)) \ ended')
       /\ link' = [link EXCEPT ![k].calls = @ + 1, ![k].entry = o.entry,
                               ![k].given = IF o.entry \in DOMAIN o.entries
                                              THEN o.entries[o.entry].id ELSE NoId,
                               ![k].reply = IF o.reply = Keep THEN @ ELSE o.reply,
                               ![k].issued = IF o.reply = Keep THEN @ ELSE now]
  /\ UNCHANGED <<kind, now, cookie>>

\* A response that says nothing about the cookie is of no further interest.
Respond(k) ==
  /\ link[k].at = "handling"
  /\ link' = [link EXCEPT ![k] =
       IF @.reply = Keep THEN Idle
       ELSE [@ EXCEPT !.at = "answered", !.sent = NoId, !.calls = 0, !.entry = 0, !.given = NoId]]
  /\ UNCHANGED <<kind, now, entries, made, evicted, ended, cookie>>

\* The response arrives; the cookie's Max-Age begins then.
Deliver(k) ==
  /\ link[k].at = "answered"
  /\ cookie' = [cookie EXCEPT ![Owner[k]] =
       IF link[k].reply = NoId THEN NoCookie
       ELSE [id |-> link[k].reply, issued |-> link[k].issued, until |-> now + TTL]]
  /\ link' = [link EXCEPT ![k] = Idle]
  /\ UNCHANGED <<kind, now, entries, made, evicted, ended>>

\* The connection breaks, and the response with it.
Lose(k) ==
  /\ link[k].at = "answered"
  /\ link' = [link EXCEPT ![k] = Idle]
  /\ UNCHANGED <<kind, now, entries, made, evicted, ended, cookie>>

Tick ==
  /\ now < MaxTime
  /\ now' = now + 1
  /\ UNCHANGED <<kind, entries, made, evicted, ended, cookie, link>>

Next ==
  \/ \E k \in Link :
       \/ Send(k) \/ Begin(k) \/ Respond(k) \/ Deliver(k) \/ Lose(k)
       \/ \E name \in Calls : Call(k, name)
  \/ Tick

Spec == Init /\ [][Next]_vars
-----------------------------------------------------------------------------

TypeOK ==
  /\ kind \in {"session", "token"} /\ now \in 0 .. MaxTime
  /\ \A i \in DOMAIN entries :
       /\ entries[i].id \in 1 .. made
       /\ entries[i].touched \in 0 .. now
       /\ entries[i].expires \in 0 .. now + TTL
  /\ Len(entries) <= MaxEntries
  /\ made \in 0 .. MaxIds
  /\ evicted \union ended \subseteq 1 .. made
  /\ \A c \in Client : cookie[c].id \in 0 .. made
  /\ \A k \in Link :
       /\ link[k].at \in {"idle", "sent", "handling", "answered"}
       /\ link[k].sent \in {Foreign} \union 0 .. made
       /\ link[k].calls \in 0 .. MaxCalls
       /\ link[k].reply \in Keep .. made

\* The pointer a handler was given points to the entry it was given for, as long as
\* the handler runs, so that what it reads and stores there is its client's: the
\* table's removals and insertions move no entry under a pointer in use.
Private ==
  /\ \A k \in Handling :
       link[k].entry # 0 =>
         /\ link[k].entry \in DOMAIN entries
         /\ entries[link[k].entry].id = link[k].given

\* A cookie is good for as long as it says: until ttl_seconds after it was issued its
\* entry is in the table, unless it was evicted for a newer one, ended or replaced.
CookieHonoured ==
  \A c \in Client :
    cookie[c].id # NoId /\ now < cookie[c].issued + TTL =>
      cookie[c].id \in Ids(entries) \union evicted \union ended

\* A session ended, and a token logged out or replaced by a login, never comes back,
\* whichever requests and responses with its cookie are still under way.
EndedForGood == ended \intersect Ids(entries) = {}

\* No call returns an entry past its deadline.
GivenInTime ==
  [][\A k \in Link :
       link'[k].calls > link[k].calls /\ link'[k].entry # 0 =>
         entries'[link'[k].entry].expires > now]_vars

\* An entry that has not expired and was not ended leaves the table only when all of
\* the table is such entries and none of them was touched earlier.
EvictsOldest ==
  [][LET held == {i \in DOMAIN entries : entries[i].expires > now /\ entries[i].id \notin ended'}
     IN  \A i \in held :
           \/ entries[i].id \in Ids(entries')
           \/ /\ Cardinality(held) = MaxEntries
              /\ \A j \in held : entries[i].touched <= entries[j].touched]_vars
=============================================================================
