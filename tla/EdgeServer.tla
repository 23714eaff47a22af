----------------------------- MODULE EdgeServer -----------------------------
(***************************************************************************)
(* edge-server.ts in front of the bucket: a process that keeps every       *)
(* object it has got, for good. Assets have their content in their name    *)
(* (content-hash.ts); the edge also serves keys that have not. Contents    *)
(* are numbers.                                                            *)
(***************************************************************************)
EXTENDS Integers

CONSTANTS
  Contents,  \* of assets
  Plain,     \* keys that say nothing about their content
  Gets,      \* requests
  NoBody     \* no object, no cached object

VARIABLES
  stored,  \* stored[k]: the content under key k
  cache,   \* cache[k]: the content the edge keeps for k
  get,     \* get[g]: the await of a request, its key, and its body
  raced    \* history: keys for which the edge has asked twice at a time

edgeVars == <<stored, cache, get, raced>>

\* Mutation of ContentHashedName: the name of the file alone.
FileName(content) == <<"app", "css">>

ContentHashedName(content) == <<"app", content, "css">>

Keys == Plain \cup {ContentHashedName(n) : n \in Contents}

Unasked == [at |-> "unasked", key |-> 0, body |-> NoBody]

EdgeInit ==
  /\ stored = [k \in Keys |-> NoBody]
  /\ cache = [k \in Keys |-> NoBody]
  /\ get = [g \in Gets |-> Unasked]
  /\ raced = {}

-----------------------------------------------------------------------------
UploadAsset(content) ==
  /\ stored' = [stored EXCEPT ![ContentHashedName(content)] = content]
  /\ UNCHANGED <<cache, get, raced>>

(***************************************************************************)
(* Any other object of the bucket, such as an upload.                      *)
(***************************************************************************)
Overwrite(k, content) ==
  /\ k \in Plain
  /\ stored' = [stored EXCEPT ![k] = content]
  /\ UNCHANGED <<cache, get, raced>>

DeleteAsset(k) ==
  /\ stored[k] # NoBody
  /\ stored' = [stored EXCEPT ![k] = NoBody]
  /\ UNCHANGED <<cache, get, raced>>

Asking(k) == {g \in Gets : get[g].at \in {"get", "body"} /\ get[g].key = k}

(***************************************************************************)
(* Up to GetObject: a HIT is answered at once.                             *)
(***************************************************************************)
Request(g, k) ==
  /\ get[g] = Unasked
  /\ get' = [get EXCEPT ![g] = [at |-> IF cache[k] = NoBody THEN "get" ELSE "ok",
                                key |-> k, body |-> cache[k]]]
  /\ raced' = IF cache[k] = NoBody /\ Asking(k) # {} THEN raced \cup {k} ELSE raced
  /\ UNCHANGED <<stored, cache>>

(***************************************************************************)
(* The storage answers; without an object, or when the call fails, the     *)
(* edge says 404 and keeps nothing.                                        *)
(***************************************************************************)
GetObject(g) ==
  LET body == stored[get[g].key] IN
  /\ get[g].at = "get"
  /\ \/ body # NoBody /\ get' = [get EXCEPT ![g].at = "body", ![g].body = body]
     \/ get' = [get EXCEPT ![g].at = "404"]
  /\ UNCHANGED <<stored, cache, raced>>

\* Mutation of Keep: cache.set is missing.
KeepNothing(g) ==
  /\ get[g].at = "body"
  /\ get' = [get EXCEPT ![g].at = "ok"]
  /\ UNCHANGED <<stored, cache, raced>>

(***************************************************************************)
(* The bytes are there: cache.set, whatever the cache has by now.          *)
(***************************************************************************)
Keep(g) ==
  /\ get[g].at = "body"
  /\ cache' = [cache EXCEPT ![get[g].key] = get[g].body]
  /\ get' = [get EXCEPT ![g].at = "ok"]
  /\ UNCHANGED <<stored, raced>>

(***************************************************************************)
(* The bytes do not come.                                                  *)
(***************************************************************************)
LoseBody(g) ==
  /\ get[g].at = "body"
  /\ get' = [get EXCEPT ![g] = [@ EXCEPT !.at = "404", !.body = NoBody]]
  /\ UNCHANGED <<stored, cache, raced>>

EdgeNext ==
  \/ \E n \in Contents : UploadAsset(n)
  \/ \E k \in Plain, n \in Contents : Overwrite(k, n)
  \/ \E k \in Keys : DeleteAsset(k)
  \/ \E g \in Gets, k \in Keys : Request(g, k)
  \/ \E g \in Gets : GetObject(g) \/ Keep(g) \/ LoseBody(g)

EdgeSpec == EdgeInit /\ [][EdgeNext]_edgeVars

-----------------------------------------------------------------------------
Answered(g, k) == get[g].at = "ok" /\ get[g].key = k

(***************************************************************************)
(* All requests for a key that get an answer get the same, although        *)
(* objects are replaced and deleted meanwhile. A key without a hash is an  *)
(* exception if the edge asked for it twice at a time: then the older body *)
(* may be the one that is kept.                                            *)
(***************************************************************************)
SameAnswerUnlessRaced ==
  \A g, h \in Gets, k \in Keys \ (raced \cap Plain) :
    Answered(g, k) /\ Answered(h, k) => get[g].body = get[h].body

=============================================================================
