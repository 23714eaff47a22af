-------------------------- MODULE MultipartUploads --------------------------
(***************************************************************************)
(* multipart.ts, as the processes of demo-multipart.ts use it: each cleans *)
(* up, uploads its file in parts under the one key, finds out with         *)
(* ListParts what is there, uploads what is missing, completes, and cleans *)
(* up again, whatever has failed. clean() aborts every upload of the       *)
(* bucket, those of other processes too, and deletes the object. A part    *)
(* that is put again has the same bytes, and so the same ETag: ETags are   *)
(* left out. ListMultipartUploads is taken to give all uploads at once.    *)
(***************************************************************************)
EXTENDS Integers, FiniteSets, FiniteSetsExt

CONSTANTS
  Clients,      \* processes of demo-multipart.ts, each with one multipart upload
  FileSizes,
  MinPartSize,  \* MIN_PART_SIZE
  MaxParts,     \* MAX_PARTS
  PageSize,     \* parts in an answer to ListParts
  MaxLosses,    \* bound: calls of the storage that fail, and processes that die
  NoObject

ASSUME MultipartAssumption ==
  /\ FileSizes \subseteq Nat \ {0} /\ MinPartSize \in Nat \ {0} /\ MaxParts \in Nat \ {0}
  /\ PageSize \in Nat \ {0} /\ MaxLosses \in Nat

VARIABLES
  client,   \* client[c]: its step, the size of its file, parts it has to put, parts it has listed
  open,     \* clients whose upload is in progress in the storage
  parts,    \* parts[c]: the parts of the upload of c that the storage has
  whole,    \* the object under the key: its client and the parts it was made of
  cleaner,  \* cleaner[c]: the await of clean(), what it listed, what it has still to abort
  made,     \* history: clients whose upload has become the object
  aborted,  \* history: aborted[c], the uploads that clean() of c has aborted
  losses    \* bounded: failed calls and dead processes

multipartVars == <<client, open, parts, whole, cleaner, made, aborted, losses>>

CeilDiv(a, b) == (a + b - 1) \div b

\* Mutation of CalculatePartSize: every part has the smallest size.
MinimalPartSize(size) == MinPartSize

CalculatePartSize(size) ==
  LET byPartLimit == CeilDiv(size, MaxParts) IN
  IF byPartLimit > MinPartSize THEN byPartLimit ELSE MinPartSize

PartsOf(size) == 1..CeilDiv(size, CalculatePartSize(size))

MultipartInit ==
  /\ client = [c \in Clients |-> [at |-> "first", size |-> 0, todo |-> {}, listed |-> {}]]
  /\ open = {}
  /\ parts = [c \in Clients |-> {}]
  /\ whole = NoObject
  /\ cleaner = [c \in Clients |-> [at |-> "idle", listed |-> {}, left |-> {}]]
  /\ made = {}
  /\ aborted = [c \in Clients |-> {}]
  /\ losses = 0

Advance(c, label) == client' = [client EXCEPT ![c].at = label]

-----------------------------------------------------------------------------
(***************************************************************************)
(* createMultipartUpload; the client will break off after n parts, and     *)
(* resume.                                                                 *)
(***************************************************************************)
CreateMultipartUpload(c, size, n) ==
  /\ client[c].at = "new"
  /\ 1..n \subseteq PartsOf(size)
  /\ client' = [client EXCEPT ![c] = [@ EXCEPT !.at = "put", !.size = size, !.todo = 1..n]]
  /\ open' = open \cup {c}
  /\ UNCHANGED <<parts, whole, cleaner, made, aborted, losses>>

(***************************************************************************)
(* createPartUrl and the PUT of the next part, which fails when the upload *)
(* has been aborted.                                                       *)
(***************************************************************************)
PutPart(c) ==
  /\ client[c].at \in {"put", "resume"} /\ client[c].todo # {}
  /\ LET p == Min(client[c].todo) IN
     \/ /\ c \in open
        /\ parts' = [parts EXCEPT ![c] = @ \cup {p}]
        /\ client' = [client EXCEPT ![c].todo = @ \ {p}]
     \/ c \notin open /\ Advance(c, "last") /\ UNCHANGED parts
  /\ UNCHANGED <<open, whole, cleaner, made, aborted, losses>>

\* Mutation of ListUploadedParts: the page starts with the second part.
ListFromSecond(c) == {p \in parts[c] : Cardinality({q \in parts[c] : q < p}) \in 1..PageSize}

(***************************************************************************)
(* listUploadedParts: the first page, in the order of the part numbers.    *)
(***************************************************************************)
ListUploadedParts(c) == {p \in parts[c] : Cardinality({q \in parts[c] : q < p}) < PageSize}

Resume(c) ==
  /\ client[c].at = "put" /\ client[c].todo = {}
  /\ IF c \in open
       THEN client' = [client EXCEPT
              ![c].at = "resume",
              ![c].todo = PartsOf(client[c].size) \ ListUploadedParts(c)]
       ELSE Advance(c, "last")
  /\ UNCHANGED <<open, parts, whole, cleaner, made, aborted, losses>>

(***************************************************************************)
(* completeMultipartUpload, first half: it wants at least one part.        *)
(***************************************************************************)
ListForComplete(c) ==
  /\ client[c].at = "resume" /\ client[c].todo = {}
  /\ IF c \in open /\ ListUploadedParts(c) # {}
       THEN client' = [client EXCEPT ![c].at = "complete", ![c].listed = ListUploadedParts(c)]
       ELSE Advance(c, "last")
  /\ UNCHANGED <<open, parts, whole, cleaner, made, aborted, losses>>

MakeObject(c) ==
  /\ c \in open
  /\ whole' = [by |-> c, parts |-> client[c].listed]
  /\ open' = open \ {c}
  /\ made' = made \cup {c}

CompleteMultipartUpload(c) ==
  /\ client[c].at = "complete"
  /\ \/ MakeObject(c) /\ Advance(c, "last")
     \/ c \notin open /\ Advance(c, "last") /\ UNCHANGED <<whole, open, made>>
  /\ UNCHANGED <<parts, cleaner, aborted, losses>>

(***************************************************************************)
(* A call of the storage fails, or its answer gets lost: the process goes  *)
(* on with clean(), or it dies, and leaves its upload where it is.         *)
(***************************************************************************)
CallFails == losses < MaxLosses /\ losses' = losses + 1

ClientFails(c) ==
  /\ CallFails
  /\ client[c].at \in {"new", "put", "resume", "complete"}
  /\ Advance(c, "last") \/ Advance(c, "dead")
  /\ \/ UNCHANGED <<open, whole, made>>
     \/ client[c].at = "new" /\ open' = open \cup {c} /\ UNCHANGED <<whole, made>>
     \/ client[c].at = "complete" /\ MakeObject(c)
  /\ UNCHANGED <<parts, cleaner, aborted>>

-----------------------------------------------------------------------------
(***************************************************************************)
(* cleanupMultipartUploads: one list, then one abort after the other. A    *)
(* process calls clean() first of all, and last of all.                    *)
(***************************************************************************)
ListUploads(c) ==
  /\ client[c].at \in {"first", "last"} /\ cleaner[c].at # "abort"
  /\ cleaner' = [cleaner EXCEPT ![c] = [at |-> "abort", listed |-> open, left |-> open]]
  /\ UNCHANGED <<client, open, parts, whole, made, aborted, losses>>

\* Mutation of AbortUpload: an error of the storage ends the loop quietly.
AbortOrGiveUp(c, u) ==
  /\ cleaner[c].at = "abort" /\ u \in cleaner[c].left
  /\ cleaner' = [cleaner EXCEPT ![c].left = IF u \in open THEN @ \ {u} ELSE {}]
  /\ open' = open \ {u}
  /\ aborted' = [aborted EXCEPT ![c] = @ \cup ({u} \cap open)]
  /\ UNCHANGED <<client, parts, whole, made, losses>>

(***************************************************************************)
(* abortMultipartUpload throws when the upload is not there any more,      *)
(* completed by its client or aborted by another process, and main ends.   *)
(***************************************************************************)
AbortUpload(c, u) ==
  /\ cleaner[c].at = "abort" /\ u \in cleaner[c].left
  /\ \/ /\ u \in open
        /\ open' = open \ {u}
        /\ aborted' = [aborted EXCEPT ![c] = @ \cup {u}]
        /\ cleaner' = [cleaner EXCEPT ![c].left = @ \ {u}]
        /\ UNCHANGED client
     \/ /\ u \notin open
        /\ cleaner' = [cleaner EXCEPT ![c].at = "failed"]
        /\ Advance(c, "over")
        /\ UNCHANGED <<open, aborted>>
  /\ UNCHANGED <<parts, whole, made, losses>>

(***************************************************************************)
(* deleteDemoObject, when every abort has succeeded: clean() returns, even *)
(* if the object could not be deleted.                                     *)
(***************************************************************************)
DeleteDemoObject(c) ==
  /\ cleaner[c].at = "abort" /\ cleaner[c].left = {}
  /\ cleaner' = [cleaner EXCEPT ![c].at = "done"]
  /\ Advance(c, IF client[c].at = "first" THEN "new" ELSE "over")
  /\ \/ whole' = NoObject /\ UNCHANGED losses
     \/ CallFails /\ UNCHANGED whole
  /\ UNCHANGED <<open, parts, made, aborted>>

(***************************************************************************)
(* Any call of clean() before the last one fails, and main ends, or the    *)
(* process dies. An abort without an answer may have taken effect.         *)
(***************************************************************************)
CleanupFails(c) ==
  /\ client[c].at \in {"first", "last"} /\ cleaner[c].at \in {"idle", "abort", "done"}
  /\ CallFails
  /\ cleaner' = [cleaner EXCEPT ![c].at = "lost"]
  /\ Advance(c, "over")
  /\ \E took \in {{}} \cup {{u} : u \in cleaner[c].left \cap open} :
       open' = open \ took /\ aborted' = [aborted EXCEPT ![c] = @ \cup took]
  /\ UNCHANGED <<parts, whole, made>>

MultipartNext ==
  \/ \E c \in Clients, size \in FileSizes, n \in 0..MaxParts : CreateMultipartUpload(c, size, n)
  \/ \E c \in Clients : PutPart(c) \/ Resume(c) \/ ListForComplete(c) \/ CompleteMultipartUpload(c)
  \/ \E c, u \in Clients : AbortUpload(c, u)
  \/ \E c \in Clients : ClientFails(c) \/ ListUploads(c) \/ DeleteDemoObject(c) \/ CleanupFails(c)

MultipartSpec == MultipartInit /\ [][MultipartNext]_multipartVars

-----------------------------------------------------------------------------
(***************************************************************************)
(* README.md:603 of the sources: MAX_PARTS parts are respected, and those  *)
(* already uploaded are skipped, so that the object is the whole file.     *)
(* listUploadedParts asks for one page of ListParts: a file of more parts  *)
(* becomes, without an error, an object that ends after the first page.    *)
(***************************************************************************)
CompletedObjectIsWhole ==
  whole # NoObject => whole.parts = PartsOf(client[whole.by].size)

(***************************************************************************)
(* calculatePartSize keeps every file to the parts the storage takes.      *)
(* However the client was interrupted and whatever was cleaned up, an      *)
(* object has no part that is not of its file, and no gap: a part is       *)
(* missing only after all that are there, and only from a file of more     *)
(* parts than one page of ListParts.                                       *)
(***************************************************************************)
WholeUnlessPastAPage ==
  whole # NoObject =>
    LET all == PartsOf(client[whole.by].size) IN
    /\ all \subseteq 1..MaxParts
    /\ whole.parts \subseteq all /\ whole.parts # {}
    /\ \A p \in whole.parts, q \in all \ whole.parts : p < q
    /\ Cardinality(all) <= PageSize => whole.parts = all

(***************************************************************************)
(* cleanupMultipartUploads, in any number of processes at once. One that   *)
(* has returned has itself aborted every upload it listed, and what is     *)
(* aborted never becomes an object, and is aborted by one process only.    *)
(* One that has thrown met an upload completed, or aborted by another      *)
(* process, since it was listed. A process whose last clean() returned     *)
(* leaves no upload of its own in progress (README.md:621 of the sources:  *)
(* the demo is self-cleaning).                                             *)
(***************************************************************************)
CleanupSettlesWhatItListed ==
  \A c \in Clients :
    /\ cleaner[c].at = "done" => cleaner[c].listed \subseteq aborted[c]
    /\ aborted[c] \cap (open \cup made) = {}
    /\ \A d \in Clients \ {c} : aborted[c] \cap aborted[d] = {}
    /\ cleaner[c].at = "failed" =>
         \E u \in cleaner[c].left : u \in made \/ \E d \in Clients \ {c} : u \in aborted[d]
    /\ client[c].at = "over" /\ cleaner[c].at = "done" => c \notin open

=============================================================================
