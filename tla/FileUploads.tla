---------------------------- MODULE FileUploads ----------------------------
(***************************************************************************)
(* POST /uploads/intent and /uploads/commit: a row of files, a presigned   *)
(* URL with which the client puts the object, any number of times while    *)
(* the URL is valid, and a commit that asks the storage for the size and   *)
(* writes it into the row. A key is as random as the id of its file: the   *)
(* file stands for both. Types of content are left out.                    *)
(***************************************************************************)
EXTENDS AccessControl

CONSTANTS
  Files,      \* ids that randomUUID may give
  Sizes,      \* of objects
  UploadTtl,  \* UPLOAD_PRESIGNED_TTL_SECONDS in ticks
  Undeclared, \* NULL: no expected_size, no actual_size yet
  NoFile      \* no row, no object

Rows ==
  [status : {"PENDING", "COMPLETED"}, owner : Users,
   expected : Sizes \cup {Undeclared}, actual : Sizes \cup {Undeclared}]

ASSUME UploadAssumption ==
  /\ UploadTtl \in Nat \ {0}
  /\ {Undeclared, NoFile} \cap Sizes = {} /\ NoFile \notin Rows

VARIABLES
  row,       \* row[f]: its row in files
  object,    \* object[f]: the size of the object under its key
  validTo,   \* validTo[f]: when its URL expires
  replaced   \* history: files whose object got another size after a commit had asked for it

fileVars == <<row, object, validTo, replaced>>

FilesInit ==
  /\ row = [f \in Files |-> NoFile]
  /\ object = [f \in Files |-> NoFile]
  /\ validTo = [f \in Files |-> 0]
  /\ replaced = {}

UserOf(r) == Holder[request[r].token]

Completed(f) == row[f] # NoFile /\ row[f].status = "COMPLETED"

End(r) ==
  /\ request' = [request EXCEPT ![r] = Over]
  /\ UNCHANGED tokenVars

Reach(r, label, f, size) ==
  /\ request' = [request EXCEPT ![r].at = label, ![r].file = f, ![r].size = size]
  /\ UNCHANGED tokenVars

-----------------------------------------------------------------------------
(***************************************************************************)
(* createUploadIntent. An intent that is refused, or fails before the      *)
(* INSERT, is Fail; one whose URL does not arrive is one never used.       *)
(***************************************************************************)
CreateUploadIntent(r, f, expected) ==
  /\ request[r].at = "handler"
  /\ row[f] = NoFile
  /\ row' = [row EXCEPT ![f] =
       [status |-> "PENDING", owner |-> UserOf(r), expected |-> expected, actual |-> Undeclared]]
  /\ validTo' = [validTo EXCEPT ![f] = time + UploadTtl]
  /\ End(r)
  /\ UNCHANGED <<object, replaced>>

(***************************************************************************)
(* A commit has asked for the size, and has stored it or is about to.      *)
(***************************************************************************)
Measured(f) ==
  Completed(f) \/ \E r \in Requests : request[r].at = "update" /\ request[r].file = f

(***************************************************************************)
(* The PUT goes to the storage, not through the API.                       *)
(***************************************************************************)
PutObject(f, size) ==
  /\ time < validTo[f]
  /\ object[f] # size
  /\ object' = [object EXCEPT ![f] = size]
  /\ replaced' = IF Measured(f) THEN replaced \cup {f} ELSE replaced
  /\ UNCHANGED <<tokenVars, request, row, validTo>>

(***************************************************************************)
(* commitUpload: the SELECT. Of the row it uses what never changes, unless *)
(* the file is COMPLETED.                                                  *)
(***************************************************************************)
FindFile(r, f) ==
  LET found == row[f] # NoFile /\ row[f].owner = UserOf(r) IN
  /\ request[r].at = "handler"
  /\ \/ ~found /\ End(r)
     \/ found /\ Completed(f) /\ Reach(r, "answered", f, row[f].actual)
     \/ found /\ ~Completed(f) /\ Reach(r, "head", f, Undeclared)
  /\ UNCHANGED fileVars

\* Mutation of HeadObject: without an answer the declared size is believed.
HeadOrBelieve(r) ==
  LET f == request[r].file IN
  /\ request[r].at = "head"
  /\ \E size \in {object[f], row[f].expected} \cap Sizes : Reach(r, "update", f, size)
  /\ UNCHANGED fileVars

(***************************************************************************)
(* HeadObject and the comparison that follows its answer; without an       *)
(* object, or with another size than was declared, the commit is a         *)
(* conflict (409).                                                         *)
(***************************************************************************)
HeadObject(r) ==
  LET f == request[r].file
      agrees == object[f] # NoFile /\ row[f].expected \in {Undeclared, object[f]}
  IN
  /\ request[r].at = "head"
  /\ IF agrees THEN Reach(r, "update", f, object[f]) ELSE End(r)
  /\ UNCHANGED fileVars

(***************************************************************************)
(* The UPDATE asks for the id only: of two commits both write. Its answer  *)
(* may get lost.                                                           *)
(***************************************************************************)
UpdateFile(r) ==
  LET f == request[r].file IN
  /\ request[r].at = "update"
  /\ row' = [row EXCEPT ![f].status = "COMPLETED", ![f].actual = request[r].size]
  /\ Reach(r, "answered", f, request[r].size) \/ End(r)
  /\ UNCHANGED <<object, validTo, replaced>>

(***************************************************************************)
(* A query fails, or the input is refused before anything is written.      *)
(***************************************************************************)
Fail(r) ==
  /\ request[r].at \in {"guard", "handler", "head", "update"}
  /\ End(r)
  /\ UNCHANGED fileVars

FilesNext ==
  \/ \E r \in Requests, f \in Files, e \in Sizes \cup {Undeclared} : CreateUploadIntent(r, f, e)
  \/ \E f \in Files, s \in Sizes : PutObject(f, s)
  \/ \E r \in Requests, f \in Files : FindFile(r, f)
  \/ \E r \in Requests : HeadObject(r) \/ UpdateFile(r) \/ Fail(r)

UploadsNext ==
  \/ AccessNext /\ UNCHANGED <<time, fileVars>>
  \/ Tick /\ UNCHANGED fileVars
  \/ FilesNext /\ UNCHANGED time

uploadVars == <<time, tokenVars, request, fileVars>>

UploadsSpec == AccessInit /\ FilesInit /\ [][UploadsNext]_uploadVars

-----------------------------------------------------------------------------
(***************************************************************************)
(* A completed row tells the size of its object, the declared one if there *)
(* was one, and every commit its owner got an answer to told this size,    *)
(* unless the object was replaced after a commit had asked for its size.   *)
(***************************************************************************)
SizeIsTrueUnlessReplaced ==
  \A f \in Files \ replaced :
    /\ Completed(f) => row[f].actual = object[f] /\ row[f].expected \in {Undeclared, object[f]}
    /\ \A r \in Requests : request[r].at = "answered" /\ request[r].file = f =>
         Completed(f) /\ request[r].size = row[f].actual /\ row[f].owner = UserOf(r)

=============================================================================
