----------------------------- MODULE MCStorage -----------------------------
(***************************************************************************)
(* Guarded uploads, multipart uploads and the edge on one bucket. Their    *)
(* keys are different, and a behaviour uses one of them.                   *)
(***************************************************************************)
EXTENDS FileUploads, MultipartUploads, EdgeServer, TLC

CONSTANTS t1, t2, anna, ben

MCHolder == [t \in Tokens |-> IF t = t1 THEN anna ELSE ben]

vars == <<uploadVars, multipartVars, edgeVars>>

Init == AccessInit /\ FilesInit /\ MultipartInit /\ EdgeInit

Next ==
  \/ UploadsNext /\ UNCHANGED <<multipartVars, edgeVars>>
  \/ MultipartNext /\ UNCHANGED <<uploadVars, edgeVars>>
  \/ EdgeNext /\ UNCHANGED <<uploadVars, multipartVars>>

InUse ==
  {n \in 1..3 : \/ n = 1 /\ (time > 1 \/ \E t \in Tokens : expires[t] > 0)
                \/ n = 2 /\ (\E c \in Clients : client[c].at # "first" \/ cleaner[c].at # "idle")
                \/ n = 3 /\ (\E k \in Keys : stored[k] # NoBody \/ \E g \in Gets : get[g] # Unasked)}

OneInUse == \A m, n \in InUse' : m = n

(***************************************************************************)
(* Requests, sizes and clients are interchangeable.                        *)
(***************************************************************************)
Alike == Permutations(Requests) \cup Permutations(Sizes) \cup Permutations(Clients)

MCSpec == Init /\ [][Next /\ OneInUse]_vars

=============================================================================
