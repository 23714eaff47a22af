---------------------------- MODULE StorageProofs ----------------------------
(***************************************************************************)
(* Proofs about what uses the bucket: FileUploads, and the guard of        *)
(* AccessControl before it, for any number of users, tokens, requests,     *)
(* files and sizes; MultipartUploads for any clients, sizes and limits;    *)
(* EdgeServer for any keys and requests.                                   *)
(***************************************************************************)
EXTENDS FileUploads, MultipartUploads, EdgeServer, FiniteSetTheorems, WellFoundedInduction, TLAPS

Labels == {"unsent", "guard", "handler", "head", "update", "answered", "over"}

Calls ==
  [at : Labels, token : Tokens \cup {NoToken}, out : BOOLEAN, expired : BOOLEAN,
   file : Files \cup {0}, size : Sizes \cup {Undeclared, 0}]

TypeInv ==
  /\ time \in Nat
  /\ expires \in [Tokens -> Int]
  /\ denylist \in [Tokens -> Int]
  /\ loggedOut \subseteq Tokens
  /\ request \in [Requests -> Calls]
  /\ row \in [Files -> Rows \cup {NoFile}]
  /\ object \in [Files -> Sizes \cup {NoFile}]
  /\ validTo \in [Files -> Int]
  /\ replaced \subseteq Files

(***************************************************************************)
(* A token that is logged out has been signed, and its row in the denylist *)
(* stays until it expires.                                                 *)
(***************************************************************************)
DeniedUntilExpiry ==
  \A t \in loggedOut : expires[t] # 0 /\ denylist[t] = expires[t]

OutIsLoggedOut == \A r \in Requests : request[r].out => request[r].token \in loggedOut

Admitted(r) == request[r].at \in {"handler", "head", "update", "answered"}

AdmittedHasToken == \A r \in Requests : request[r].at = "guard" \/ Admitted(r) => request[r].token \in Tokens

(***************************************************************************)
(* From its SELECT on, a commit is about a file of its user, and carries   *)
(* what may be written.                                                    *)
(***************************************************************************)
WorksOnOwnFile ==
  \A r \in Requests : request[r].at \in {"head", "update", "answered"} =>
    /\ request[r].file \in Files
    /\ row[request[r].file] # NoFile
    /\ row[request[r].file].owner = UserOf(r)
    /\ request[r].size \in Sizes \cup {Undeclared}

(***************************************************************************)
(* What a commit is about to write is true of an object not replaced.      *)
(***************************************************************************)
Agrees(f, size) == size \in Sizes /\ size = object[f] /\ row[f].expected \in {Undeclared, size}

AboutToTellTruth ==
  \A r \in Requests :
    request[r].at = "update" /\ request[r].file \notin replaced => Agrees(request[r].file, request[r].size)

UInv ==
  /\ TypeInv
  /\ DeniedUntilExpiry
  /\ OutIsLoggedOut
  /\ LoggedOutIsShutOut
  /\ AdmittedHasToken
  /\ WorksOnOwnFile
  /\ AboutToTellTruth
  /\ SizeIsTrueUnlessReplaced

-----------------------------------------------------------------------------
(***************************************************************************)
(* The invariant holds before anything has happened.                       *)
(***************************************************************************)
LEMMA InitInv == AccessInit /\ FilesInit => UInv
<1> SUFFICES ASSUME AccessInit, FilesInit PROVE UInv
  OBVIOUS
<1>1. TypeInv
  BY DEF AccessInit, FilesInit, TypeInv, Calls, Labels, Unsent
<1>2. \A r \in Requests : request[r] = Unsent
  BY DEF AccessInit
<1>3. \A f \in Files : row[f] = NoFile
  BY DEF FilesInit
<1>4. DeniedUntilExpiry
  BY DEF AccessInit, DeniedUntilExpiry
<1>5. OutIsLoggedOut /\ LoggedOutIsShutOut /\ AdmittedHasToken /\ WorksOnOwnFile /\ AboutToTellTruth
  BY <1>2 DEF OutIsLoggedOut, LoggedOutIsShutOut, AdmittedHasToken, Admitted, WorksOnOwnFile,
              AboutToTellTruth, Unsent
<1>6. SizeIsTrueUnlessReplaced
  BY <1>2, <1>3 DEF SizeIsTrueUnlessReplaced, Completed, Unsent
<1> QED
  BY <1>1, <1>4, <1>5, <1>6 DEF UInv

(***************************************************************************)
(* Steps of the guard and the clock leave files alone, and requests that   *)
(* are past the guard.                                                     *)
(***************************************************************************)
LEMMA FilesUntouched ==
  ASSUME UInv, UNCHANGED fileVars, request' \in [Requests -> Calls],
         \A r \in Requests : request'[r] = request[r]
           \/ request'[r].at \in {"unsent", "guard", "handler", "over"}
  PROVE  WorksOnOwnFile' /\ AboutToTellTruth' /\ SizeIsTrueUnlessReplaced'
<1>1. WorksOnOwnFile'
  BY DEF UInv, WorksOnOwnFile, fileVars, UserOf
<1>2. AboutToTellTruth'
  BY DEF UInv, AboutToTellTruth, Agrees, fileVars
<1>3. SizeIsTrueUnlessReplaced'
  BY DEF UInv, SizeIsTrueUnlessReplaced, Completed, UserOf, fileVars
<1> QED
  BY <1>1, <1>2, <1>3

(***************************************************************************)
(* Tokens are signed and logged out, and requests come to their handlers.  *)
(***************************************************************************)
LEMMA AccessStep ==
  ASSUME UInv, AccessNext, UNCHANGED <<time, fileVars>>
  PROVE  UInv'
<1>a. TypeInv /\ DeniedUntilExpiry /\ OutIsLoggedOut /\ LoggedOutIsShutOut /\ AdmittedHasToken
  BY DEF UInv
<1>1. ASSUME NEW t \in Tokens, SignAccessToken(t)
      PROVE  UInv'
  <2>1. TypeInv'
    BY <1>1, <1>a, AccessAssumption DEF TypeInv, SignAccessToken, fileVars
  <2>2. DeniedUntilExpiry'
    BY <1>1, <1>a DEF DeniedUntilExpiry, SignAccessToken, TypeInv
  <2>3. OutIsLoggedOut' /\ LoggedOutIsShutOut' /\ AdmittedHasToken'
    BY <1>1, <1>a DEF OutIsLoggedOut, LoggedOutIsShutOut, AdmittedHasToken, Admitted, SignAccessToken
  <2>4. WorksOnOwnFile' /\ AboutToTellTruth' /\ SizeIsTrueUnlessReplaced'
    BY <1>1, <2>1, FilesUntouched DEF SignAccessToken, TypeInv
  <2> QED
    BY <2>1, <2>2, <2>3, <2>4 DEF UInv
<1>2. ASSUME NEW t \in Tokens, Logout(t)
      PROVE  UInv'
  <2>1. TypeInv'
    BY <1>2, <1>a DEF TypeInv, Logout, DeniedUntil, fileVars
  <2>2. DeniedUntilExpiry'
    BY <1>2, <1>a DEF DeniedUntilExpiry, Logout, DeniedUntil, TypeInv
  <2>3. OutIsLoggedOut' /\ LoggedOutIsShutOut' /\ AdmittedHasToken'
    BY <1>2, <1>a DEF OutIsLoggedOut, LoggedOutIsShutOut, AdmittedHasToken, Admitted, Logout
  <2>4. WorksOnOwnFile' /\ AboutToTellTruth' /\ SizeIsTrueUnlessReplaced'
    BY <1>2, <2>1, FilesUntouched DEF Logout, TypeInv
  <2> QED
    BY <2>1, <2>2, <2>3, <2>4 DEF UInv
<1>3. ASSUME NEW r \in Requests, NEW t \in Tokens, VerifyAccessToken(r, t)
      PROVE  UInv'
  <2>a. [request[r] EXCEPT !.at = "guard", !.token = t, !.out = t \in loggedOut] \in Calls
    <3>1. request[r] \in Calls /\ (t \in loggedOut) \in BOOLEAN
      BY <1>a DEF TypeInv
    <3> QED
      BY <3>1 DEF Calls, Labels
  <2>b. request' = [request EXCEPT ![r] =
          [request[r] EXCEPT !.at = "guard", !.token = t, !.out = t \in loggedOut]]
    BY <1>3 DEF VerifyAccessToken
  <2>1. TypeInv'
    BY <1>3, <1>a, <2>a, <2>b DEF TypeInv, VerifyAccessToken, tokenVars, fileVars
  <2>2. DeniedUntilExpiry'
    BY <1>3, <1>a DEF DeniedUntilExpiry, VerifyAccessToken, tokenVars
  <2>3. OutIsLoggedOut' /\ LoggedOutIsShutOut' /\ AdmittedHasToken'
    BY <1>3, <1>a DEF OutIsLoggedOut, LoggedOutIsShutOut, AdmittedHasToken, Admitted,
                      VerifyAccessToken, tokenVars, TypeInv, Calls
  <2>4. \A q \in Requests : request'[q] = request[q] \/ request'[q].at = "guard"
    BY <1>3, <1>a DEF VerifyAccessToken, TypeInv, Calls
  <2>5. WorksOnOwnFile' /\ AboutToTellTruth' /\ SizeIsTrueUnlessReplaced'
    BY <2>1, <2>4, FilesUntouched DEF TypeInv
  <2> QED
    BY <2>1, <2>2, <2>3, <2>5 DEF UInv
<1>4. ASSUME NEW r \in Requests, CanActivate(r)
      PROVE  UInv'
  <2> DEFINE t == request[r].token
  <2>a. Over \in Calls
    BY DEF Over, Unsent, Calls, Labels
  <2>b. [request[r] EXCEPT !.at = "handler", !.expired = ExpiredForDatabase(t)] \in Calls
    <3>1. request[r] \in Calls /\ ExpiredForDatabase(t) \in BOOLEAN
      BY <1>a DEF TypeInv, ExpiredForDatabase
    <3> QED
      BY <3>1 DEF Calls, Labels
  <2>1. TypeInv'
    BY <1>4, <1>a, <2>a, <2>b DEF TypeInv, CanActivate, tokenVars, fileVars
  <2>2. DeniedUntilExpiry'
    BY <1>4, <1>a DEF DeniedUntilExpiry, CanActivate, tokenVars
  <2>3. \A q \in Requests \ {r} : request'[q] = request[q]
    BY <1>4, <1>a DEF CanActivate, TypeInv
  <2>4. \/ request'[r] = Over
        \/ /\ ~IsAccessTokenDenied(t)
           /\ request'[r] = [request[r] EXCEPT !.at = "handler", !.expired = ExpiredForDatabase(t)]
    BY <1>4, <1>a DEF CanActivate, TypeInv
  <2>5. OutIsLoggedOut'
    BY <1>4, <1>a, <2>3, <2>4 DEF OutIsLoggedOut, Over, Unsent, CanActivate, tokenVars, TypeInv, Calls
  <2>6. LoggedOutIsShutOut'
    <3>1. CASE request'[r] = Over
      BY <3>1, <1>a, <2>3 DEF LoggedOutIsShutOut, Over, Unsent
    <3>2. CASE /\ ~IsAccessTokenDenied(t)
               /\ request'[r] = [request[r] EXCEPT !.at = "handler", !.expired = ExpiredForDatabase(t)]
      <4>1. request[r].out => ExpiredForDatabase(t)
        BY <3>2, <1>a, AccessAssumption
           DEF OutIsLoggedOut, DeniedUntilExpiry, IsAccessTokenDenied, ExpiredForDatabase, TypeInv
      <4>2. request'[r].out = request[r].out /\ request'[r].expired = ExpiredForDatabase(t)
        BY <3>2, <1>a DEF TypeInv, Calls
      <4> QED
        BY <4>1, <4>2, <1>a, <2>3 DEF LoggedOutIsShutOut
    <3> QED
      BY <3>1, <3>2, <2>4
  <2>7. AdmittedHasToken'
    BY <1>4, <1>a, <2>3, <2>4 DEF AdmittedHasToken, Admitted, CanActivate, Over, Unsent, TypeInv, Calls
  <2>8. \A q \in Requests : request'[q] = request[q] \/ request'[q].at \in {"handler", "over"}
    BY <2>3, <2>4, <1>a DEF Over, Unsent, TypeInv, Calls
  <2>9. WorksOnOwnFile' /\ AboutToTellTruth' /\ SizeIsTrueUnlessReplaced'
    BY <2>1, <2>8, FilesUntouched DEF TypeInv
  <2> QED
    BY <2>1, <2>2, <2>5, <2>6, <2>7, <2>9 DEF UInv
<1> QED
  BY <1>1, <1>2, <1>3, <1>4 DEF AccessNext

-----------------------------------------------------------------------------
(***************************************************************************)
(* What a handler does to the request it works for.                        *)
(***************************************************************************)
LEMMA EndStep ==
  ASSUME TypeInv, NEW r \in Requests, End(r)
  PROVE  /\ request' \in [Requests -> Calls]
         /\ request'[r] = Over /\ Over.at = "over"
         /\ \A q \in Requests \ {r} : request'[q] = request[q]
         /\ UNCHANGED tokenVars
<1>1. Over \in Calls /\ Over.at = "over"
  BY DEF Over, Unsent, Calls, Labels
<1> QED
  BY <1>1 DEF TypeInv, End

(***************************************************************************)
(* The same of one that goes on.                                           *)
(***************************************************************************)
LEMMA ReachStep ==
  ASSUME TypeInv, NEW r \in Requests, NEW label \in {"head", "update", "answered"},
         NEW f \in Files, NEW size \in Sizes \cup {Undeclared}, Reach(r, label, f, size)
  PROVE  /\ request' \in [Requests -> Calls]
         /\ request'[r].at = label /\ request'[r].file = f /\ request'[r].size = size
         /\ request'[r].token = request[r].token
         /\ request'[r].out = request[r].out /\ request'[r].expired = request[r].expired
         /\ \A q \in Requests \ {r} : request'[q] = request[q]
         /\ UNCHANGED tokenVars
<1> DEFINE reached == [request[r] EXCEPT !.at = label, !.file = f, !.size = size]
<1>1. request' = [request EXCEPT ![r] = reached] /\ UNCHANGED tokenVars
  BY DEF Reach
<1>2. request[r] \in Calls
  BY DEF TypeInv
<1>3. /\ reached \in Calls
      /\ reached.at = label /\ reached.file = f /\ reached.size = size
      /\ reached.token = request[r].token
      /\ reached.out = request[r].out /\ reached.expired = request[r].expired
  BY <1>2 DEF Calls, Labels
<1> QED
  BY <1>1, <1>3 DEF TypeInv

(***************************************************************************)
(* A step of one handler leaves what the guard has established.            *)
(***************************************************************************)
LEMMA AccessUntouched ==
  ASSUME UInv, UNCHANGED <<time, tokenVars>>, NEW r \in Requests,
         \A q \in Requests \ {r} : request'[q] = request[q],
         \/ request'[r] = Over
         \/ /\ Admitted(r)
            /\ request'[r].token = request[r].token
            /\ request'[r].out = request[r].out /\ request'[r].expired = request[r].expired
  PROVE  DeniedUntilExpiry' /\ OutIsLoggedOut' /\ LoggedOutIsShutOut' /\ AdmittedHasToken'
<1>1. DeniedUntilExpiry'
  BY DEF UInv, DeniedUntilExpiry, tokenVars
<1>2. OutIsLoggedOut'
  BY DEF UInv, OutIsLoggedOut, tokenVars, Over, Unsent
<1>3. LoggedOutIsShutOut'
  BY DEF UInv, LoggedOutIsShutOut, Admitted, Over, Unsent
<1>4. AdmittedHasToken'
  BY DEF UInv, AdmittedHasToken, Admitted, Over, Unsent
<1> QED
  BY <1>1, <1>2, <1>3, <1>4

(***************************************************************************)
(* A handler that ends and writes no row.                                  *)
(***************************************************************************)
LEMMA EndKeepsInv ==
  ASSUME UInv, NEW r \in Requests, End(r), UNCHANGED <<time, fileVars>>
  PROVE  UInv'
<1>1. TypeInv
  BY DEF UInv
<1>2. TypeInv'
  BY <1>1, EndStep DEF TypeInv, tokenVars, fileVars
<1>3. DeniedUntilExpiry' /\ OutIsLoggedOut' /\ LoggedOutIsShutOut' /\ AdmittedHasToken'
  BY <1>1, EndStep, AccessUntouched
<1>4. WorksOnOwnFile' /\ AboutToTellTruth' /\ SizeIsTrueUnlessReplaced'
  BY <1>1, EndStep, FilesUntouched
<1> QED
  BY <1>2, <1>3, <1>4 DEF UInv

(***************************************************************************)
(* A handler that goes on and writes no row.                               *)
(***************************************************************************)
LEMMA ReachKeepsInv ==
  ASSUME UInv, NEW r \in Requests, NEW label \in {"head", "update", "answered"},
         NEW f \in Files, NEW size \in Sizes \cup {Undeclared},
         Reach(r, label, f, size), Admitted(r), UNCHANGED <<time, fileVars>>,
         row[f] # NoFile /\ row[f].owner = UserOf(r),
         label = "update" /\ f \notin replaced => Agrees(f, size),
         label = "answered" => Completed(f) /\ size = row[f].actual
  PROVE  UInv'
<1>1. TypeInv
  BY DEF UInv
<1>2. TypeInv'
  BY <1>1, ReachStep DEF TypeInv, tokenVars, fileVars
<1>3. DeniedUntilExpiry' /\ OutIsLoggedOut' /\ LoggedOutIsShutOut' /\ AdmittedHasToken'
  BY <1>1, ReachStep, AccessUntouched
<1>4. WorksOnOwnFile'
  BY <1>1, ReachStep DEF UInv, WorksOnOwnFile, UserOf, fileVars
<1>5. AboutToTellTruth'
  BY <1>1, ReachStep DEF UInv, AboutToTellTruth, Agrees, fileVars
<1>6. SizeIsTrueUnlessReplaced'
  BY <1>1, ReachStep DEF UInv, SizeIsTrueUnlessReplaced, Completed, UserOf, fileVars
<1> QED
  BY <1>2, <1>3, <1>4, <1>5, <1>6 DEF UInv

(***************************************************************************)
(* A new row is no commit's yet.                                           *)
(***************************************************************************)
LEMMA CreateKeepsInv ==
  ASSUME UInv, NEW r \in Requests, NEW f \in Files, NEW e \in Sizes \cup {Undeclared},
         CreateUploadIntent(r, f, e), UNCHANGED time
  PROVE  UInv'
<1> DEFINE new == [status |-> "PENDING", owner |-> UserOf(r), expected |-> e, actual |-> Undeclared]
<1>1. TypeInv /\ End(r) /\ request[r].token \in Tokens
  BY DEF UInv, CreateUploadIntent, AdmittedHasToken, Admitted
<1>2. new \in Rows /\ new # NoFile /\ new.status # "COMPLETED"
  BY <1>1, AccessAssumption, UploadAssumption DEF Rows, UserOf
<1>3. /\ row' = [row EXCEPT ![f] = new] /\ row[f] = NoFile
      /\ UNCHANGED <<object, replaced>> /\ validTo' = [validTo EXCEPT ![f] = time + UploadTtl]
  BY DEF CreateUploadIntent
<1>4. TypeInv'
  BY <1>1, <1>2, <1>3, EndStep, UploadAssumption DEF TypeInv, tokenVars
<1>5. DeniedUntilExpiry' /\ OutIsLoggedOut' /\ LoggedOutIsShutOut' /\ AdmittedHasToken'
  BY <1>1, EndStep, AccessUntouched
<1>6. \A q \in Requests : request'[q].at \in {"head", "update", "answered"} =>
        request'[q] = request[q] /\ request[q].file \in Files \ {f}
  BY <1>1, <1>3, EndStep DEF UInv, WorksOnOwnFile
<1>7. \A g \in Files \ {f} : row'[g] = row[g]
  BY <1>1, <1>3 DEF TypeInv
<1>8. WorksOnOwnFile'
  BY <1>6, <1>7 DEF UInv, WorksOnOwnFile, UserOf
<1>9. AboutToTellTruth'
  BY <1>3, <1>6, <1>7 DEF UInv, AboutToTellTruth, Agrees
<1>10. ~Completed(f)'
  BY <1>1, <1>2, <1>3 DEF Completed, TypeInv
<1>11. SizeIsTrueUnlessReplaced'
  BY <1>3, <1>6, <1>7, <1>10 DEF UInv, SizeIsTrueUnlessReplaced, Completed, UserOf
<1> QED
  BY <1>4, <1>5, <1>8, <1>9, <1>11 DEF UInv

(***************************************************************************)
(* An object that nobody has asked for may change; one that somebody has   *)
(* asked for is counted as replaced.                                       *)
(***************************************************************************)
LEMMA PutKeepsInv ==
  ASSUME UInv, NEW f \in Files, NEW size \in Sizes, PutObject(f, size), UNCHANGED time
  PROVE  UInv'
<1>1. TypeInv /\ UNCHANGED <<tokenVars, request, row, validTo>>
  BY DEF UInv, PutObject
<1>2. TypeInv'
  BY <1>1 DEF TypeInv, tokenVars, PutObject
<1>3. DeniedUntilExpiry' /\ OutIsLoggedOut' /\ LoggedOutIsShutOut' /\ AdmittedHasToken'
  BY <1>1 DEF UInv, DeniedUntilExpiry, OutIsLoggedOut, LoggedOutIsShutOut, AdmittedHasToken,
              Admitted, tokenVars
<1>4. WorksOnOwnFile'
  BY <1>1 DEF UInv, WorksOnOwnFile, UserOf
<1>5. \A g \in Files \ {f} : object'[g] = object[g]
  BY <1>1 DEF PutObject, TypeInv
<1>6. f \notin replaced' => ~Completed(f)
                          /\ \A q \in Requests : request[q].at = "update" => request[q].file # f
  BY DEF PutObject, Measured
<1>7. replaced \subseteq replaced'
  BY DEF PutObject
<1>8. AboutToTellTruth'
  BY <1>1, <1>5, <1>6, <1>7 DEF UInv, AboutToTellTruth, Agrees, WorksOnOwnFile
<1>9. SizeIsTrueUnlessReplaced'
  <2>1. \A g \in Files : Completed(g)' = Completed(g)
    BY <1>1 DEF Completed
  <2>2. ASSUME NEW g \in Files \ replaced', Completed(g)
        PROVE  object'[g] = object[g] /\ g \in Files \ replaced
    BY <2>2, <1>5, <1>6, <1>7
  <2> QED
    BY <1>1, <1>7, <2>1, <2>2 DEF UInv, SizeIsTrueUnlessReplaced, UserOf
<1> QED
  BY <1>2, <1>3, <1>4, <1>8, <1>9 DEF UInv

(***************************************************************************)
(* The SELECT of a commit answers, goes on, or ends it.                    *)
(***************************************************************************)
LEMMA FindKeepsInv ==
  ASSUME UInv, NEW r \in Requests, NEW f \in Files, FindFile(r, f), UNCHANGED time
  PROVE  UInv'
<1>1. TypeInv /\ UNCHANGED <<time, fileVars>> /\ Admitted(r)
  BY DEF UInv, FindFile, Admitted
<1>2. \/ End(r)
      \/ /\ row[f] # NoFile /\ row[f].owner = UserOf(r)
         /\ \/ Completed(f) /\ Reach(r, "answered", f, row[f].actual)
            \/ Reach(r, "head", f, Undeclared)
  BY DEF FindFile
<1>3. CASE End(r)
  BY <1>1, <1>3, EndKeepsInv
<1>4. CASE /\ row[f] # NoFile /\ row[f].owner = UserOf(r)
           /\ Completed(f) /\ Reach(r, "answered", f, row[f].actual)
  <2>1. row[f].actual \in Sizes \cup {Undeclared}
    BY <1>1, <1>4 DEF TypeInv, Rows
  <2> DEFINE size == row[f].actual
  <2>2. Reach(r, "answered", f, size)
    BY <1>4
  <2> HIDE DEF size
  <2>3. size = row[f].actual
    BY DEF size
  <2> QED
    BY <1>1, <1>4, <2>1, <2>2, <2>3, ReachKeepsInv
<1>5. CASE row[f] # NoFile /\ row[f].owner = UserOf(r) /\ Reach(r, "head", f, Undeclared)
  BY <1>1, <1>5, ReachKeepsInv
<1> QED
  BY <1>2, <1>3, <1>4, <1>5

(***************************************************************************)
(* A commit that goes on has read the size its object has.                 *)
(***************************************************************************)
LEMMA HeadKeepsInv ==
  ASSUME UInv, NEW r \in Requests, HeadObject(r), UNCHANGED time
  PROVE  UInv'
<1> DEFINE f == request[r].file
           size == object[f]
<1>1. TypeInv /\ UNCHANGED <<time, fileVars>> /\ Admitted(r)
  BY DEF UInv, HeadObject, Admitted
<1>2. f \in Files /\ row[f] # NoFile /\ row[f].owner = UserOf(r)
  BY DEF UInv, WorksOnOwnFile, HeadObject
<1>3. \/ End(r)
      \/ size # NoFile /\ row[f].expected \in {Undeclared, size} /\ Reach(r, "update", f, size)
  BY DEF HeadObject
<1>4. CASE End(r)
  BY <1>1, <1>4, EndKeepsInv
<1>5. CASE size # NoFile /\ row[f].expected \in {Undeclared, size} /\ Reach(r, "update", f, size)
  <2>1. size \in Sizes
    BY <1>1, <1>2, <1>5 DEF TypeInv
  <2>2. Agrees(f, size)
    BY <1>5, <2>1 DEF Agrees
  <2> HIDE DEF f, size
  <2> QED
    BY <1>1, <1>2, <1>5, <2>1, <2>2, ReachKeepsInv
<1> QED
  BY <1>3, <1>4, <1>5

(***************************************************************************)
(* The UPDATE: what was asked for is still true of an object not replaced, *)
(* and every answer given before told the same.                            *)
(***************************************************************************)
LEMMA UpdateKeepsInv ==
  ASSUME UInv, NEW r \in Requests, UpdateFile(r), UNCHANGED time
  PROVE  UInv'
<1> DEFINE f == request[r].file
           size == request[r].size
<1>1. TypeInv /\ Admitted(r) /\ request[r].at = "update"
  BY DEF UInv, UpdateFile, Admitted
<1>2. /\ f \in Files /\ row[f] # NoFile /\ row[f].owner = UserOf(r)
      /\ size \in Sizes \cup {Undeclared}
  BY <1>1 DEF UInv, WorksOnOwnFile
<1>3. f \notin replaced => Agrees(f, size)
  BY <1>1 DEF UInv, AboutToTellTruth
<1>4. /\ row' = [row EXCEPT ![f] = [row[f] EXCEPT !.status = "COMPLETED", !.actual = size]]
      /\ UNCHANGED <<object, validTo, replaced>>
  BY DEF UpdateFile
<1>5. /\ row[f] \in Rows
      /\ [row[f] EXCEPT !.status = "COMPLETED", !.actual = size] \in Rows
  <2>1. row[f] \in Rows
    BY <1>1, <1>2 DEF TypeInv
  <2> QED
    BY <1>2, <2>1 DEF Rows
<1>6. /\ row'[f] \in Rows /\ row'[f] # NoFile
      /\ row'[f].status = "COMPLETED" /\ row'[f].actual = size
      /\ row'[f].owner = row[f].owner /\ row'[f].expected = row[f].expected
      /\ \A g \in Files \ {f} : row'[g] = row[g]
  BY <1>1, <1>2, <1>4, <1>5, UploadAssumption DEF TypeInv, Rows
<1>7. /\ request' \in [Requests -> Calls] /\ UNCHANGED tokenVars
      /\ \A q \in Requests \ {r} : request'[q] = request[q]
      /\ \/ request'[r] = Over /\ request'[r].at = "over"
         \/ /\ request'[r].at = "answered" /\ request'[r].file = f /\ request'[r].size = size
            /\ request'[r].token = request[r].token
            /\ request'[r].out = request[r].out /\ request'[r].expired = request[r].expired
  <2>1. CASE End(r)
    BY <1>1, <2>1, EndStep
  <2>2. CASE Reach(r, "answered", f, size)
    <3> HIDE DEF f, size
    <3> QED
      BY <1>1, <1>2, <2>2, ReachStep
  <2> QED
    BY <2>1, <2>2 DEF UpdateFile
<1>8. TypeInv'
  BY <1>1, <1>4, <1>5, <1>7 DEF TypeInv, tokenVars
<1>9. DeniedUntilExpiry' /\ OutIsLoggedOut' /\ LoggedOutIsShutOut' /\ AdmittedHasToken'
  BY <1>1, <1>7, AccessUntouched
<1> HIDE DEF f, size
<1>10. WorksOnOwnFile'
  BY <1>2, <1>6, <1>7 DEF UInv, WorksOnOwnFile, UserOf
<1>11. AboutToTellTruth'
  BY <1>2, <1>4, <1>6, <1>7 DEF UInv, AboutToTellTruth, Agrees, WorksOnOwnFile
<1>12. SizeIsTrueUnlessReplaced'
  <2> SUFFICES ASSUME NEW g \in Files \ replaced
               PROVE  /\ Completed(g)' => row'[g].actual = object[g]
                                       /\ row'[g].expected \in {Undeclared, object[g]}
                      /\ \A q \in Requests : request'[q].at = "answered" /\ request'[q].file = g =>
                           /\ Completed(g)' /\ request'[q].size = row'[g].actual
                           /\ row'[g].owner = UserOf(q)'
    BY <1>4 DEF SizeIsTrueUnlessReplaced
  <2>1. /\ Completed(g) => row[g].actual = object[g] /\ row[g].expected \in {Undeclared, object[g]}
        /\ \A q \in Requests : request[q].at = "answered" /\ request[q].file = g =>
             Completed(g) /\ request[q].size = row[g].actual /\ row[g].owner = UserOf(q)
    BY DEF UInv, SizeIsTrueUnlessReplaced
  <2>2. CASE g = f
    <3>1. Completed(g)'
      BY <1>6, <2>2 DEF Completed
    <3>2. size = object[g] /\ row[g].expected \in {Undeclared, object[g]}
      BY <1>3, <2>2 DEF Agrees
    <3>3. \A q \in Requests \ {r} : request'[q].at = "answered" /\ request'[q].file = g =>
            request'[q].size = object[g] /\ row[g].owner = UserOf(q)'
      BY <1>7, <2>1 DEF UserOf
    <3>4. row[f].owner = UserOf(r) /\ (request'[r].at = "answered" => UserOf(r)' = UserOf(r))
      BY <1>2, <1>7 DEF UserOf
    <3> QED
      BY <1>6, <1>7, <2>2, <3>1, <3>2, <3>3, <3>4
  <2>3. CASE g # f
    <3>1. row'[g] = row[g] /\ Completed(g)' = Completed(g)
      BY <1>6, <2>3 DEF Completed
    <3>2. \A q \in Requests : request'[q].at = "answered" /\ request'[q].file = g =>
            request'[q] = request[q]
      BY <1>7, <2>3
    <3> QED
      BY <2>1, <3>1, <3>2 DEF UserOf
  <2> QED
    BY <2>2, <2>3
<1> QED
  BY <1>8, <1>9, <1>10, <1>11, <1>12 DEF UInv

(***************************************************************************)
(* The clock moves nothing else.                                           *)
(***************************************************************************)
LEMMA TickKeepsInv ==
  ASSUME UInv, time' \in Nat, UNCHANGED <<tokenVars, request, fileVars>>
  PROVE  UInv'
<1>1. TypeInv'
  BY DEF UInv, TypeInv, tokenVars, fileVars
<1>2. DeniedUntilExpiry' /\ OutIsLoggedOut' /\ LoggedOutIsShutOut' /\ AdmittedHasToken'
  BY DEF UInv, DeniedUntilExpiry, OutIsLoggedOut, LoggedOutIsShutOut, AdmittedHasToken,
         Admitted, tokenVars
<1>3. WorksOnOwnFile' /\ AboutToTellTruth' /\ SizeIsTrueUnlessReplaced'
  BY <1>1, FilesUntouched DEF TypeInv
<1> QED
  BY <1>1, <1>2, <1>3 DEF UInv

(***************************************************************************)
(* Every step keeps the invariant.                                         *)
(***************************************************************************)
LEMMA NextInv == UInv /\ [UploadsNext]_uploadVars => UInv'
<1> SUFFICES ASSUME UInv, [UploadsNext]_uploadVars PROVE UInv'
  OBVIOUS
<1>1. CASE AccessNext /\ UNCHANGED <<time, fileVars>>
  BY <1>1, AccessStep
<1>2. CASE Tick /\ UNCHANGED fileVars
  <2>1. time' \in Nat
    BY <1>2 DEF UInv, TypeInv, Tick
  <2> QED
    BY <1>2, <2>1, TickKeepsInv DEF Tick
<1>3. CASE FilesNext /\ UNCHANGED time
  <2>1. ASSUME NEW r \in Requests, Fail(r)
        PROVE  UInv'
    BY <1>3, <2>1, EndKeepsInv DEF Fail
  <2> QED
    BY <1>3, <2>1, CreateKeepsInv, PutKeepsInv, FindKeepsInv, HeadKeepsInv, UpdateKeepsInv
       DEF FilesNext
<1>4. CASE UNCHANGED uploadVars
  <2>1. time' \in Nat
    BY <1>4 DEF UInv, TypeInv, uploadVars
  <2> QED
    BY <1>4, <2>1, TickKeepsInv DEF uploadVars
<1> QED
  BY <1>1, <1>2, <1>3, <1>4 DEF UploadsNext

-----------------------------------------------------------------------------
(***************************************************************************)
(* The invariant, for any number of users, tokens, calls, files and sizes, *)
(* and any difference of the clocks.                                       *)
(***************************************************************************)
THEOREM UploadsInvariant == UploadsSpec => []UInv
<1>1. AccessInit /\ FilesInit => UInv
  BY InitInv
<1>2. UInv /\ [UploadsNext]_uploadVars => UInv'
  BY NextInv
<1> QED
  BY <1>1, <1>2, PTL DEF UploadsSpec

(***************************************************************************)
(* Of AuthGuard.canActivate: no handler runs for a token logged out before *)
(* its request came, except one that has expired for the database.         *)
(***************************************************************************)
THEOREM GuardHolds == UploadsSpec => []LoggedOutIsShutOut
<1>1. UInv => LoggedOutIsShutOut
  BY DEF UInv
<1> QED
  BY <1>1, UploadsInvariant, PTL

(***************************************************************************)
(* Of FilesService.commitUpload: a COMPLETED row, and an answer, tell the   *)
(* size of the object, unless it was replaced after it had been asked for. *)
(***************************************************************************)
THEOREM CommittedSizeTrue == UploadsSpec => []SizeIsTrueUnlessReplaced
<1>1. UInv => SizeIsTrueUnlessReplaced
  BY DEF UInv
<1> QED
  BY <1>1, UploadsInvariant, PTL

-----------------------------------------------------------------------------
GetStates == {"unasked", "get", "body", "ok", "404"}

EdgeTypes ==
  /\ stored \in [Keys -> Contents \cup {NoBody}]
  /\ cache \in [Keys -> Contents \cup {NoBody}]
  /\ \A g \in Gets : DOMAIN get[g] = {"at", "key", "body"} /\ get[g].at \in GetStates
  /\ DOMAIN get = Gets

Waiting(g) == get[g].at \in {"get", "body"}

(***************************************************************************)
(* A request has a key from its start, and a body from the answer of the   *)
(* storage on.                                                             *)
(***************************************************************************)
BodiesHere ==
  /\ \A g \in Gets : Waiting(g) \/ get[g].at = "ok" => get[g].key \in Keys
  /\ \A g \in Gets : get[g].at \in {"body", "ok"} => get[g].body \in Contents /\ get[g].body # NoBody

(***************************************************************************)
(* Under a name with a hash there is one content, wherever it has got to.  *)
(***************************************************************************)
HashesAreTrue ==
  \A n \in Contents : ContentHashedName(n) \notin Plain =>
    /\ stored[ContentHashedName(n)] \in {n, NoBody}
    /\ cache[ContentHashedName(n)] \in {n, NoBody}
    /\ \A g \in Gets :
         get[g].at \in {"body", "ok"} /\ get[g].key = ContentHashedName(n) => get[g].body = n

(***************************************************************************)
(* Of a key that was not asked for twice at a time, one request fills the  *)
(* cache, and the others have what is in it.                               *)
(***************************************************************************)
OneFillsTheCache ==
  \A k \in Keys \ raced :
    /\ \A g, h \in Gets : Waiting(g) /\ get[g].key = k /\ Waiting(h) /\ get[h].key = k => g = h
    /\ \A g \in Gets : Waiting(g) /\ get[g].key = k => cache[k] = NoBody
    /\ \A g \in Gets : Answered(g, k) => get[g].body = cache[k]

EdgeInv == EdgeTypes /\ BodiesHere /\ HashesAreTrue /\ OneFillsTheCache

-----------------------------------------------------------------------------
(***************************************************************************)
(* Names with different hashes are different keys.                         *)
(***************************************************************************)
LEMMA HashedNamesDiffer ==
  ASSUME NEW m, NEW n, ContentHashedName(m) = ContentHashedName(n)
  PROVE  m = n
BY DEF ContentHashedName

(***************************************************************************)
(* A process that has just started, in front of an empty bucket.           *)
(***************************************************************************)
LEMMA EdgeStart == EdgeInit => EdgeInv
<1> SUFFICES ASSUME EdgeInit PROVE EdgeInv
  OBVIOUS
<1>1. /\ stored = [k \in Keys |-> NoBody] /\ cache = [k \in Keys |-> NoBody]
      /\ get = [g \in Gets |-> Unasked] /\ raced = {}
      /\ \A g \in Gets : get[g].at = "unasked"
  BY DEF EdgeInit, Unasked
<1>2. EdgeTypes
  BY <1>1 DEF EdgeTypes, GetStates, Unasked
<1>3. HashesAreTrue
  BY <1>1 DEF HashesAreTrue, Keys
<1> QED
  BY <1>1, <1>2, <1>3 DEF EdgeInv, BodiesHere, OneFillsTheCache, Waiting, Answered

(***************************************************************************)
(* Objects change in the bucket; those with a hash in their name only come *)
(* and go.                                                                 *)
(***************************************************************************)
LEMMA BucketInv ==
  ASSUME EdgeInv, NEW k \in Keys, NEW body \in Contents \cup {NoBody},
         stored' = [stored EXCEPT ![k] = body], UNCHANGED <<cache, get, raced>>,
         k \in Plain \/ body = NoBody \/ k = ContentHashedName(body)
  PROVE  EdgeInv'
<1>1. EdgeTypes'
  BY DEF EdgeInv, EdgeTypes
<1>2. HashesAreTrue'
  <2> SUFFICES ASSUME NEW n \in Contents, ContentHashedName(n) \notin Plain
               PROVE  stored'[ContentHashedName(n)] \in {n, NoBody}
    BY DEF EdgeInv, HashesAreTrue
  <2>1. ContentHashedName(n) \in Keys
    BY DEF Keys
  <2>2. CASE k = ContentHashedName(n)
    BY <2>1, <2>2, HashedNamesDiffer DEF EdgeInv, EdgeTypes
  <2>3. CASE k # ContentHashedName(n)
    BY <2>1, <2>3 DEF EdgeInv, EdgeTypes, HashesAreTrue
  <2> QED
    BY <2>2, <2>3
<1>3. BodiesHere' /\ OneFillsTheCache'
  BY DEF EdgeInv, BodiesHere, OneFillsTheCache, Waiting, Answered
<1> QED
  BY <1>1, <1>2, <1>3 DEF EdgeInv

(***************************************************************************)
(* The next await of one request.                                          *)
(***************************************************************************)
LEMMA RequestInv ==
  ASSUME EdgeInv, NEW g \in Gets, NEW k \in Keys, Request(g, k)
  PROVE  EdgeInv'
<1> DEFINE new == [at |-> IF cache[k] = NoBody THEN "get" ELSE "ok", key |-> k, body |-> cache[k]]
<1>1. /\ get[g].at = "unasked" /\ get' = [get EXCEPT ![g] = new] /\ UNCHANGED <<stored, cache>>
      /\ raced' = IF cache[k] = NoBody /\ Asking(k) # {} THEN raced \cup {k} ELSE raced
  BY DEF Request, Unasked
<1>2. /\ DOMAIN new = {"at", "key", "body"} /\ new.key = k /\ new.body = cache[k]
      /\ new.at = IF cache[k] = NoBody THEN "get" ELSE "ok"
  OBVIOUS
<1> HIDE DEF new
<1>3. /\ DOMAIN get' = Gets /\ get'[g] = new
      /\ \A h \in Gets : h # g => get'[h] = get[h]
  BY <1>1 DEF EdgeInv, EdgeTypes
<1>4. EdgeTypes'
  BY <1>1, <1>2, <1>3 DEF EdgeInv, EdgeTypes, GetStates
<1>5. BodiesHere'
  BY <1>1, <1>2, <1>3 DEF EdgeInv, EdgeTypes, BodiesHere, Waiting
<1>6. HashesAreTrue'
  BY <1>1, <1>2, <1>3 DEF EdgeInv, HashesAreTrue
<1>7. OneFillsTheCache'
  <2> SUFFICES ASSUME NEW l \in Keys, l \notin raced'
               PROVE  /\ \A i, h \in Gets :
                           Waiting(i)' /\ get'[i].key = l /\ Waiting(h)' /\ get'[h].key = l => i = h
                      /\ \A i \in Gets : Waiting(i)' /\ get'[i].key = l => cache[l] = NoBody
                      /\ \A i \in Gets : Answered(i, l)' => get'[i].body = cache[l]
    BY <1>1 DEF OneFillsTheCache
  <2>1. l \notin raced
    BY <1>1
  <2>2. CASE l # k
    BY <1>2, <1>3, <2>1, <2>2 DEF EdgeInv, OneFillsTheCache, Waiting, Answered
  <2>3. CASE l = k /\ cache[k] # NoBody
    BY <1>2, <1>3, <2>1, <2>3 DEF EdgeInv, OneFillsTheCache, Waiting, Answered
  <2>4. CASE l = k /\ cache[k] = NoBody
    <3>1. \A h \in Gets : ~(Waiting(h) /\ get[h].key = k)
      BY <1>1, <2>4 DEF Asking, Waiting
    <3> QED
      BY <1>2, <1>3, <2>1, <2>4, <3>1 DEF EdgeInv, OneFillsTheCache, Waiting, Answered
  <2> QED
    BY <2>2, <2>3, <2>4
<1> QED
  BY <1>4, <1>5, <1>6, <1>7 DEF EdgeInv

(***************************************************************************)
(* The storage answers, or does not.                                       *)
(***************************************************************************)
LEMMA GetObjectInv ==
  ASSUME EdgeInv, NEW g \in Gets, GetObject(g)
  PROVE  EdgeInv'
<1>1. /\ get[g].at = "get" /\ UNCHANGED <<stored, cache, raced>> /\ get[g].key \in Keys
      /\ \/ /\ stored[get[g].key] # NoBody
            /\ get' = [get EXCEPT ![g].at = "body", ![g].body = stored[get[g].key]]
         \/ get' = [get EXCEPT ![g].at = "404"]
  BY DEF GetObject, EdgeInv, BodiesHere, Waiting
<1>2. /\ DOMAIN get' = Gets /\ \A h \in Gets : h # g => get'[h] = get[h]
      /\ DOMAIN get'[g] = {"at", "key", "body"} /\ get'[g].key = get[g].key
      /\ \/ get'[g].at = "body" /\ get'[g].body = stored[get[g].key] /\ get'[g].body # NoBody
         \/ get'[g].at = "404"
  BY <1>1 DEF EdgeInv, EdgeTypes
<1>3. EdgeTypes'
  BY <1>1, <1>2 DEF EdgeInv, EdgeTypes, GetStates
<1>4. BodiesHere'
  BY <1>1, <1>2 DEF EdgeInv, EdgeTypes, BodiesHere, Waiting
<1>5. HashesAreTrue'
  BY <1>1, <1>2 DEF EdgeInv, HashesAreTrue
<1>6. OneFillsTheCache'
  BY <1>1, <1>2 DEF EdgeInv, OneFillsTheCache, Waiting, Answered
<1> QED
  BY <1>3, <1>4, <1>5, <1>6 DEF EdgeInv

(***************************************************************************)
(* cache.set: of those that asked, this one was the only one, or the key   *)
(* is in raced.                                                            *)
(***************************************************************************)
LEMMA KeepInv ==
  ASSUME EdgeInv, NEW g \in Gets, Keep(g)
  PROVE  EdgeInv'
<1>1. /\ get[g].at = "body" /\ UNCHANGED <<stored, raced>> /\ get[g].key \in Keys
      /\ get[g].body \in Contents /\ get[g].body # NoBody
      /\ cache' = [cache EXCEPT ![get[g].key] = get[g].body]
      /\ get' = [get EXCEPT ![g].at = "ok"]
  BY DEF Keep, EdgeInv, BodiesHere, Waiting
<1>2. /\ DOMAIN get' = Gets /\ \A h \in Gets : h # g => get'[h] = get[h]
      /\ DOMAIN get'[g] = {"at", "key", "body"} /\ get'[g].key = get[g].key
      /\ get'[g].body = get[g].body /\ get'[g].at = "ok"
  BY <1>1 DEF EdgeInv, EdgeTypes
<1>3. cache'[get[g].key] = get[g].body /\ \A k \in Keys : k # get[g].key => cache'[k] = cache[k]
  BY <1>1 DEF EdgeInv, EdgeTypes
<1>4. EdgeTypes'
  BY <1>1, <1>2 DEF EdgeInv, EdgeTypes, GetStates
<1>5. BodiesHere'
  BY <1>1, <1>2 DEF EdgeInv, BodiesHere, Waiting
<1>6. HashesAreTrue'
  <2>1. \A n \in Contents : ContentHashedName(n) \in Keys
    BY DEF Keys
  <2> QED
    BY <1>1, <1>2, <1>3, <2>1 DEF EdgeInv, HashesAreTrue
<1>7. OneFillsTheCache'
  <2> SUFFICES ASSUME NEW k \in Keys, k \notin raced
               PROVE  /\ \A i, h \in Gets :
                           Waiting(i)' /\ get'[i].key = k /\ Waiting(h)' /\ get'[h].key = k => i = h
                      /\ \A i \in Gets : Waiting(i)' /\ get'[i].key = k => cache'[k] = NoBody
                      /\ \A i \in Gets : Answered(i, k)' => get'[i].body = cache'[k]
    BY <1>1 DEF OneFillsTheCache
  <2>1. CASE k # get[g].key
    BY <1>1, <1>2, <1>3, <2>1 DEF EdgeInv, OneFillsTheCache, Waiting, Answered
  <2>2. CASE k = get[g].key
    <3>1. cache[k] = NoBody /\ \A h \in Gets : Waiting(h) /\ get[h].key = k => h = g
      BY <1>1, <2>2 DEF EdgeInv, OneFillsTheCache, Waiting
    <3>2. \A h \in Gets : h # g => ~Answered(h, k)
      BY <2>2, <3>1 DEF EdgeInv, OneFillsTheCache, BodiesHere, Answered
    <3> QED
      BY <1>2, <1>3, <2>2, <3>1, <3>2 DEF Waiting, Answered
  <2> QED
    BY <2>1, <2>2
<1> QED
  BY <1>4, <1>5, <1>6, <1>7 DEF EdgeInv

(***************************************************************************)
(* The bytes do not come, and nothing is kept.                             *)
(***************************************************************************)
LEMMA LoseBodyInv ==
  ASSUME EdgeInv, NEW g \in Gets, LoseBody(g)
  PROVE  EdgeInv'
<1>1. /\ get[g].at = "body" /\ UNCHANGED <<stored, cache, raced>>
      /\ get' = [get EXCEPT ![g] = [@ EXCEPT !.at = "404", !.body = NoBody]]
  BY DEF LoseBody
<1>2. /\ DOMAIN get' = Gets /\ \A h \in Gets : h # g => get'[h] = get[h]
      /\ DOMAIN get'[g] = {"at", "key", "body"} /\ get'[g].at = "404"
  BY <1>1 DEF EdgeInv, EdgeTypes
<1>3. EdgeTypes'
  BY <1>1, <1>2 DEF EdgeInv, EdgeTypes, GetStates
<1>4. BodiesHere' /\ HashesAreTrue'
  BY <1>1, <1>2 DEF EdgeInv, BodiesHere, HashesAreTrue, Waiting
<1>5. OneFillsTheCache'
  BY <1>1, <1>2 DEF EdgeInv, OneFillsTheCache, Waiting, Answered
<1> QED
  BY <1>3, <1>4, <1>5 DEF EdgeInv

(***************************************************************************)
(* Every step of the bucket, of the edge and of those who ask it.          *)
(***************************************************************************)
LEMMA EdgeStep == EdgeInv /\ [EdgeNext]_edgeVars => EdgeInv'
<1> SUFFICES ASSUME EdgeInv, [EdgeNext]_edgeVars PROVE EdgeInv'
  OBVIOUS
<1>1. ASSUME NEW n \in Contents, UploadAsset(n) PROVE EdgeInv'
  <2>1. ContentHashedName(n) \in Keys
    BY DEF Keys
  <2> QED
    BY <1>1, <2>1, BucketInv DEF UploadAsset
<1>2. ASSUME NEW k \in Plain, NEW n \in Contents, Overwrite(k, n) PROVE EdgeInv'
  <2>1. k \in Keys
    BY DEF Keys
  <2> QED
    BY <1>2, <2>1, BucketInv DEF Overwrite
<1>3. ASSUME NEW k \in Keys, DeleteAsset(k) PROVE EdgeInv'
  BY <1>3, BucketInv DEF DeleteAsset
<1>4. ASSUME NEW g \in Gets, NEW k \in Keys, Request(g, k) PROVE EdgeInv'
  BY <1>4, RequestInv
<1>5. ASSUME NEW g \in Gets, GetObject(g) \/ Keep(g) \/ LoseBody(g) PROVE EdgeInv'
  BY <1>5, GetObjectInv, KeepInv, LoseBodyInv
<1>6. CASE UNCHANGED edgeVars
  BY <1>6 DEF edgeVars, EdgeInv, EdgeTypes, BodiesHere, HashesAreTrue, OneFillsTheCache, Waiting,
              Answered
<1> QED
  BY <1>1, <1>2, <1>3, <1>4, <1>5, <1>6 DEF EdgeNext

(***************************************************************************)
(* What edge-server.ts keeps and is about to keep.                         *)
(***************************************************************************)
THEOREM EdgeInvariant == EdgeSpec => []EdgeInv
<1>1. EdgeInit => EdgeInv
  BY EdgeStart
<1>2. EdgeInv /\ [EdgeNext]_edgeVars => EdgeInv'
  BY EdgeStep
<1> QED
  BY <1>1, <1>2, PTL DEF EdgeSpec

(***************************************************************************)
(* The edge gives every request for a key one body, unless the key has no  *)
(* hash in its name and was asked for twice at a time.                     *)
(***************************************************************************)
THEOREM EdgeAnswersAlike == EdgeSpec => []SameAnswerUnlessRaced
<1>1. EdgeInv => SameAnswerUnlessRaced
  <2> SUFFICES ASSUME EdgeInv, NEW g \in Gets, NEW h \in Gets, NEW k \in Keys,
                      k \notin raced \cap Plain, Answered(g, k), Answered(h, k)
               PROVE  get[g].body = get[h].body
    BY DEF SameAnswerUnlessRaced
  <2>1. CASE k \notin raced
    BY <2>1 DEF EdgeInv, OneFillsTheCache
  <2>2. CASE k \notin Plain
    <3>1. PICK n \in Contents : k = ContentHashedName(n)
      BY <2>2 DEF Keys
    <3> QED
      BY <2>2, <3>1 DEF EdgeInv, HashesAreTrue, Answered
  <2> QED
    BY <2>1, <2>2
<1> QED
  BY <1>1, EdgeInvariant, PTL

-----------------------------------------------------------------------------
ClientStates == {"first", "new", "put", "resume", "complete", "last", "over", "dead"}

CleanerStates == {"idle", "abort", "done", "failed", "lost"}

Cleaners == [at : CleanerStates, listed : SUBSET Clients, left : SUBSET Clients]

Uploads == [at : ClientStates, size : Nat, todo : SUBSET Nat, listed : SUBSET Nat]

MultipartTypes ==
  /\ client \in [Clients -> Uploads]
  /\ open \subseteq Clients /\ made \subseteq Clients
  /\ parts \in [Clients -> SUBSET Nat]
  /\ cleaner \in [Clients -> Cleaners]
  /\ aborted \in [Clients -> SUBSET Clients]

FirstPage(size) == {p \in PartsOf(size) : p <= PageSize}

Trying == {"put", "resume", "complete"}

Begun(c) == client[c].at \notin {"first", "new"}

(***************************************************************************)
(* What a client has put and has still to put is of its file. After it has *)
(* resumed this is all of it, so that ListParts gives the first page of    *)
(* the file and not of some parts of it.                                   *)
(***************************************************************************)
FileOk(c) ==
  /\ ~Begun(c) => parts[c] = {} /\ c \notin open \cup made
  /\ client[c].at \in Trying =>
       /\ c \notin made /\ client[c].size \in FileSizes
       /\ client[c].todo \subseteq PartsOf(client[c].size)
       /\ parts[c] \subseteq PartsOf(client[c].size)
       /\ client[c].at = "resume" => parts[c] \cup client[c].todo = PartsOf(client[c].size)
       /\ client[c].at = "complete" => client[c].listed = FirstPage(client[c].size)

PartsAreOfTheFile == \A c \in Clients : FileOk(c)

ObjectIsOfItsClient ==
  whole # NoObject =>
    /\ whole.by \in made /\ client[whole.by].size \in FileSizes
    /\ whole.parts = FirstPage(client[whole.by].size)

(***************************************************************************)
(* An upload that a clean() has listed is in progress, or has become the   *)
(* object, or was aborted: once, by one process, and for good.             *)
(***************************************************************************)
AbortedForGood ==
  /\ open \cap made = {}
  /\ \A c \in Clients :
       /\ aborted[c] \cap (open \cup made) = {}
       /\ \A u \in aborted[c] : Begun(u)
       /\ \A d \in Clients \ {c} : aborted[c] \cap aborted[d] = {}

Settled(u) == u \in open \/ u \in made \/ \E d \in Clients : u \in aborted[d]

CleanerOk(c) ==
  /\ cleaner[c].left \subseteq cleaner[c].listed
  /\ \A u \in cleaner[c].listed : Begun(u)
  /\ cleaner[c].at = "abort" => \A u \in cleaner[c].left : Settled(u) /\ u \notin aborted[c]
  /\ cleaner[c].at \in {"abort", "done"} => cleaner[c].listed \ cleaner[c].left \subseteq aborted[c]
  /\ cleaner[c].at = "done" => cleaner[c].left = {}
  /\ cleaner[c].at = "failed" =>
       \E u \in cleaner[c].left : u \in made \/ \E d \in Clients \ {c} : u \in aborted[d]

ListedIsSettled == \A c \in Clients : CleanerOk(c)

(***************************************************************************)
(* clean() runs first or last, and the last one has the upload of its own  *)
(* process before it as long as it is in progress.                         *)
(***************************************************************************)
OwnUploadIsListed ==
  \A c \in Clients :
    /\ cleaner[c].at = "abort" =>
         /\ client[c].at \in {"first", "last"}
         /\ client[c].at = "last" /\ c \in open => c \in cleaner[c].left
    /\ client[c].at = "over" /\ cleaner[c].at = "done" => c \notin open

MultipartInv ==
  /\ MultipartTypes /\ PartsAreOfTheFile /\ ObjectIsOfItsClient
  /\ AbortedForGood /\ ListedIsSettled /\ OwnUploadIsListed

-----------------------------------------------------------------------------
(***************************************************************************)
(* A set of natural numbers that is not empty has a least element.         *)
(***************************************************************************)
LEMMA LeastPart ==
  ASSUME NEW S \in SUBSET Nat, S # {}
  PROVE  Min(S) \in S
<1>1. PICK x \in S : \A y \in S : ~ (<<y, x>> \in OpToRel(<, Nat))
  BY NatLessThanWellFounded, WFMin
<1>2. ASSUME NEW y \in S PROVE x <= y
  <2>1. <<y, x>> \in Nat \X Nat /\ <<y, x>>[1] = y /\ <<y, x>>[2] = x
    OBVIOUS
  <2>2. y < x => <<y, x>> \in OpToRel(<, Nat)
    BY <2>1 DEF OpToRel
  <2>3. ~ (y < x)
    BY <1>1, <2>2, Zenon
  <2> QED
    BY <2>3
<1> QED
  BY <1>2 DEF Min

(***************************************************************************)
(* Math.ceil of a quotient: the least multiple that is large enough.       *)
(***************************************************************************)
LEMMA CeilDivCovers ==
  ASSUME NEW a \in Nat, NEW b \in Nat \ {0}
  PROVE  /\ CeilDiv(a, b) \in Nat
         /\ b * CeilDiv(a, b) >= a /\ b * CeilDiv(a, b) < a + b
BY DEF CeilDiv

(***************************************************************************)
(* calculatePartSize: no file has more parts than the storage takes.       *)
(***************************************************************************)
LEMMA NotTooManyParts ==
  ASSUME NEW size \in FileSizes
  PROVE  /\ PartsOf(size) \subseteq 1..MaxParts /\ PartsOf(size) \subseteq Nat
         /\ CeilDiv(size, CalculatePartSize(size)) \in Nat
         /\ PartsOf(size) = 1..CeilDiv(size, CalculatePartSize(size))
<1>1. size \in Nat /\ MaxParts \in Nat \ {0} /\ MinPartSize \in Nat \ {0}
  BY MultipartAssumption
<1>2. PICK s \in Nat : s = CalculatePartSize(size) /\ s > 0 /\ s >= CeilDiv(size, MaxParts)
  <2>1. CeilDiv(size, MaxParts) \in Nat
    BY <1>1, CeilDivCovers
  <2> QED
    BY <1>1, <2>1 DEF CalculatePartSize
<1>3. PICK n \in Nat : n = CeilDiv(size, s) /\ s * n < size + s
  BY <1>1, <1>2, CeilDivCovers
<1>4. s * MaxParts >= size
  <2>1. PICK q \in Nat : q = CeilDiv(size, MaxParts) /\ MaxParts * q >= size
    BY <1>1, CeilDivCovers
  <2>2. s * MaxParts >= MaxParts * q
    BY <1>1, <1>2, <2>1
  <2>3. s * MaxParts \in Nat /\ MaxParts * q \in Nat
    BY <1>1, <1>2, <2>1
  <2> QED
    BY <1>1, <2>1, <2>2, <2>3
<1>5. n <= MaxParts
  <2> SUFFICES ASSUME n >= MaxParts + 1 PROVE FALSE
    BY <1>1, <1>3
  <2>1. s * n >= s * (MaxParts + 1)
    BY <1>1, <1>2, <1>3
  <2>2. s * (MaxParts + 1) = s * MaxParts + s
    BY <1>1, <1>2
  <2>3. s * n \in Nat /\ s * MaxParts \in Nat /\ s * (MaxParts + 1) \in Nat
    BY <1>1, <1>2, <1>3
  <2> QED
    BY <1>1, <1>2, <1>3, <1>4, <2>1, <2>2, <2>3
<1> QED
  BY <1>1, <1>2, <1>3, <1>5 DEF PartsOf

(***************************************************************************)
(* ListParts gives the first page of what is there.                        *)
(***************************************************************************)
LEMMA PageOfAllParts ==
  ASSUME NEW c \in Clients, NEW size \in FileSizes, parts[c] = PartsOf(size)
  PROVE  ListUploadedParts(c) = FirstPage(size)
<1>1. PICK n \in Nat : PartsOf(size) = 1..n
  BY NotTooManyParts
<1>2. PageSize \in Nat
  BY MultipartAssumption
<1>3. ASSUME NEW p \in 1..n PROVE Cardinality({q \in 1..n : q < p}) = p - 1
  <2>1. {q \in 1..n : q < p} = 1..(p - 1)
    BY <1>1
  <2>2. p \in Int /\ p >= 1 /\ p - 1 \in Int /\ 1 \in Int
    BY <1>1
  <2>3. Cardinality(1..(p - 1)) = p - 1
    BY <2>2, FS_Interval
  <2> QED
    BY <2>1, <2>3, Zenon
<1> QED
  BY <1>1, <1>2, <1>3 DEF ListUploadedParts, FirstPage

(***************************************************************************)
(* A file has a first part, and it is on the first page.                   *)
(***************************************************************************)
LEMMA FirstPageHasAPart ==
  ASSUME NEW size \in FileSizes
  PROVE  1 \in FirstPage(size) /\ FirstPage(size) \subseteq Nat
<1>1. size \in Nat /\ size > 0 /\ PageSize \in Nat /\ PageSize > 0
  BY MultipartAssumption
<1>2. PICK s \in Nat : s = CalculatePartSize(size) /\ s > 0
  <2>1. CeilDiv(size, MaxParts) \in Nat /\ MinPartSize \in Nat \ {0}
    BY <1>1, MultipartAssumption, CeilDivCovers
  <2> QED
    BY <2>1 DEF CalculatePartSize
<1>3. PICK n \in Nat : n = CeilDiv(size, s) /\ s * n >= size
  BY <1>1, <1>2, CeilDivCovers
<1>4. n # 0
  <2> SUFFICES ASSUME n = 0 PROVE FALSE
    OBVIOUS
  <2>1. s * n = 0
    BY <1>2
  <2> QED
    BY <1>1, <1>3, <2>1
<1> QED
  BY <1>1, <1>2, <1>3, <1>4, NotTooManyParts DEF FirstPage, PartsOf

(***************************************************************************)
(* Nobody has begun, and the key has no object.                            *)
(***************************************************************************)
LEMMA MultipartStart == MultipartInit => MultipartInv
<1> SUFFICES ASSUME MultipartInit PROVE MultipartInv
  OBVIOUS
<1>1. MultipartTypes
  BY DEF MultipartInit, MultipartTypes, Uploads, Cleaners, ClientStates, CleanerStates
<1>2. PartsAreOfTheFile /\ ObjectIsOfItsClient /\ AbortedForGood
  BY DEF MultipartInit, PartsAreOfTheFile, FileOk, ObjectIsOfItsClient, AbortedForGood, Begun, Trying
<1>3. ListedIsSettled /\ OwnUploadIsListed
  BY DEF MultipartInit, ListedIsSettled, OwnUploadIsListed, CleanerOk
<1> QED
  BY <1>1, <1>2, <1>3 DEF MultipartInv

(***************************************************************************)
(* A client goes on with its upload or breaks it off; what is known of     *)
(* other uploads and of cleanups does not depend on it unless it makes its *)
(* object.                                                                 *)
(***************************************************************************)
LEMMA ClientMoves ==
  ASSUME MultipartInv, NEW c \in Clients, client[c].at \in Trying, client'[c].at \in Trying \cup {"last", "dead"},
         \A d \in Clients : d # c => client'[d] = client[d],
         client'[c].size = client[c].size, UNCHANGED <<open, whole, made, cleaner, aborted>>
  PROVE  ObjectIsOfItsClient' /\ AbortedForGood' /\ ListedIsSettled' /\ OwnUploadIsListed'
<1>1. \A d \in Clients : client'[d].size = client[d].size /\ Begun(d)' = Begun(d)
  BY DEF Begun, Trying
<1>2. ObjectIsOfItsClient' /\ AbortedForGood'
  BY <1>1 DEF MultipartInv, MultipartTypes, ObjectIsOfItsClient, AbortedForGood, FirstPage
<1>3. ListedIsSettled'
  BY <1>1 DEF MultipartInv, MultipartTypes, ListedIsSettled, CleanerOk, Settled, Cleaners
<1>4. OwnUploadIsListed'
  BY <1>1 DEF MultipartInv, OwnUploadIsListed, Trying
<1> QED
  BY <1>2, <1>3, <1>4

(***************************************************************************)
(* createMultipartUpload, whether or not its answer comes: nobody has      *)
(* listed the new upload yet.                                              *)
(***************************************************************************)
LEMMA UploadOpens ==
  ASSUME MultipartInv, NEW c \in Clients, client[c].at = "new",
         client'[c].at \in {"put", "last", "dead"}, \A d \in Clients : d # c => client'[d] = client[d],
         open' \in {open, open \cup {c}}, UNCHANGED <<whole, made, cleaner, aborted>>
  PROVE  ObjectIsOfItsClient' /\ AbortedForGood' /\ ListedIsSettled' /\ OwnUploadIsListed'
<1>1. ~Begun(c) /\ Begun(c)' /\ \A d \in Clients : d # c => Begun(d)' = Begun(d)
  BY DEF Begun
<1>2. c \notin open \cup made
  BY <1>1 DEF MultipartInv, PartsAreOfTheFile, FileOk
<1>3. ObjectIsOfItsClient'
  BY <1>2 DEF MultipartInv, MultipartTypes, ObjectIsOfItsClient, FirstPage
<1>4. AbortedForGood'
  BY <1>1, <1>2 DEF MultipartInv, MultipartTypes, AbortedForGood
<1>5. ListedIsSettled'
  BY <1>1 DEF MultipartInv, MultipartTypes, ListedIsSettled, CleanerOk, Settled, Cleaners
<1>6. OwnUploadIsListed'
  BY DEF MultipartInv, OwnUploadIsListed
<1> QED
  BY <1>3, <1>4, <1>5, <1>6

(***************************************************************************)
(* createMultipartUpload: the parts the client is about to put are of its  *)
(* file.                                                                   *)
(***************************************************************************)
LEMMA CreateInv ==
  ASSUME MultipartInv, NEW c \in Clients, NEW size \in FileSizes, NEW n \in 0..MaxParts,
         CreateMultipartUpload(c, size, n)
  PROVE  MultipartInv'
<1>1. /\ client[c].at = "new" /\ 1..n \subseteq PartsOf(size) /\ open' = open \cup {c}
      /\ client' = [client EXCEPT ![c] = [@ EXCEPT !.at = "put", !.size = size, !.todo = 1..n]]
      /\ UNCHANGED <<parts, whole, cleaner, made, aborted>>
  BY DEF CreateMultipartUpload
<1>2. size \in Nat /\ PartsOf(size) \subseteq Nat
  BY MultipartAssumption, NotTooManyParts
<1>3. /\ client'[c].at = "put" /\ client'[c].size = size /\ client'[c].todo = 1..n
      /\ client'[c].listed = client[c].listed
      /\ \A d \in Clients : d # c => client'[d] = client[d]
  BY <1>1 DEF MultipartInv, MultipartTypes, Uploads
<1>4. MultipartTypes'
  BY <1>1, <1>2 DEF MultipartInv, MultipartTypes, Uploads, ClientStates
<1>5. PartsAreOfTheFile'
  <2> SUFFICES ASSUME NEW d \in Clients PROVE FileOk(d)'
    BY DEF PartsAreOfTheFile
  <2>1. FileOk(d) /\ FileOk(c)
    BY DEF MultipartInv, PartsAreOfTheFile
  <2>2. CASE d = c
    BY <1>1, <1>3, <2>1, <2>2 DEF FileOk, Begun, FirstPage
  <2>3. CASE d # c
    BY <1>1, <1>3, <2>1, <2>3 DEF FileOk, Begun, FirstPage
  <2> QED
    BY <2>2, <2>3
<1> QED
  BY <1>1, <1>3, <1>4, <1>5, UploadOpens DEF MultipartInv

(***************************************************************************)
(* A client that breaks off leaves its parts to the storage.               *)
(***************************************************************************)
LEMMA AdvanceInv ==
  ASSUME MultipartInv, NEW c \in Clients, NEW label \in {"last", "dead"}, Advance(c, label),
         client[c].at \in Trying \cup {"new"}, UNCHANGED parts
  PROVE  /\ client' \in [Clients -> Uploads]
         /\ client'[c].at = label /\ client'[c].size = client[c].size
         /\ \A d \in Clients : d # c => client'[d] = client[d]
         /\ (open' \subseteq open \cup {c} /\ made' \subseteq made \cup {c}) => PartsAreOfTheFile'
<1>1. client' = [client EXCEPT ![c].at = label]
  BY DEF Advance
<1>2. /\ client' \in [Clients -> Uploads]
      /\ client'[c].at = label /\ client'[c].size = client[c].size
      /\ \A d \in Clients : d # c => client'[d] = client[d]
  BY <1>1 DEF MultipartInv, MultipartTypes, ClientStates, Uploads
<1>3. ASSUME open' \subseteq open \cup {c}, made' \subseteq made \cup {c} PROVE PartsAreOfTheFile'
  <2> SUFFICES ASSUME NEW d \in Clients PROVE FileOk(d)'
    BY DEF PartsAreOfTheFile
  <2>1. FileOk(d)
    BY DEF MultipartInv, PartsAreOfTheFile
  <2>2. CASE d = c
    BY <1>2, <2>2 DEF FileOk, Begun, Trying
  <2>3. CASE d # c
    BY <1>2, <1>3, <2>1, <2>3 DEF FileOk, Begun, FirstPage
  <2> QED
    BY <2>2, <2>3
<1> QED
  BY <1>2, <1>3

(***************************************************************************)
(* A call of the upload fails for good, without an effect.                 *)
(***************************************************************************)
LEMMA BreakOffInv ==
  ASSUME MultipartInv, NEW c \in Clients, NEW label \in {"last", "dead"}, Advance(c, label),
         client[c].at \in Trying, UNCHANGED <<parts, open, whole, made, cleaner, aborted>>
  PROVE  MultipartInv'
<1>1. /\ client' \in [Clients -> Uploads] /\ PartsAreOfTheFile'
      /\ client'[c].at = label /\ client'[c].size = client[c].size
      /\ \A d \in Clients : d # c => client'[d] = client[d]
  BY AdvanceInv
<1>2. MultipartTypes'
  BY <1>1 DEF MultipartInv, MultipartTypes
<1> QED
  BY <1>1, <1>2, ClientMoves DEF MultipartInv

(***************************************************************************)
(* The PUT of a part, and the list that says what is left to put.          *)
(***************************************************************************)
LEMMA PutPartInv ==
  ASSUME MultipartInv, NEW c \in Clients, PutPart(c)
  PROVE  MultipartInv'
<1>1. /\ client[c].at \in {"put", "resume"} /\ client[c].at \in Trying /\ client[c].todo # {}
      /\ UNCHANGED <<open, whole, cleaner, made, aborted>>
  BY DEF PutPart, Trying
<1>2. CASE c \notin open /\ Advance(c, "last") /\ UNCHANGED parts
  BY <1>1, <1>2, BreakOffInv
<1> DEFINE p == Min(client[c].todo)
<1>3. CASE /\ parts' = [parts EXCEPT ![c] = @ \cup {p}]
           /\ client' = [client EXCEPT ![c].todo = @ \ {p}]
  <2>1. client[c].todo \in SUBSET Nat
    BY DEF MultipartInv, MultipartTypes, Uploads
  <2>2. p \in client[c].todo /\ p \in Nat
    BY <1>1, <2>1, LeastPart
  <2> HIDE DEF p
  <2>3. /\ client'[c].at = client[c].at /\ client'[c].size = client[c].size
        /\ client'[c].todo = client[c].todo \ {p} /\ client'[c].listed = client[c].listed
        /\ parts'[c] = parts[c] \cup {p}
        /\ \A d \in Clients : d # c => client'[d] = client[d] /\ parts'[d] = parts[d]
    BY <1>3 DEF MultipartInv, MultipartTypes, Uploads
  <2>4. MultipartTypes'
    BY <1>1, <1>3, <2>1, <2>2 DEF MultipartInv, MultipartTypes, Uploads
  <2>5. PartsAreOfTheFile'
    <3> SUFFICES ASSUME NEW d \in Clients PROVE FileOk(d)'
      BY DEF PartsAreOfTheFile
    <3>1. FileOk(d)
      BY DEF MultipartInv, PartsAreOfTheFile
    <3>2. CASE d = c
      BY <1>1, <2>2, <2>3, <3>1, <3>2 DEF FileOk, Begun, FirstPage
    <3>3. CASE d # c
      BY <1>1, <2>3, <3>1, <3>3 DEF FileOk, Begun, FirstPage
    <3> QED
      BY <3>2, <3>3
  <2> QED
    BY <1>1, <2>3, <2>4, <2>5, ClientMoves DEF MultipartInv
<1> QED
  BY <1>2, <1>3 DEF PutPart

(***************************************************************************)
(* What ListParts does not give is put again.                              *)
(***************************************************************************)
LEMMA ResumeInv ==
  ASSUME MultipartInv, NEW c \in Clients, Resume(c)
  PROVE  MultipartInv'
<1>1. /\ client[c].at = "put" /\ client[c].at \in Trying /\ client[c].todo = {}
      /\ UNCHANGED <<open, parts, whole, cleaner, made, aborted>>
  BY DEF Resume, Trying
<1>2. CASE Advance(c, "last")
  BY <1>1, <1>2, BreakOffInv
<1>3. CASE client' = [client EXCEPT ![c].at = "resume",
                                    ![c].todo = PartsOf(client[c].size) \ ListUploadedParts(c)]
  <2>1. PICK todo : todo = PartsOf(client[c].size) \ ListUploadedParts(c)
    OBVIOUS
  <2>2. client[c].size \in FileSizes /\ parts[c] \subseteq PartsOf(client[c].size) /\ c \notin made
    BY <1>1 DEF MultipartInv, PartsAreOfTheFile, FileOk
  <2>3. todo \subseteq Nat /\ todo \subseteq PartsOf(client[c].size)
        /\ parts[c] \cup todo = PartsOf(client[c].size)
    BY <2>1, <2>2, NotTooManyParts DEF ListUploadedParts
  <2>4. /\ client'[c].at = "resume" /\ client'[c].size = client[c].size
        /\ client'[c].todo = todo /\ client'[c].listed = client[c].listed
        /\ \A d \in Clients : d # c => client'[d] = client[d]
    BY <1>3, <2>1 DEF MultipartInv, MultipartTypes, Uploads
  <2>5. MultipartTypes'
    <3>1. client' = [client EXCEPT ![c].at = "resume", ![c].todo = todo]
      BY <1>3, <2>1
    <3>2. "resume" \in ClientStates /\ todo \in SUBSET Nat
      BY <2>3 DEF ClientStates
    <3>3. client' \in [Clients -> Uploads]
      BY <3>1, <3>2 DEF MultipartInv, MultipartTypes, Uploads
    <3> QED
      BY <1>1, <3>3 DEF MultipartInv, MultipartTypes
  <2>6. PartsAreOfTheFile'
    <3> SUFFICES ASSUME NEW d \in Clients PROVE FileOk(d)'
      BY DEF PartsAreOfTheFile
    <3>1. FileOk(d)
      BY DEF MultipartInv, PartsAreOfTheFile
    <3>2. CASE d = c
      BY <1>1, <2>2, <2>3, <2>4, <3>2 DEF FileOk, Begun, FirstPage
    <3>3. CASE d # c
      BY <1>1, <2>4, <3>1, <3>3 DEF FileOk, Begun, FirstPage
    <3> QED
      BY <3>2, <3>3
  <2> QED
    BY <1>1, <2>4, <2>5, <2>6, ClientMoves DEF MultipartInv, Trying
<1> QED
  BY <1>2, <1>3 DEF Resume

(***************************************************************************)
(* When nothing is left to put, ListParts gives the first page of the      *)
(* whole file.                                                             *)
(***************************************************************************)
LEMMA ListForCompleteInv ==
  ASSUME MultipartInv, NEW c \in Clients, ListForComplete(c)
  PROVE  MultipartInv'
<1>1. /\ client[c].at = "resume" /\ client[c].at \in Trying /\ client[c].todo = {}
      /\ UNCHANGED <<open, parts, whole, cleaner, made, aborted>>
  BY DEF ListForComplete, Trying
<1>2. CASE Advance(c, "last")
  BY <1>1, <1>2, BreakOffInv
<1>3. CASE client' = [client EXCEPT ![c].at = "complete", ![c].listed = ListUploadedParts(c)]
  <2>1. client[c].size \in FileSizes /\ parts[c] = PartsOf(client[c].size) /\ c \notin made
    BY <1>1 DEF MultipartInv, PartsAreOfTheFile, FileOk
  <2>2. ListUploadedParts(c) = FirstPage(client[c].size)
    BY <2>1, PageOfAllParts
  <2>3. FirstPage(client[c].size) \subseteq Nat
    BY <2>1, FirstPageHasAPart
  <2>4. /\ client'[c].at = "complete" /\ client'[c].size = client[c].size
        /\ client'[c].todo = client[c].todo /\ client'[c].listed = FirstPage(client[c].size)
        /\ \A d \in Clients : d # c => client'[d] = client[d]
    BY <1>3, <2>2 DEF MultipartInv, MultipartTypes, Uploads
  <2>5. MultipartTypes'
    <3>1. client \in [Clients -> Uploads] /\ client[c] \in Uploads
      BY DEF MultipartInv, MultipartTypes
    <3>2. [client[c] EXCEPT !.at = "complete", !.listed = FirstPage(client[c].size)] \in Uploads
      BY <3>1, <2>3 DEF Uploads, ClientStates
    <3>3. client' = [client EXCEPT ![c] =
                       [client[c] EXCEPT !.at = "complete", !.listed = FirstPage(client[c].size)]]
      BY <1>3, <2>2, <3>1 DEF Uploads
    <3>4. client' \in [Clients -> Uploads]
      BY <3>1, <3>2, <3>3
    <3> QED
      BY <1>1, <3>4 DEF MultipartInv, MultipartTypes
  <2>6. PartsAreOfTheFile'
    <3> SUFFICES ASSUME NEW d \in Clients PROVE FileOk(d)'
      BY DEF PartsAreOfTheFile
    <3>1. FileOk(d)
      BY DEF MultipartInv, PartsAreOfTheFile
    <3>2. CASE d = c
      BY <1>1, <2>1, <2>4, <3>2 DEF FileOk, Begun, FirstPage
    <3>3. CASE d # c
      BY <1>1, <2>4, <3>1, <3>3 DEF FileOk, Begun, FirstPage
    <3> QED
      BY <3>2, <3>3
  <2> QED
    BY <1>1, <2>4, <2>5, <2>6, ClientMoves DEF MultipartInv, Trying
<1> QED
  BY <1>2, <1>3 DEF ListForComplete

(***************************************************************************)
(* The storage makes the object of the parts that were listed, whether or  *)
(* not the client hears of it.                                             *)
(***************************************************************************)
LEMMA MakeObjectInv ==
  ASSUME MultipartInv, NEW c \in Clients, NEW label \in {"last", "dead"}, client[c].at = "complete",
         MakeObject(c), Advance(c, label), UNCHANGED <<parts, cleaner, aborted>>
  PROVE  MultipartInv'
<1>1. /\ c \in open /\ whole' = [by |-> c, parts |-> client[c].listed]
      /\ open' = open \ {c} /\ made' = made \cup {c}
  BY DEF MakeObject
<1>2. /\ client' \in [Clients -> Uploads]
      /\ client'[c].at = label /\ client'[c].size = client[c].size
      /\ \A d \in Clients : d # c => client'[d] = client[d]
      /\ PartsAreOfTheFile'
  BY <1>1, AdvanceInv DEF Trying
<1>3. MultipartTypes'
  BY <1>1, <1>2 DEF MultipartInv, MultipartTypes
<1>4. ObjectIsOfItsClient'
  <2>1. /\ whole'.by = c /\ whole'.parts = FirstPage(client[c].size)
        /\ client[c].size \in FileSizes
    BY <1>1 DEF MultipartInv, PartsAreOfTheFile, FileOk, Trying
  <2> QED
    BY <1>1, <1>2, <2>1 DEF ObjectIsOfItsClient, FirstPage
<1>5. \A d \in Clients : Begun(d)' = Begun(d)
  BY <1>2 DEF Begun
<1>6. open' \cup made' = open \cup made /\ open' \cap made' = {}
  BY <1>1 DEF MultipartInv, AbortedForGood
<1>7. AbortedForGood'
  BY <1>5, <1>6 DEF MultipartInv, MultipartTypes, AbortedForGood
<1>8. ListedIsSettled'
  BY <1>1, <1>5, <1>6 DEF MultipartInv, MultipartTypes, ListedIsSettled, CleanerOk, Settled, Cleaners
<1>9. OwnUploadIsListed'
  BY <1>1, <1>2 DEF MultipartInv, OwnUploadIsListed
<1> QED
  BY <1>2, <1>3, <1>4, <1>7, <1>8, <1>9 DEF MultipartInv

(***************************************************************************)
(* CompleteMultipartUpload fails when the upload is not there any more.    *)
(***************************************************************************)
LEMMA CompleteInv ==
  ASSUME MultipartInv, NEW c \in Clients, CompleteMultipartUpload(c)
  PROVE  MultipartInv'
<1>1. client[c].at = "complete" /\ client[c].at \in Trying /\ UNCHANGED <<parts, cleaner, aborted>>
  BY DEF CompleteMultipartUpload, Trying
<1>2. CASE MakeObject(c) /\ Advance(c, "last")
  BY <1>1, <1>2, MakeObjectInv
<1>3. CASE c \notin open /\ Advance(c, "last") /\ UNCHANGED <<whole, open, made>>
  BY <1>1, <1>3, BreakOffInv
<1> QED
  BY <1>2, <1>3 DEF CompleteMultipartUpload

(***************************************************************************)
(* A call that fails, or whose answer does not come.                       *)
(***************************************************************************)
LEMMA ClientFailsInv ==
  ASSUME MultipartInv, NEW c \in Clients, ClientFails(c)
  PROVE  MultipartInv'
<1>1. /\ client[c].at \in Trying \cup {"new"} /\ UNCHANGED <<parts, cleaner, aborted>>
      /\ \E label \in {"last", "dead"} : Advance(c, label)
  BY DEF ClientFails, Trying
<1>2. PICK label \in {"last", "dead"} : Advance(c, label)
  BY <1>1
<1>3. CASE client[c].at = "complete" /\ MakeObject(c)
  BY <1>1, <1>2, <1>3, MakeObjectInv
<1>4. CASE client[c].at \in Trying /\ UNCHANGED <<open, whole, made>>
  BY <1>1, <1>2, <1>4, BreakOffInv
<1>5. CASE client[c].at = "new" /\ open' \in {open, open \cup {c}} /\ UNCHANGED <<whole, made>>
  <2>1. /\ client' \in [Clients -> Uploads] /\ PartsAreOfTheFile'
        /\ client'[c].at = label /\ \A d \in Clients : d # c => client'[d] = client[d]
    BY <1>1, <1>2, <1>5, AdvanceInv
  <2>2. MultipartTypes'
    BY <1>1, <1>5, <2>1 DEF MultipartInv, MultipartTypes
  <2> QED
    BY <1>1, <1>5, <2>1, <2>2, UploadOpens DEF MultipartInv
<1> QED
  BY <1>1, <1>3, <1>4, <1>5 DEF ClientFails

(***************************************************************************)
(* clean() takes away uploads, and the object, and nothing else.           *)
(***************************************************************************)
LEMMA CleaningKeeps ==
  ASSUME MultipartInv, NEW c \in Clients, NEW label \in {"first", "new", "last", "over"},
         client' = [client EXCEPT ![c].at = label],
         client[c].at \in {"first", "last"}, Begun(c) => label \in {"last", "over"},
         cleaner' \in [Clients -> Cleaners], aborted' \in [Clients -> SUBSET Clients],
         UNCHANGED <<parts, made>>, open' \subseteq open, whole' \in {whole, NoObject}
  PROVE  /\ MultipartTypes' /\ PartsAreOfTheFile' /\ ObjectIsOfItsClient'
         /\ client'[c].at = label /\ \A d \in Clients : d # c => client'[d] = client[d]
         /\ \A d \in Clients : Begun(d) => Begun(d)'
<1>1. /\ client' \in [Clients -> Uploads]
      /\ client'[c].at = label /\ client'[c].size = client[c].size
      /\ \A d \in Clients : d # c => client'[d] = client[d]
  BY DEF MultipartInv, MultipartTypes, Uploads, ClientStates
<1>2. MultipartTypes'
  BY <1>1 DEF MultipartInv, MultipartTypes
<1>3. \A d \in Clients : Begun(d) => Begun(d)'
  BY <1>1 DEF Begun
<1>4. PartsAreOfTheFile'
  <2> SUFFICES ASSUME NEW d \in Clients PROVE FileOk(d)'
    BY DEF PartsAreOfTheFile
  <2>1. FileOk(d)
    BY DEF MultipartInv, PartsAreOfTheFile
  <2>2. CASE d = c
    BY <1>1, <1>3, <2>1, <2>2 DEF FileOk, Trying
  <2>3. CASE d # c
    BY <1>1, <1>3, <2>1, <2>3 DEF FileOk, Begun, FirstPage
  <2> QED
    BY <2>2, <2>3
<1>5. ObjectIsOfItsClient'
  BY <1>1 DEF MultipartInv, MultipartTypes, ObjectIsOfItsClient, FirstPage
<1> QED
  BY <1>1, <1>2, <1>3, <1>4, <1>5

(***************************************************************************)
(* Every upload that is in progress is about to be aborted, whoever else   *)
(* is about to abort it.                                                   *)
(***************************************************************************)
LEMMA ListUploadsInv ==
  ASSUME MultipartInv, NEW c \in Clients, ListUploads(c)
  PROVE  MultipartInv'
<1>1. /\ client[c].at \in {"first", "last"}
      /\ cleaner' = [cleaner EXCEPT ![c] = [at |-> "abort", listed |-> open, left |-> open]]
      /\ UNCHANGED <<client, open, parts, whole, made, aborted>>
  BY DEF ListUploads
<1>2. /\ cleaner'[c] = [at |-> "abort", listed |-> open, left |-> open]
      /\ \A d \in Clients : d # c => cleaner'[d] = cleaner[d]
      /\ cleaner' \in [Clients -> Cleaners]
  BY <1>1 DEF MultipartInv, MultipartTypes, Cleaners, CleanerStates
<1>3. MultipartTypes' /\ PartsAreOfTheFile' /\ ObjectIsOfItsClient' /\ AbortedForGood'
  BY <1>1, <1>2
     DEF MultipartInv, MultipartTypes, PartsAreOfTheFile, FileOk, ObjectIsOfItsClient, AbortedForGood,
         Begun, FirstPage
<1>4. ListedIsSettled'
  <2> SUFFICES ASSUME NEW d \in Clients PROVE CleanerOk(d)'
    BY DEF ListedIsSettled
  <2>1. CASE d = c
    <3>1. \A u \in open : Begun(u) /\ \A e \in Clients : u \notin aborted[e]
      BY DEF MultipartInv, MultipartTypes, PartsAreOfTheFile, FileOk, AbortedForGood
    <3> QED
      BY <1>1, <1>2, <2>1, <3>1 DEF CleanerOk, Settled, Begun
  <2>2. CASE d # c
    BY <1>1, <1>2, <2>2 DEF MultipartInv, ListedIsSettled, CleanerOk, Settled, Begun
  <2> QED
    BY <2>1, <2>2
<1>5. OwnUploadIsListed'
  BY <1>1, <1>2 DEF MultipartInv, OwnUploadIsListed
<1> QED
  BY <1>3, <1>4, <1>5 DEF MultipartInv

(***************************************************************************)
(* One upload less in progress, aborted by this process and no other.      *)
(***************************************************************************)
LEMMA AbortTakes ==
  ASSUME MultipartInv, NEW c \in Clients, NEW u \in open, u \in cleaner[c].left,
         open' = open \ {u}, aborted' = [aborted EXCEPT ![c] = @ \cup {u}], made' = made,
         \A d \in Clients : Begun(d) => Begun(d)'
  PROVE  /\ aborted' \in [Clients -> SUBSET Clients] /\ aborted'[c] = aborted[c] \cup {u}
         /\ \A d \in Clients : d # c => aborted'[d] = aborted[d]
         /\ \A d \in Clients : Settled(d) => Settled(d)'
         /\ AbortedForGood'
<1>1. u \in Clients
  BY DEF MultipartInv, MultipartTypes
<1>2. /\ aborted' \in [Clients -> SUBSET Clients] /\ aborted'[c] = aborted[c] \cup {u}
      /\ \A d \in Clients : d # c => aborted'[d] = aborted[d]
  BY <1>1 DEF MultipartInv, MultipartTypes
<1>3. \A d \in Clients : Settled(d) => Settled(d)'
  BY <1>2 DEF Settled
<1>4. u \notin made /\ Begun(u) /\ \A d \in Clients : u \notin aborted[d]
  BY <1>1 DEF MultipartInv, AbortedForGood, PartsAreOfTheFile, FileOk
<1>5. AbortedForGood'
  <2>1. open' \cap made' = {}
    BY DEF MultipartInv, AbortedForGood
  <2>2. ASSUME NEW d \in Clients
        PROVE  aborted'[d] \cap (open' \cup made') = {} /\ \A w \in aborted'[d] : Begun(w)'
    BY <1>1, <1>2, <1>4 DEF MultipartInv, MultipartTypes, AbortedForGood
  <2>3. ASSUME NEW d \in Clients, NEW e \in Clients \ {d} PROVE aborted'[d] \cap aborted'[e] = {}
    BY <1>2, <1>4 DEF MultipartInv, AbortedForGood
  <2> QED
    BY <2>1, <2>2, <2>3 DEF AbortedForGood
<1> QED
  BY <1>2, <1>3, <1>5

(***************************************************************************)
(* An upload that is not there any more has become the object, or another  *)
(* process has aborted it: abort throws, and clean() with it.              *)
(***************************************************************************)
LEMMA AbortUploadInv ==
  ASSUME MultipartInv, NEW c \in Clients, NEW u \in Clients, AbortUpload(c, u)
  PROVE  MultipartInv'
<1>1. cleaner[c].at = "abort" /\ u \in cleaner[c].left /\ UNCHANGED <<parts, whole, made>>
  BY DEF AbortUpload
<1>2. /\ client \in [Clients -> Uploads] /\ cleaner \in [Clients -> Cleaners]
      /\ aborted \in [Clients -> SUBSET Clients] /\ client[c].at \in {"first", "last"}
  BY <1>1 DEF MultipartInv, MultipartTypes, OwnUploadIsListed
<1>3. CASE /\ u \in open /\ open' = open \ {u} /\ UNCHANGED client
           /\ aborted' = [aborted EXCEPT ![c] = @ \cup {u}]
           /\ cleaner' = [cleaner EXCEPT ![c].left = @ \ {u}]
  <2>1. /\ cleaner'[c].at = "abort" /\ cleaner'[c].listed = cleaner[c].listed
        /\ cleaner'[c].left = cleaner[c].left \ {u}
        /\ \A d \in Clients : d # c => cleaner'[d] = cleaner[d]
        /\ cleaner' \in [Clients -> Cleaners]
    BY <1>1, <1>2, <1>3 DEF Cleaners
  <2>2. \A d \in Clients : Begun(d)' = Begun(d)
    BY <1>3 DEF Begun
  <2>3. /\ aborted' \in [Clients -> SUBSET Clients] /\ aborted'[c] = aborted[c] \cup {u}
        /\ \A d \in Clients : d # c => aborted'[d] = aborted[d]
        /\ \A d \in Clients : Settled(d) => Settled(d)'
        /\ AbortedForGood'
    BY <1>1, <1>3, <2>2, AbortTakes
  <2>4. MultipartTypes' /\ PartsAreOfTheFile' /\ ObjectIsOfItsClient'
    BY <1>1, <1>3, <2>1, <2>2, <2>3
       DEF MultipartInv, MultipartTypes, PartsAreOfTheFile, FileOk, ObjectIsOfItsClient, FirstPage
  <2>5. ListedIsSettled'
    <3> SUFFICES ASSUME NEW d \in Clients PROVE CleanerOk(d)'
      BY DEF ListedIsSettled
    <3>1. CleanerOk(d) /\ cleaner[d].left \subseteq Clients /\ cleaner[d].listed \subseteq Clients
      BY <1>2 DEF MultipartInv, ListedIsSettled, Cleaners
    <3>2. CASE d = c
      BY <1>1, <2>1, <2>2, <2>3, <3>1, <3>2 DEF CleanerOk
    <3>3. CASE d # c
      <4>1. aborted'[d] = aborted[d] /\ cleaner'[d] = cleaner[d]
        BY <2>1, <2>3, <3>3
      <4>2. \A e \in Clients : aborted[e] \subseteq aborted'[e]
        BY <2>3
      <4> QED
        BY <1>1, <2>2, <2>3, <3>1, <4>1, <4>2 DEF CleanerOk
    <3> QED
      BY <3>2, <3>3
  <2>6. OwnUploadIsListed'
    BY <1>3, <2>1 DEF MultipartInv, OwnUploadIsListed
  <2> QED
    BY <2>3, <2>4, <2>5, <2>6 DEF MultipartInv
<1>4. CASE /\ u \notin open /\ cleaner' = [cleaner EXCEPT ![c].at = "failed"]
           /\ Advance(c, "over") /\ UNCHANGED <<open, aborted>>
  <2>1. /\ cleaner'[c].at = "failed" /\ cleaner'[c].listed = cleaner[c].listed
        /\ cleaner'[c].left = cleaner[c].left
        /\ \A d \in Clients : d # c => cleaner'[d] = cleaner[d]
        /\ cleaner' \in [Clients -> Cleaners]
    BY <1>2, <1>4 DEF Cleaners, CleanerStates
  <2>2. client' = [client EXCEPT ![c].at = "over"]
    BY <1>4 DEF Advance
  <2>3. /\ MultipartTypes' /\ PartsAreOfTheFile' /\ ObjectIsOfItsClient'
        /\ client'[c].at = "over" /\ \A d \in Clients : d # c => client'[d] = client[d]
        /\ \A d \in Clients : Begun(d) => Begun(d)'
    BY <1>1, <1>2, <1>4, <2>1, <2>2, CleaningKeeps
  <2>4. AbortedForGood'
    BY <1>1, <1>2, <1>4, <2>3 DEF MultipartInv, AbortedForGood
  <2>5. u \in made \/ \E d \in Clients \ {c} : u \in aborted[d]
    BY <1>1, <1>4 DEF MultipartInv, ListedIsSettled, CleanerOk, Settled
  <2>6. ListedIsSettled'
    <3> SUFFICES ASSUME NEW d \in Clients PROVE CleanerOk(d)'
      BY DEF ListedIsSettled
    <3>1. CleanerOk(d) /\ cleaner[d].left \subseteq Clients /\ cleaner[d].listed \subseteq Clients
      BY <1>2 DEF MultipartInv, ListedIsSettled, Cleaners
    <3>2. CASE d = c
      BY <1>1, <1>4, <2>1, <2>3, <2>5, <3>1, <3>2 DEF CleanerOk
    <3>3. CASE d # c
      BY <1>1, <1>4, <2>1, <2>3, <3>1, <3>3 DEF CleanerOk, Settled
    <3> QED
      BY <3>2, <3>3
  <2>7. OwnUploadIsListed'
    BY <1>4, <2>1, <2>3 DEF MultipartInv, OwnUploadIsListed
  <2> QED
    BY <2>3, <2>4, <2>6, <2>7 DEF MultipartInv
<1> QED
  BY <1>3, <1>4 DEF AbortUpload

(***************************************************************************)
(* All aborts have succeeded: clean() returns, and main goes on or ends.   *)
(***************************************************************************)
LEMMA DeleteObjectInv ==
  ASSUME MultipartInv, NEW c \in Clients, DeleteDemoObject(c)
  PROVE  MultipartInv'
<1> DEFINE label == IF client[c].at = "first" THEN "new" ELSE "over"
<1>1. /\ cleaner[c].at = "abort" /\ cleaner[c].left = {}
      /\ cleaner' = [cleaner EXCEPT ![c].at = "done"]
      /\ client' = [client EXCEPT ![c].at = label]
      /\ whole' \in {whole, NoObject} /\ UNCHANGED <<open, parts, made, aborted>>
  BY DEF DeleteDemoObject, Advance
<1>2. /\ cleaner \in [Clients -> Cleaners] /\ aborted \in [Clients -> SUBSET Clients]
      /\ client[c].at \in {"first", "last"} /\ (client[c].at = "last" => c \notin open)
  BY <1>1 DEF MultipartInv, MultipartTypes, OwnUploadIsListed
<1>3. label \in {"new", "over"} /\ (label = "over" => client[c].at = "last")
      /\ (Begun(c) => label = "over")
  BY <1>2 DEF Begun
<1> HIDE DEF label
<1>4. /\ cleaner'[c].at = "done" /\ cleaner'[c].listed = cleaner[c].listed /\ cleaner'[c].left = {}
      /\ \A d \in Clients : d # c => cleaner'[d] = cleaner[d]
      /\ cleaner' \in [Clients -> Cleaners]
  BY <1>1, <1>2 DEF Cleaners, CleanerStates
<1>5. /\ MultipartTypes' /\ PartsAreOfTheFile' /\ ObjectIsOfItsClient'
      /\ client'[c].at = label /\ \A d \in Clients : d # c => client'[d] = client[d]
      /\ \A d \in Clients : Begun(d) => Begun(d)'
  BY <1>1, <1>2, <1>3, <1>4, CleaningKeeps
<1>6. AbortedForGood'
  BY <1>1, <1>2, <1>5 DEF MultipartInv, AbortedForGood
<1>7. ListedIsSettled'
  <2> SUFFICES ASSUME NEW d \in Clients PROVE CleanerOk(d)'
    BY DEF ListedIsSettled
  <2>1. CleanerOk(d) /\ cleaner[d].left \subseteq Clients /\ cleaner[d].listed \subseteq Clients
    BY <1>2 DEF MultipartInv, ListedIsSettled, Cleaners
  <2>2. CASE d = c
    BY <1>1, <1>4, <1>5, <2>1, <2>2 DEF CleanerOk
  <2>3. CASE d # c
    BY <1>1, <1>4, <1>5, <2>1, <2>3 DEF CleanerOk, Settled
  <2> QED
    BY <2>2, <2>3
<1>8. OwnUploadIsListed'
  BY <1>1, <1>2, <1>3, <1>4, <1>5 DEF MultipartInv, OwnUploadIsListed
<1> QED
  BY <1>5, <1>6, <1>7, <1>8 DEF MultipartInv

(***************************************************************************)
(* A call of clean() fails, and with an abort perhaps only its answer.     *)
(***************************************************************************)
LEMMA CleanupFailsInv ==
  ASSUME MultipartInv, NEW c \in Clients, CleanupFails(c)
  PROVE  MultipartInv'
<1>1. /\ client[c].at \in {"first", "last"} /\ cleaner' = [cleaner EXCEPT ![c].at = "lost"]
      /\ client' = [client EXCEPT ![c].at = "over"] /\ UNCHANGED <<parts, whole, made>>
  BY DEF CleanupFails, Advance
<1>2. /\ cleaner \in [Clients -> Cleaners] /\ aborted \in [Clients -> SUBSET Clients]
      /\ open \subseteq Clients
  BY DEF MultipartInv, MultipartTypes
<1>3. /\ cleaner'[c].at = "lost" /\ cleaner'[c].listed = cleaner[c].listed
      /\ cleaner'[c].left = cleaner[c].left
      /\ \A d \in Clients : d # c => cleaner'[d] = cleaner[d]
      /\ cleaner' \in [Clients -> Cleaners]
  BY <1>1, <1>2 DEF Cleaners, CleanerStates
<1>4. \A d \in Clients : Begun(d) => Begun(d)'
  BY <1>1 DEF Begun, MultipartInv, MultipartTypes, Uploads
<1>5. /\ aborted' \in [Clients -> SUBSET Clients] /\ open' \subseteq open
      /\ \A d \in Clients : d # c => aborted'[d] = aborted[d]
      /\ \A d \in Clients : aborted[d] \subseteq aborted'[d] /\ (Settled(d) => Settled(d)')
      /\ AbortedForGood'
  <2>1. CASE open' = open /\ aborted' = aborted
    BY <1>1, <1>2, <1>4, <2>1 DEF MultipartInv, AbortedForGood, Settled
  <2>2. ASSUME NEW u \in cleaner[c].left \cap open,
               open' = open \ {u}, aborted' = [aborted EXCEPT ![c] = @ \cup {u}]
        PROVE  /\ aborted' \in [Clients -> SUBSET Clients] /\ open' \subseteq open
               /\ \A d \in Clients : d # c => aborted'[d] = aborted[d]
               /\ \A d \in Clients : aborted[d] \subseteq aborted'[d] /\ (Settled(d) => Settled(d)')
               /\ AbortedForGood'
    <3>1. /\ aborted' \in [Clients -> SUBSET Clients] /\ aborted'[c] = aborted[c] \cup {u}
          /\ \A d \in Clients : d # c => aborted'[d] = aborted[d]
          /\ \A d \in Clients : Settled(d) => Settled(d)'
          /\ AbortedForGood'
      BY <1>1, <1>4, <2>2, AbortTakes
    <3> QED
      BY <2>2, <3>1
  <2>3. PICK took \in {{}} \cup {{u} : u \in cleaner[c].left \cap open} :
          open' = open \ took /\ aborted' = [aborted EXCEPT ![c] = @ \cup took]
    BY DEF CleanupFails
  <2>4. CASE took = {}
    BY <1>2, <2>1, <2>3, <2>4
  <2> QED
    BY <2>2, <2>3, <2>4
<1>6. /\ MultipartTypes' /\ PartsAreOfTheFile' /\ ObjectIsOfItsClient'
      /\ client'[c].at = "over" /\ \A d \in Clients : d # c => client'[d] = client[d]
  BY <1>1, <1>3, <1>5, CleaningKeeps
<1>7. ListedIsSettled'
  <2> SUFFICES ASSUME NEW d \in Clients PROVE CleanerOk(d)'
    BY DEF ListedIsSettled
  <2>1. CleanerOk(d) /\ cleaner[d].left \subseteq Clients /\ cleaner[d].listed \subseteq Clients
    BY <1>2 DEF MultipartInv, ListedIsSettled, Cleaners
  <2>2. CASE d = c
    BY <1>3, <1>4, <2>1, <2>2 DEF CleanerOk
  <2>3. CASE d # c
    BY <1>1, <1>3, <1>4, <1>5, <2>1, <2>3 DEF CleanerOk
  <2> QED
    BY <2>2, <2>3
<1>8. OwnUploadIsListed'
  BY <1>3, <1>5, <1>6 DEF MultipartInv, OwnUploadIsListed
<1> QED
  BY <1>5, <1>6, <1>7, <1>8 DEF MultipartInv

(***************************************************************************)
(* Every step of the clients and of their cleanups.                        *)
(***************************************************************************)
LEMMA MultipartStep == MultipartInv /\ [MultipartNext]_multipartVars => MultipartInv'
<1> SUFFICES ASSUME MultipartInv, [MultipartNext]_multipartVars PROVE MultipartInv'
  OBVIOUS
<1>1. ASSUME NEW c \in Clients, NEW size \in FileSizes, NEW n \in 0..MaxParts,
             CreateMultipartUpload(c, size, n)
      PROVE  MultipartInv'
  BY <1>1, CreateInv
<1>2. ASSUME NEW c \in Clients,
             PutPart(c) \/ Resume(c) \/ ListForComplete(c) \/ CompleteMultipartUpload(c)
      PROVE  MultipartInv'
  BY <1>2, PutPartInv, ResumeInv, ListForCompleteInv, CompleteInv
<1>3. ASSUME NEW c \in Clients, NEW u \in Clients, AbortUpload(c, u) PROVE MultipartInv'
  BY <1>3, AbortUploadInv
<1>4. ASSUME NEW c \in Clients,
             ClientFails(c) \/ ListUploads(c) \/ DeleteDemoObject(c) \/ CleanupFails(c)
      PROVE  MultipartInv'
  BY <1>4, ClientFailsInv, ListUploadsInv, DeleteObjectInv, CleanupFailsInv
<1>5. CASE UNCHANGED multipartVars
  <2>1. UNCHANGED <<client, open, parts, whole, cleaner, made, aborted>>
    BY <1>5 DEF multipartVars
  <2> QED
    BY <2>1
       DEF MultipartInv, MultipartTypes, PartsAreOfTheFile, FileOk, ObjectIsOfItsClient, FirstPage,
           AbortedForGood, ListedIsSettled, CleanerOk, Settled, OwnUploadIsListed, Begun
<1> QED
  BY <1>1, <1>2, <1>3, <1>4, <1>5 DEF MultipartNext

(***************************************************************************)
(* What clients of multipart.ts have put, and what became of every upload  *)
(* that the clean() of some process has listed.                            *)
(***************************************************************************)
THEOREM MultipartInvariant == MultipartSpec => []MultipartInv
<1>1. MultipartInit => MultipartInv
  BY MultipartStart
<1>2. MultipartInv /\ [MultipartNext]_multipartVars => MultipartInv'
  BY MultipartStep
<1> QED
  BY <1>1, <1>2, PTL DEF MultipartSpec

(***************************************************************************)
(* completeMultipartUpload makes an object without gaps, of all parts of a *)
(* file that has no more of them than ListParts gives at once, and         *)
(* calculatePartSize keeps to the limit.                                   *)
(***************************************************************************)
THEOREM ObjectIsWhole == MultipartSpec => []WholeUnlessPastAPage
<1>1. MultipartInv => WholeUnlessPastAPage
  <2> SUFFICES ASSUME MultipartInv, whole # NoObject
               PROVE  LET all == PartsOf(client[whole.by].size) IN
                      /\ all \subseteq 1..MaxParts
                      /\ whole.parts \subseteq all /\ whole.parts # {}
                      /\ \A p \in whole.parts, q \in all \ whole.parts : p < q
                      /\ Cardinality(all) <= PageSize => whole.parts = all
    BY DEF WholeUnlessPastAPage
  <2> DEFINE size == client[whole.by].size
  <2>1. size \in FileSizes /\ whole.parts = FirstPage(size)
    BY DEF MultipartInv, ObjectIsOfItsClient
  <2> HIDE DEF size
  <2>2. PICK n \in Nat : PartsOf(size) = 1..n /\ PartsOf(size) \subseteq 1..MaxParts
    BY <2>1, NotTooManyParts
  <2>3. 1 \in whole.parts /\ PageSize \in Nat
    BY <2>1, FirstPageHasAPart, MultipartAssumption
  <2>4. Cardinality(PartsOf(size)) = n
    BY <2>2, FS_Interval
  <2>5. \A p \in whole.parts, q \in PartsOf(size) \ whole.parts : p < q
    BY <2>1, <2>2, <2>3 DEF FirstPage
  <2>6. n <= PageSize => whole.parts = PartsOf(size)
    BY <2>1, <2>2, <2>3 DEF FirstPage
  <2>7. whole.parts \subseteq PartsOf(size)
    BY <2>1 DEF FirstPage
  <2> QED
    BY <2>2, <2>3, <2>4, <2>5, <2>6, <2>7 DEF size
<1> QED
  BY <1>1, MultipartInvariant, PTL

(***************************************************************************)
(* cleanupMultipartUploads, in any number of processes at once: one that   *)
(* returns has aborted what it listed, one that throws met an upload that  *)
(* was completed or that another has aborted, and the last clean() of a    *)
(* process leaves nothing of its own in progress.                          *)
(***************************************************************************)
THEOREM CleanupSettles == MultipartSpec => []CleanupSettlesWhatItListed
<1>1. MultipartInv => CleanupSettlesWhatItListed
  <2> SUFFICES ASSUME MultipartInv, NEW c \in Clients
               PROVE  /\ cleaner[c].at = "done" => cleaner[c].listed \subseteq aborted[c]
                      /\ aborted[c] \cap (open \cup made) = {}
                      /\ \A d \in Clients \ {c} : aborted[c] \cap aborted[d] = {}
                      /\ cleaner[c].at = "failed" =>
                           \E u \in cleaner[c].left :
                             u \in made \/ \E d \in Clients \ {c} : u \in aborted[d]
                      /\ client[c].at = "over" /\ cleaner[c].at = "done" => c \notin open
    BY DEF CleanupSettlesWhatItListed
  <2>1. CleanerOk(c)
    BY DEF MultipartInv, ListedIsSettled
  <2>2. cleaner[c].at = "done" => cleaner[c].listed \subseteq aborted[c]
    BY <2>1 DEF CleanerOk
  <2>3. cleaner[c].at = "failed" =>
          \E u \in cleaner[c].left : u \in made \/ \E d \in Clients \ {c} : u \in aborted[d]
    BY <2>1 DEF CleanerOk
  <2> QED
    BY <2>2, <2>3 DEF MultipartInv, AbortedForGood, OwnUploadIsListed
<1> QED
  BY <1>1, MultipartInvariant, PTL

=============================================================================
