----------------------------- MODULE OrderRooms -----------------------------
(***************************************************************************)
(* OrdersGateway beside the SSE endpoint of OrderStream: a socket joins    *)
(* the rooms of orders its user owns, and each event OrderEventsService    *)
(* emits goes to the room of its order in the same turn. Rooms keep        *)
(* nothing: there is no replay. socket.io carries the messages.            *)
(***************************************************************************)
EXTENDS OrderStream

CONSTANTS
  Sockets,  \* connections of socket.io clients, each used once
  Reader,   \* Reader[s]: the user id in the handshake of s
  Owner     \* Owner[o]: orders.user_id

ASSUME RoomsAssumption == DOMAIN Reader = Sockets /\ DOMAIN Owner = Orders

VARIABLES
  joining,  \* joining[s]: orders whose owner joinOrderRoom(s) awaits
  rooms,    \* rooms[s]: orders whose room s is in
  open,     \* sockets that are connected
  heard,    \* history: ids of the events s got
  since     \* history: since[s][o], the last event before s joined the room of o

roomVars == <<joining, rooms, open, heard, since>>

RoomsInit ==
  /\ joining = [s \in Sockets |-> {}]
  /\ rooms = [s \in Sockets |-> {}]
  /\ open = Sockets
  /\ heard = [s \in Sockets |-> <<>>]
  /\ since = [s \in Sockets |-> [o \in Orders |-> 0]]

-----------------------------------------------------------------------------
(***************************************************************************)
(* 'join' with a positive integer: an id that is none is refused at once.  *)
(***************************************************************************)
JoinOrderRoom(s, o) ==
  /\ s \in open /\ o \notin joining[s] \cup rooms[s]
  /\ joining' = [joining EXCEPT ![s] = @ \cup {o}]
  /\ UNCHANGED <<rooms, open, heard, since>>

Answered(s, o) == joining' = [joining EXCEPT ![s] = @ \ {o}]

BelongsToUser(o, s) == Owner[o] = Reader[s]

\* Mutation of EnterRoom: the result of belongsToUser is not looked at.
EnterAnyRoom(s, o) ==
  /\ rooms' = [rooms EXCEPT ![s] = @ \cup {o}]
  /\ since' = [since EXCEPT ![s][o] = Len(emitted)]

(***************************************************************************)
(* client.join puts the socket in the room at once, unless it is gone.     *)
(***************************************************************************)
EnterRoom(s, o) ==
  IF BelongsToUser(o, s) /\ s \in open
    THEN /\ rooms' = [rooms EXCEPT ![s] = @ \cup {o}]
         /\ since' = [since EXCEPT ![s][o] = Len(emitted)]
    ELSE UNCHANGED <<rooms, since>>

(***************************************************************************)
(* The rest of joinOrderRoom after belongsToUser, which may fail.          *)
(***************************************************************************)
CheckOwner(s, o) ==
  /\ o \in joining[s]
  /\ Answered(s, o)
  /\ EnterRoom(s, o) \/ UNCHANGED <<rooms, since>>
  /\ UNCHANGED <<open, heard>>

(***************************************************************************)
(* The subscription of afterInit: event i, of order o, to its room.        *)
(***************************************************************************)
Broadcast(i, o) ==
  /\ heard' = [s \in Sockets |-> IF o \in rooms[s] THEN Append(heard[s], i) ELSE heard[s]]
  /\ UNCHANGED <<joining, rooms, open, since>>

(***************************************************************************)
(* A socket that is gone has left its rooms; its joins still await.        *)
(***************************************************************************)
DisconnectSocket(s) ==
  /\ s \in open
  /\ open' = open \ {s}
  /\ rooms' = [rooms EXCEPT ![s] = {}]
  /\ UNCHANGED <<joining, heard, since>>

(***************************************************************************)
(* The end of the process ends every socket and every handler.             *)
(***************************************************************************)
CloseSockets ==
  /\ open' = {}
  /\ rooms' = [s \in Sockets |-> {}]
  /\ joining' = [s \in Sockets |-> {}]
  /\ heard' = [s \in Sockets |-> <<>>]
  /\ UNCHANGED since

SocketStep(s) ==
  \/ \E o \in Orders : JoinOrderRoom(s, o) \/ CheckOwner(s, o)
  \/ DisconnectSocket(s)

RoomsNext ==
  \/ QuietStep /\ UNCHANGED roomVars
  \/ \E u \in Updates : Broadcast(nextEventId, update[u].order) /\ Emit(u)
  \/ Restart /\ CloseSockets
  \/ (\E s \in Sockets : SocketStep(s)) /\ UNCHANGED vars

RoomsSpec == Init /\ RoomsInit /\ [][RoomsNext]_<<vars, roomVars>>

-----------------------------------------------------------------------------
(***************************************************************************)
(* A socket gets each event once and in order, those of its user's orders  *)
(* only, and misses none that was emitted while it was in the room: from   *)
(* the answer to its join on, whatever it did not get is older than that.  *)
(***************************************************************************)
RoomsHearTheirOrders ==
  \A s \in Sockets :
    /\ \A i, j \in DOMAIN heard[s] : i < j => heard[s][i] < heard[s][j]
    /\ \A i \in ToSet(heard[s]) : Owner[emitted[i]] = Reader[s]
    /\ \A i \in DOMAIN emitted :
         emitted[i] \in rooms[s] /\ i > since[s][emitted[i]] => i \in ToSet(heard[s])

=============================================================================
