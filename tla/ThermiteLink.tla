---------------------------- MODULE ThermiteLink ----------------------------
(***************************************************************************)
(* LinkManager::run, Link::runReader, Link::runWriter and the game loop:   *)
(* coroutines of one io_context that one thread runs (startup.cpp), so     *)
(* that they interleave at their co_awaits only.  A step runs a coroutine  *)
(* from the answer to one co_await to the next.                            *)
(*                                                                         *)
(* At the other end of the WebSocket is Thermite, the server that players  *)
(* connect to.  It is external: what is modelled of it is what thermite.cpp*)
(* says and expects of its messages.                                       *)
(***************************************************************************)
EXTENDS Clients

CONSTANTS
  AccessorsThrowSystemError,  \* does this Boost's value::as_...() throw a
                              \* system_error, which the reader catches?
  MaxInbox,                   \* bound: frames under way to the game
  MaxSends                    \* bound: messages the game's own code sends

ASSUME LinkAssumption ==
  /\ AccessorsThrowSystemError \in BOOLEAN
  /\ MaxInbox \in Nat \ {0}
  /\ MaxSends \in Nat

VARIABLES
  manager,   \* where LinkManager::run is
  stopped,   \* is_stopped of the LinkManager
  socket,    \* the WebSocket: "none", "up", or "down" once broken
  reader,    \* where Link::runReader is
  inbox,     \* the frames that the reader can still read
  seen,      \* Thermite: the ids it has ever given to a client
  present    \* Thermite: the clients connected to it

link == <<manager, stopped, socket>>
thermite == <<seen, present>>
vars == <<channel, clients, link, reader, inbox, thermite>>

Frame(kind, ids) == [kind |-> kind, ids |-> ids]

(* The reader is reading, waits for room in the channel of a client, or is *)
(* gone (not started, or ended by an exception).                           *)
Reading == [pc |-> "reading", on |-> 0]
WaitingFor(c) == [pc |-> "waiting", on |-> c]
Gone == [pc |-> "gone", on |-> 0]

Init ==
  /\ ChannelInit /\ ClientsInit
  /\ manager = "connecting" /\ stopped = FALSE /\ socket = "none"
  /\ reader = Gone /\ inbox = <<>>
  /\ seen = {} /\ present = {}

-----------------------------------------------------------------------------
(* LinkManager::run. *)

Connect ==
  /\ manager = "connecting"
  /\ manager' = "handshaking"
  /\ UNCHANGED <<channel, clients, stopped, socket, reader, inbox, thermite>>

(* The handshake succeeds.  Link::run starts the reader and the writer, and*)
(* Thermite sends the list of its clients first.                           *)
Handshake ==
  /\ manager = "handshaking"
  /\ manager' = "linked" /\ socket' = "up"
  /\ \E ids \in SetToSeqs(present) : inbox' = <<Frame("client_list", ids)>>
  /\ reader' = Reading
  /\ WriterStarts
  /\ UNCHANGED <<clients, stopped, thermite>>

(* Mutant: a failure leaves the loop. *)
FailForGood ==
  /\ manager \in {"connecting", "handshaking"}
  /\ manager' = "done"
  /\ UNCHANGED <<channel, clients, stopped, socket, reader, inbox, thermite>>

(* Connecting or shaking hands fails: the loop looks at is_stopped, and    *)
(* waits for five seconds before it tries again.                           *)
Fail ==
  /\ manager \in {"connecting", "handshaking"}
  /\ manager' = IF stopped THEN "done" ELSE "standoff"
  /\ UNCHANGED <<channel, clients, stopped, socket, reader, inbox, thermite>>

StandoffEnds ==
  /\ manager = "standoff"
  /\ manager' = "connecting"
  /\ UNCHANGED <<channel, clients, stopped, socket, reader, inbox, thermite>>

(* LinkManager::stop. *)
Stop ==
  /\ ~stopped
  /\ stopped' = TRUE
  /\ UNCHANGED <<channel, clients, manager, socket, reader, inbox, thermite>>

(* The connection drops; some of the frames under way never arrive.  Every *)
(* read and write fails from now on, and both loops swallow the error and  *)
(* go on, so Link::run never returns to the manager.                       *)
Drop ==
  /\ socket = "up"
  /\ socket' = "down"
  /\ \E k \in 0..Len(inbox) : inbox' = [i \in 1..k |-> inbox[i]]
  /\ UNCHANGED <<channel, clients, manager, stopped, reader, thermite>>

-----------------------------------------------------------------------------
(* Link::runReader. *)

(* An accessor throws: the reader drops the frame, or dies of it while     *)
(* Link::run goes on waiting for the writer.                               *)
AfterThrow == IF AccessorsThrowSystemError THEN Reading ELSE Gone

Register(ids) ==
  /\ CreateUpdate(ids)
  /\ reader' = IF Cardinality(Readable(ids)) = Len(ids) THEN Reading ELSE AfterThrow

(* A frame for one client, found by its id as_uint64.  Of its capabilities *)
(* one may be of a type that deserialize does not expect: an accessor      *)
(* throws, and the update ends there.                                      *)
Route(f) ==
  LET n == f.ids[1]
      c == ConnId(n)
  IN \/ /\ IsInt64(n) \/ (c \in connections /\ f.kind = "client_capabilities")
        /\ reader' = AfterThrow
        /\ UNCHANGED clients
     \/ /\ ~IsInt64(n)
        /\ c \notin connections \/ f.kind = "client_disconnected"
        /\ UNCHANGED <<clients, reader>>
     \/ /\ ~IsInt64(n) /\ c \in connections
        /\ f.kind = "client_capabilities"
        /\ Inform(c)
        /\ UNCHANGED reader
     \/ /\ ~IsInt64(n) /\ c \in connections
        /\ f.kind = "client_line" /\ HasRoom(c)
        /\ Deliver(c, f)
        /\ UNCHANGED reader
     \/ /\ ~IsInt64(n) /\ c \in connections
        /\ f.kind = "client_line" /\ ~HasRoom(c)
        /\ reader' = WaitingFor(c)
        /\ UNCHANGED clients

(* Mutant: only the first client of the list is looked at.                 *)
ReadOnlyFirstOfList ==
  /\ reader = Reading /\ inbox # <<>>
  /\ LET f == Head(inbox) IN
       \/ /\ f.kind \in {"client_list", "client_ready"}
          /\ Register(IF f.ids = <<>> THEN <<>> ELSE <<Head(f.ids)>>)
       \/ /\ f.kind \in {"client_capabilities", "client_line", "client_disconnected"}
          /\ Route(f)
       \/ /\ f.kind = "garbage"
          /\ UNCHANGED <<clients, reader>>
  /\ inbox' = Tail(inbox)
  /\ UNCHANGED <<channel, link, thermite>>

(* async_read answers a frame.  One that json::parse rejects is dropped.   *)
Read ==
  /\ reader = Reading /\ inbox # <<>>
  /\ LET f == Head(inbox) IN
       \/ /\ f.kind \in {"client_list", "client_ready"}
          /\ Register(f.ids)
       \/ /\ f.kind \in {"client_capabilities", "client_line", "client_disconnected"}
          /\ Route(f)
       \/ /\ f.kind = "garbage"
          /\ UNCHANGED <<clients, reader>>
  /\ inbox' = Tail(inbox)
  /\ UNCHANGED <<channel, link, thermite>>

-----------------------------------------------------------------------------
(* Link::runWriter and the game. *)

Write(ok) ==
  /\ ok => socket = "up"
  /\ WriteEnds(ok)
  /\ UNCHANGED <<clients, link, reader, inbox, thermite>>

(* Mutant: the client goes, and the reader that waits for it stays. *)
HeartbeatWithoutCancel ==
  /\ ProcessConnections
  /\ UNCHANGED <<reader, link, inbox, thermite>>

(* The heartbeat.  Dropping the client that the reader waits for cancels   *)
(* its async_send; the frame is lost and the reader reads on.              *)
Heartbeat ==
  /\ ProcessConnections
  /\ reader' = IF reader.pc = "waiting" /\ reader.on \in disconnected
               THEN Reading ELSE reader
  /\ UNCHANGED <<link, inbox, thermite>>

(* Code of the game sends a text to a client; external. *)
GameSends ==
  /\ accepted < MaxSends
  /\ connections # {}
  /\ SendText(1)
  /\ UNCHANGED <<clients, link, reader, inbox, thermite>>

(* A service of the game gives up a client that has left; external. *)
GameDrops ==
  /\ \E n \in seen \ present : MarkDisconnected(ConnId(n))
  /\ UNCHANGED <<channel, link, reader, inbox, thermite>>

-----------------------------------------------------------------------------
(* Thermite; external. *)

(* A frame is sent if there is a link to send it on. *)
Tell(f) ==
  IF socket = "up"
  THEN Len(inbox) < MaxInbox /\ inbox' = Append(inbox, f)
  ELSE UNCHANGED inbox

ClientArrives(n) ==
  /\ n \notin seen
  /\ seen' = seen \cup {n} /\ present' = present \cup {n}
  /\ Tell(Frame("client_ready", <<n>>))
  /\ UNCHANGED <<channel, clients, link, reader>>

ClientLeaves(n) ==
  /\ n \in present
  /\ present' = present \ {n}
  /\ Tell(Frame("client_disconnected", <<n>>))
  /\ UNCHANGED <<channel, clients, link, reader, seen>>

ClientSends(n, kind) ==
  /\ n \in present /\ socket = "up"
  /\ Tell(Frame(kind, <<n>>))
  /\ UNCHANGED <<channel, clients, link, reader, thermite>>

Garbage ==
  /\ socket = "up"
  /\ Tell(Frame("garbage", <<>>))
  /\ UNCHANGED <<channel, clients, link, reader, thermite>>

-----------------------------------------------------------------------------

Environment ==
  \/ \E n \in WireId : ClientArrives(n) \/ ClientLeaves(n)
  \/ \E n \in WireId, kind \in {"client_capabilities", "client_line"} :
       ClientSends(n, kind)
  \/ Garbage \/ Drop \/ Stop \/ GameSends \/ GameDrops

Next ==
  \/ Connect \/ Handshake \/ Fail \/ StandoffEnds
  \/ Read \/ Heartbeat
  \/ \E ok \in BOOLEAN : Write(ok)
  \/ Environment

Spec == Init /\ [][Next]_vars

(***************************************************************************)
(* The io_context runs each coroutine that can go on, the timer expires, a *)
(* write comes to an end, and Thermite answers in the end if it is asked   *)
(* again and again.                                                        *)
(***************************************************************************)
Fairness ==
  /\ SF_vars(Connect) /\ SF_vars(Handshake) /\ WF_vars(StandoffEnds)
  /\ WF_vars(Read) /\ WF_vars(Heartbeat) /\ WF_vars(\E ok \in BOOLEAN : Write(ok))

FairSpec == Spec /\ Fairness

-----------------------------------------------------------------------------

(* The types, the capacities of the channels, and what each place of the   *)
(* manager's loop says of the socket and of the two loops of the link.     *)
LinkTypeOK ==
  /\ connections \subseteq Ids /\ informed \subseteq connections
  /\ pending \subseteq Ids /\ disconnected \subseteq Ids
  /\ Len(linkChan) <= QueueSize
  /\ \A c \in Ids : Len(fromLink[c]) <= QueueSize
  /\ manager \in {"connecting", "handshaking", "linked", "standoff", "done"}
  /\ socket \in {"none", "up", "down"}
  /\ manager = "linked" <=> socket # "none"
  /\ socket = "none" => writer = "none" /\ reader = Gone
  /\ writer = "writing" <=> held # <<>>
  /\ writer = "waiting" => linkChan = <<>>

(***************************************************************************)
(* While the link is up, a client of Thermite is connected in the game or  *)
(* is announced by a frame that is still to be read: no interleaving of    *)
(* arrivals, the list of a fresh link, reads and heartbeats forgets one.   *)
(* (For ids that fit an int64; createUpdateClient throws on any other.)    *)
(***************************************************************************)
Announced(n) == \E i \in DOMAIN inbox :
  inbox[i].kind \in {"client_list", "client_ready"} /\ n \in ToSet(inbox[i].ids)

NoClientForgotten ==
  socket = "up" /\ reader # Gone =>
    \A n \in present : ConnId(n) \in connections \/ Announced(n)

(***************************************************************************)
(* The reader is held up only by a client that is connected and whose      *)
(* channel is full; when that client is dropped it reads on                *)
(* (thermite.cpp:145, game.cpp:33).                                        *)
(***************************************************************************)
HeldUpByAFullChannel ==
  reader.pc = "waiting" => reader.on \in connections /\ ~HasRoom(reader.on)

(* A client that stays gets connected if the link stays up.                *)
ArrivalsGetConnected ==
  \A n \in WireId :
    n \in present /\ socket = "up"
      ~> ConnId(n) \in connections \/ n \notin present \/ socket = "down"

(* The manager goes on trying until the link is there                      *)
(* (thermite.cpp:17-22 and 41-47), unless it is told to stop.              *)
EstablishesLink ==
  manager # "linked" ~> manager = "linked" \/ stopped

(* Each message that the channel has taken is written, or its write fails: *)
(* errors do not stop the writer (thermite.cpp:184-189).                   *)
SendsAreHandled ==
  \A k \in 1 .. (MaxSends + Cardinality(WireId)) :
    accepted >= k ~> handled >= k \/ stopped

-----------------------------------------------------------------------------
(* What the comments promise and the code does not keep.                   *)

(* thermite.h: "If the connection drops, it will attempt to reconnect      *)
(* endlessly until it re-establishes connection."                          *)
ReconnectsAfterDrop == socket = "down" ~> socket = "up" \/ stopped

(* thermite.h: the link is there "to handle incoming client events": a     *)
(* line of a connected client gets into its channel, or waits for it.      *)
LinesReachTheirClient ==
  [][Read /\ Head(inbox).kind = "client_line"
          /\ ConnId(Head(inbox).ids[1]) \in connections
     => fromLink' # fromLink \/ reader'.pc = "waiting"]_vars

=============================================================================
