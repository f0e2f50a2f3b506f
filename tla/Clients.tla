------------------------------- MODULE Clients -------------------------------
(***************************************************************************)
(* The clients the game knows: kaizermud::game::state::connections and the *)
(* two sets beside it, written by the link's reader (thermite.cpp) and by  *)
(* the heartbeat (game.cpp, process_connections).                          *)
(***************************************************************************)
EXTENDS LinkChannel, FiniteSetsExt

CONSTANTS
  MaxInt64,   \* the largest signed id; 2^63 - 1 in the code
  WireId      \* bound: the ids that Thermite uses, as JSON numbers

(* A JSON number that fits is an int64; a larger one is a uint64. *)
TwoTo64 == 2 * (MaxInt64 + 1)
IsInt64(n) == n <= MaxInt64
ConnId(n) == n % TwoTo64

ASSUME WireIdsFit ==
  /\ MaxInt64 \in Nat
  /\ \A n \in WireId : n \in (-(MaxInt64 + 1)) .. (TwoTo64 - 1)

VARIABLES
  connections,    \* the ids that have a ClientConnection
  informed,       \* those whose capabilities have been deserialized
  fromLink,       \* per id, the frames waiting in its channel
  pending,        \* pending_connections: registered, not yet welcomed
  disconnected    \* disconnected_connections: to be dropped

clients == <<connections, informed, fromLink, pending, disconnected>>

Ids == {ConnId(n) : n \in WireId}

ClientsInit ==
  /\ connections = {} /\ informed = {} /\ pending = {} /\ disconnected = {}
  /\ fromLink = [c \in Ids |-> <<>>]

(***************************************************************************)
(* createUpdateClient for each id, up to the first one as_int64 throws on. *)
(* A client that is new is registered with default capabilities; only one  *)
(* that is known has its capabilities deserialized.  Thermite announces a  *)
(* client once, so that here they are never of a kind that would throw.    *)
(***************************************************************************)
Readable(ids) == {i \in DOMAIN ids : \A j \in 1..i : IsInt64(ids[j])}

CreateUpdate(ids) ==
  LET named == {ConnId(ids[i]) : i \in Readable(ids)} IN
  /\ connections' = connections \cup named
  /\ pending' = pending \cup (named \ connections)
  /\ informed' = informed \cup (named \cap connections)
  /\ UNCHANGED <<fromLink, disconnected>>

(* client_capabilities, for a client that is known: deserialize comes to   *)
(* its end.                                                                *)
Inform(c) ==
  /\ informed' = informed \cup {c}
  /\ UNCHANGED <<connections, fromLink, pending, disconnected>>

(* async_send of a client_line or client_gmcp, while there is room. *)
HasRoom(c) == Len(fromLink[c]) < QueueSize

Deliver(c, frame) ==
  /\ fromLink' = [fromLink EXCEPT ![c] = Append(@, frame)]
  /\ UNCHANGED <<connections, informed, pending, disconnected>>

(* Some service of the game wants the connection gone; external. *)
MarkDisconnected(c) ==
  /\ disconnected' = disconnected \cup {c}
  /\ UNCHANGED <<connections, informed, fromLink, pending>>

(* Mutant: only the sets are cleared that a loop has emptied. *)
ProcessWithoutClear ==
  LET kept == connections \ disconnected IN
  /\ SendText(Cardinality(pending \cap kept))
  /\ connections' = kept
  /\ informed' = informed \cap kept
  /\ fromLink' = [c \in Ids |-> IF c \in kept THEN fromLink[c] ELSE <<>>]
  /\ pending' = pending \cap disconnected /\ disconnected' = {}

(* process_connections: drop, then welcome, then forget both sets.  It     *)
(* awaits nothing, so it is one step.  onHeartbeat does nothing.           *)
ProcessConnections ==
  LET kept == connections \ disconnected IN
  /\ SendText(Cardinality(pending \cap kept))
  /\ connections' = kept
  /\ informed' = informed \cap kept
  /\ fromLink' = [c \in Ids |-> IF c \in kept THEN fromLink[c] ELSE <<>>]
  /\ pending' = {}
  /\ disconnected' = {}

-----------------------------------------------------------------------------

(***************************************************************************)
(* A client that waits for its welcome is connected: the heartbeat, which  *)
(* drops connections, never leaves one behind in pending_connections for a *)
(* later client to inherit (game.cpp:28-47).                               *)
(***************************************************************************)
PendingAreConnected == pending \subseteq connections

=============================================================================
