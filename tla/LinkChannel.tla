---------------------------- MODULE LinkChannel ----------------------------
(***************************************************************************)
(* The way from the game to Thermite: ClientConnection::sendText puts a    *)
(* message into the bounded channel linkChan (try_send, which drops it     *)
(* when the channel is full), Link::runWriter takes messages out one by    *)
(* one and writes them to the WebSocket.                                   *)
(*                                                                         *)
(* The channel is a member of the LinkManager and is there from the start; *)
(* the writer is there from the moment a link is established.  A writer    *)
(* that waits in async_receive is handed a message without the message     *)
(* taking a place in the channel.                                          *)
(***************************************************************************)
EXTENDS Integers, SequencesExt

CONSTANT QueueSize   \* the capacity of each channel (50 in the code)

ASSUME QueueSizeIsPositive == QueueSize \in Nat \ {0}

VARIABLES
  linkChan,   \* the messages in the channel
  writer,     \* "none", "waiting" in async_receive, "writing" in async_write
  held,       \* the message being written, or <<>>
  accepted,   \* history: how many messages the channel has ever taken
  handled     \* history: how many of them the writer is done with

channel == <<linkChan, writer, held, accepted, handled>>

ChannelInit ==
  /\ linkChan = <<>> /\ held = <<>> /\ writer = "none"
  /\ accepted = 0 /\ handled = 0

(* Mutant: the channel is not bounded. *)
SendTextUnbounded(count) ==
  LET taken == [i \in 1..count |-> accepted + i]
      handOver == writer = "waiting" /\ taken # <<>>
  IN /\ accepted' = accepted + count
     /\ writer' = IF handOver THEN "writing" ELSE writer
     /\ held' = IF handOver THEN <<taken[1]>> ELSE held
     /\ linkChan' = linkChan \o (IF handOver THEN Tail(taken) ELSE taken)
     /\ UNCHANGED handled

(***************************************************************************)
(* sendText, called so many times in a row.  The messages that the channel *)
(* takes are numbered; what they say (a welcome, a text; "id" 0, since     *)
(* sendText fills it from a member nothing sets) is not modelled.          *)
(***************************************************************************)
SendText(count) ==
  LET room == QueueSize - Len(linkChan) + (IF writer = "waiting" THEN 1 ELSE 0)
      taken == [i \in 1 .. (IF count < room THEN count ELSE room) |-> accepted + i]
      handOver == writer = "waiting" /\ taken # <<>>
  IN /\ accepted' = accepted + Len(taken)
     /\ writer' = IF handOver THEN "writing" ELSE writer
     /\ held' = IF handOver THEN <<taken[1]>> ELSE held
     /\ linkChan' = linkChan \o (IF handOver THEN Tail(taken) ELSE taken)
     /\ UNCHANGED handled

(* async_receive: at once when there is a message, or when there will be. *)
Receive ==
  IF linkChan = <<>>
  THEN writer' = "waiting" /\ held' = <<>> /\ UNCHANGED linkChan
  ELSE writer' = "writing" /\ held' = <<Head(linkChan)>> /\ linkChan' = Tail(linkChan)

(* Link::run starts the writer. *)
WriterStarts ==
  /\ Receive
  /\ UNCHANGED <<accepted, handled>>

(* Mutants: a message whose write failed is put back into the channel, or  *)
(* the loop ends with the first failure.                                   *)
WriteAgain(ok) ==
  /\ writer = "writing"
  /\ IF ok THEN Receive /\ handled' = handled + 1
     ELSE /\ held' = SubSeq(linkChan \o held, 1, 1)
          /\ linkChan' = Tail(linkChan \o held)
          /\ UNCHANGED <<writer, handled>>
  /\ UNCHANGED accepted

WriteOrStop(ok) ==
  /\ writer = "writing"
  /\ IF ok THEN Receive
     ELSE writer' = "none" /\ held' = <<>> /\ UNCHANGED linkChan
  /\ handled' = handled + 1
  /\ UNCHANGED accepted

(* async_write ends.  An error is swallowed, and the message with it: the  *)
(* loop does the same whether the write was ok or not.                     *)
WriteEnds(ok) ==
  /\ ok \in BOOLEAN /\ writer = "writing"
  /\ Receive
  /\ handled' = handled + 1
  /\ UNCHANGED accepted

-----------------------------------------------------------------------------

(***************************************************************************)
(* What the channel has taken and the writer has not dealt with is held or *)
(* queued, each message once, in the order in which it was sent: none is   *)
(* skipped, repeated or overtaken, across failed writes and an absent link *)
(* (thermite.cpp:172-192, ClientConnection.cpp:75).                        *)
(***************************************************************************)
InOrder ==
  LET rest == held \o linkChan IN
  /\ Len(rest) = accepted - handled
  /\ \A i \in DOMAIN rest : rest[i] = handled + i

=============================================================================
