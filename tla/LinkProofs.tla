----------------------------- MODULE LinkProofs -----------------------------
(***************************************************************************)
(* The link to Thermite, for channels of any capacity, any ids and any     *)
(* interleaving of the manager, the reader, the writer, the heartbeat and  *)
(* the server at the other end.                                            *)
(***************************************************************************)
EXTENDS ThermiteLink, Lemmas

-----------------------------------------------------------------------------
(* Runs of numbers. *)

(* The numbers from + 1, from + 2, ... without a gap. *)
Run(s, from) == \A i \in 1..Len(s) : s[i] = from + i

LEMMA RunOfNext ==
  ASSUME NEW n \in Nat, NEW from \in Nat
  PROVE  LET s == [i \in 1..n |-> from + i]
         IN  s \in Seq(Nat) /\ Len(s) = n /\ Run(s, from)
<1> DEFINE s == [i \in 1..n |-> from + i]
<1>1. s \in Seq(Nat) /\ Len(s) = n
  OBVIOUS
<1>2. QED
  BY <1>1 DEF Run

LEMMA RunTail ==
  ASSUME NEW s \in Seq(Nat), s # <<>>, NEW from \in Nat, Run(s, from)
  PROVE  /\ Head(s) = from + 1
         /\ Tail(s) \in Seq(Nat) /\ Len(Tail(s)) = Len(s) - 1
         /\ Run(Tail(s), from + 1)
<1>1. /\ Head(s) = s[1]
      /\ Tail(s) \in Seq(Nat) /\ Len(Tail(s)) = Len(s) - 1
      /\ \A i \in 1 .. (Len(s) - 1) : Tail(s)[i] = s[i + 1]
      /\ Len(s) \in Nat /\ Len(s) # 0
  BY HeadTailProperties, EmptySeq, LenProperties
<1>2. \A i \in 1 .. (Len(s) - 1) : i + 1 \in 1 .. Len(s)
  BY <1>1
<1>3. \A i \in 1 .. (Len(s) - 1) : Tail(s)[i] = from + 1 + i
  BY <1>1, <1>2 DEF Run
<1>4. 1 \in 1 .. Len(s)
  BY <1>1
<1>5. QED
  BY <1>1, <1>3, <1>4 DEF Run

LEMMA RunConcat ==
  ASSUME NEW s \in Seq(Nat), NEW t \in Seq(Nat), NEW from \in Nat,
         Run(s, from), Run(t, from + Len(s))
  PROVE  /\ s \o t \in Seq(Nat) /\ Len(s \o t) = Len(s) + Len(t)
         /\ Run(s \o t, from)
<1> DEFINE both == s \o t
<1>1. /\ both \in Seq(Nat) /\ Len(both) = Len(s) + Len(t)
      /\ Len(s) \in Nat /\ Len(t) \in Nat
      /\ \A i \in 1 .. (Len(s) + Len(t)) :
           both[i] = IF i <= Len(s) THEN s[i] ELSE t[i - Len(s)]
  BY ConcatProperties, LenProperties
<1> HIDE DEF both
<1>2. ASSUME NEW m, m = Len(s), NEW n, n = Len(t), NEW i \in 1 .. (m + n)
      PROVE  both[i] = from + i
  <2>1. m \in Nat /\ n \in Nat /\ i \in Nat
    BY <1>1, <1>2
  <2>2. CASE i <= m
    BY <1>1, <1>2, <2>1, <2>2 DEF Run
  <2>3. CASE ~(i <= m)
    <3>1. i - m \in 1..n /\ from + m + (i - m) = from + i
      BY <1>2, <2>1, <2>3
    <3>2. both[i] = t[i - m]
      BY <1>1, <1>2, <2>3
    <3>3. t[i - m] = from + m + (i - m)
      BY <1>2, <3>1 DEF Run
    <3>4. QED
      BY <3>1, <3>2, <3>3
  <2>4. QED
    BY <2>2, <2>3
<1>3. Run(both, from)
  <2>1. \A i \in 1 .. (Len(s) + Len(t)) : both[i] = from + i
    BY <1>2
  <2>2. QED
    BY <1>1, <2>1 DEF Run
<1>4. QED
  BY <1>1, <1>3 DEF both

-----------------------------------------------------------------------------
(* The channel from the game to the writer. *)

(***************************************************************************)
(* InOrder, said of the message that is held and of the queue by           *)
(* themselves: messages are numbered from handled + 1 on, without a gap.   *)
(* A writer that waits has nothing in the queue; this is why a message may *)
(* be handed to it past the queue.                                         *)
(***************************************************************************)
ChannelInv ==
  /\ linkChan \in Seq(Nat) /\ held \in Seq(Nat)
  /\ accepted \in Nat /\ handled \in Nat
  /\ writer \in {"none", "waiting", "writing"}
  /\ Len(held) = IF writer = "writing" THEN 1 ELSE 0
  /\ writer = "waiting" => Len(linkChan) = 0
  /\ Len(linkChan) <= QueueSize
  /\ accepted = handled + Len(held) + Len(linkChan)
  /\ Run(held, handled) /\ Run(linkChan, handled + Len(held))

LEMMA ChannelInOrder == ChannelInv => InOrder
<1> SUFFICES ASSUME ChannelInv PROVE InOrder
  OBVIOUS
<1> DEFINE rest == held \o linkChan
<1>1. rest \in Seq(Nat) /\ Len(rest) = Len(held) + Len(linkChan) /\ Run(rest, handled)
  BY RunConcat DEF ChannelInv
<1>2. Len(held) \in Nat /\ Len(linkChan) \in Nat
  BY LenProperties DEF ChannelInv
<1> HIDE DEF rest
<1>3. Len(rest) = accepted - handled
  BY <1>1, <1>2 DEF ChannelInv
<1>4. \A i \in DOMAIN rest : rest[i] = handled + i
  BY <1>1, LenProperties DEF Run
<1>5. QED
  BY <1>3, <1>4 DEF InOrder, rest

(* A burst of sendText: what there is room for goes to the end of the      *)
(* queue, less the first message when the writer waits for it.             *)
LEMMA SendTextKeeps ==
  ASSUME ChannelInv, NEW count \in Nat, SendText(count)
  PROVE  ChannelInv'
<1> DEFINE room == QueueSize - Len(linkChan) + (IF writer = "waiting" THEN 1 ELSE 0)
           n == IF count < room THEN count ELSE room
           taken == [i \in 1..n |-> accepted + i]
<1>1. /\ Len(linkChan) \in Nat /\ Len(held) \in Nat /\ QueueSize \in Nat
      /\ n \in Nat /\ n <= room
  BY LenProperties, QueueSizeIsPositive DEF ChannelInv
<1>2. taken \in Seq(Nat) /\ Len(taken) = n /\ Run(taken, accepted)
  <2>1. accepted \in Nat
    BY DEF ChannelInv
  <2> HIDE DEF n
  <2>2. QED
    BY <1>1, <2>1, RunOfNext
<1>3. /\ accepted' = accepted + n /\ handled' = handled
      /\ IF writer = "waiting" /\ taken # <<>>
         THEN /\ writer' = "writing" /\ held' = <<taken[1]>>
              /\ linkChan' = linkChan \o Tail(taken)
         ELSE /\ writer' = writer /\ held' = held
              /\ linkChan' = linkChan \o taken
  BY <1>2 DEF SendText
<1>4. n <= QueueSize - Len(linkChan) + 1 /\ (writer # "waiting" => n <= QueueSize - Len(linkChan))
  BY <1>1
<1> HIDE DEF taken, n
<1>5. taken # <<>> <=> n # 0
  BY <1>1, <1>2, EmptySeq
<1>6. CASE writer = "waiting" /\ taken # <<>>
  <2>1. /\ Len(linkChan) = 0 /\ linkChan = <<>> /\ Len(held) = 0
        /\ n \in 1 .. (QueueSize + 1) /\ accepted = handled
    BY <1>1, <1>4, <1>5, <1>6, EmptySeq DEF ChannelInv
  <2>2. /\ taken[1] = accepted + 1 /\ Tail(taken) \in Seq(Nat)
        /\ Len(Tail(taken)) = n - 1 /\ Run(Tail(taken), accepted + 1)
    <3>1. Head(taken) = taken[1]
      BY <1>2, <1>6, HeadTailProperties
    <3>2. accepted \in Nat
      BY DEF ChannelInv
    <3>3. QED
      BY <1>2, <1>6, <3>1, <3>2, RunTail
  <2>3. linkChan' = Tail(taken)
    BY <1>3, <1>6, <2>1, <2>2, ConcatEmptySeq
  <2>4. held' = <<handled + 1>> /\ handled' = handled /\ handled \in Nat
    BY <1>3, <1>6, <2>1, <2>2 DEF ChannelInv
  <2>5. held' \in Seq(Nat) /\ Len(held') = 1 /\ Run(held', handled')
    BY <2>4 DEF Run
  <2>6. Run(linkChan', handled' + Len(held'))
    BY <2>1, <2>2, <2>3, <2>4, <2>5
  <2>7. /\ linkChan' \in Seq(Nat) /\ Len(linkChan') = n - 1
        /\ accepted' = handled' + n /\ accepted' \in Nat
    BY <1>1, <1>3, <2>1, <2>2, <2>3, <2>4
  <2>8. /\ writer' = "writing" /\ Len(linkChan') <= QueueSize
        /\ accepted' = handled' + Len(held') + Len(linkChan')
    BY <1>1, <1>3, <1>6, <2>1, <2>4, <2>5, <2>7
  <2>9. QED
    BY <2>4, <2>5, <2>6, <2>7, <2>8 DEF ChannelInv
<1>7. CASE ~(writer = "waiting" /\ taken # <<>>)
  <2>1. /\ writer' = writer /\ held' = held /\ linkChan' = linkChan \o taken
        /\ accepted' = accepted + n /\ handled' = handled
    BY <1>3, <1>7
  <2>2. Len(linkChan) + n <= QueueSize /\ (writer = "waiting" => n = 0)
    BY <1>1, <1>4, <1>5, <1>7 DEF ChannelInv
  <2>3. /\ linkChan' \in Seq(Nat) /\ Len(linkChan') = Len(linkChan) + n
        /\ Run(linkChan', handled' + Len(held'))
    <3>1. handled + Len(held) \in Nat /\ accepted = handled + Len(held) + Len(linkChan)
      BY <1>1 DEF ChannelInv
    <3>2. QED
      BY <1>2, <2>1, <3>1, RunConcat DEF ChannelInv
  <2>4. /\ held' \in Seq(Nat) /\ handled' \in Nat /\ accepted' \in Nat
        /\ writer' \in {"none", "waiting", "writing"}
        /\ Len(held') = IF writer' = "writing" THEN 1 ELSE 0
        /\ Run(held', handled')
    BY <1>1, <2>1 DEF ChannelInv
  <2>5. /\ writer' = "waiting" => Len(linkChan') = 0
        /\ Len(linkChan') <= QueueSize
        /\ accepted' = handled' + Len(held') + Len(linkChan')
    <3>1. writer = "waiting" => Len(linkChan) = 0
      BY DEF ChannelInv
    <3>2. /\ accepted = handled + Len(held) + Len(linkChan)
          /\ handled \in Nat
      BY DEF ChannelInv
    <3>3. accepted' = handled' + Len(held') + Len(linkChan')
      BY <1>1, <2>1, <2>3, <3>2
    <3>4. QED
      BY <1>1, <2>1, <2>2, <2>3, <3>1, <3>3
  <2>6. QED
    BY <2>3, <2>4, <2>5 DEF ChannelInv
<1>8. QED
  BY <1>6, <1>7

(* async_receive, once the message held before has been dealt with. *)
LEMMA ReceiveKeeps ==
  ASSUME ChannelInv, Receive, accepted' = accepted,
         handled' = handled + Len(held)
  PROVE  ChannelInv'
<1>1. /\ Len(linkChan) \in Nat /\ Len(held) \in Nat /\ QueueSize \in Nat
      /\ handled' \in Nat /\ accepted' \in Nat
  BY LenProperties, QueueSizeIsPositive DEF ChannelInv
<1>2. CASE linkChan = <<>>
  <2>1. /\ held' = <<>> /\ linkChan' = <<>> /\ writer' = "waiting"
        /\ Len(linkChan) = 0
    BY <1>2 DEF Receive
  <2>2. accepted' = handled'
    BY <1>1, <2>1 DEF ChannelInv
  <2>3. QED
    BY <1>1, <2>1, <2>2 DEF ChannelInv, Run
<1>3. CASE linkChan # <<>>
  <2>1. /\ writer' = "writing" /\ held' = <<Head(linkChan)>>
        /\ linkChan' = Tail(linkChan)
    BY <1>3 DEF Receive
  <2>2. /\ Head(linkChan) = handled' + 1
        /\ Tail(linkChan) \in Seq(Nat) /\ Len(Tail(linkChan)) = Len(linkChan) - 1
        /\ Run(Tail(linkChan), handled' + 1)
    BY <1>1, <1>3, RunTail DEF ChannelInv
  <2>3. held' = <<handled' + 1>>
    BY <2>1, <2>2
  <2>4. held' \in Seq(Nat) /\ Len(held') = 1 /\ Run(held', handled')
    BY <1>1, <2>3 DEF Run
  <2>5. /\ Len(linkChan') <= QueueSize
        /\ accepted' = handled' + Len(held') + Len(linkChan')
    BY <1>1, <2>1, <2>2, <2>4 DEF ChannelInv
  <2>6. linkChan' \in Seq(Nat) /\ Run(linkChan', handled' + Len(held'))
    BY <2>1, <2>2, <2>4
  <2>7. QED
    BY <1>1, <2>1, <2>4, <2>5, <2>6 DEF ChannelInv
<1>4. QED
  BY <1>2, <1>3

LEMMA ChannelInitially == ChannelInit => ChannelInv
BY QueueSizeIsPositive DEF ChannelInit, ChannelInv, Run

LEMMA ChannelSame == ChannelInv /\ UNCHANGED channel => ChannelInv'
BY DEF ChannelInv, Run, channel

-----------------------------------------------------------------------------
(* The clients. *)

LEMMA IdsFinite ==
  /\ Ids \subseteq 0 .. (TwoTo64 - 1)
  /\ \A S \in SUBSET Ids : IsFiniteSet(S) /\ Cardinality(S) \in Nat
<1>1. TwoTo64 \in Nat \ {0}
  BY WireIdsFit DEF TwoTo64
<1>2. \A n \in WireId : n \in Int
  BY <1>1, WireIdsFit
<1> HIDE DEF TwoTo64
<1>3. Ids \subseteq 0 .. (TwoTo64 - 1)
  <2>1. \A n \in WireId : n % TwoTo64 \in 0 .. (TwoTo64 - 1)
    BY <1>1, <1>2
  <2>2. QED
    BY <2>1 DEF Ids, ConnId
<1>4. IsFiniteSet(Ids)
  <2>1. 0 \in Int /\ TwoTo64 - 1 \in Int
    BY <1>1
  <2>2. IsFiniteSet(0 .. (TwoTo64 - 1)) /\ Ids \in SUBSET (0 .. (TwoTo64 - 1))
    BY <1>3, <2>1, FS_Interval
  <2>3. QED
    BY <2>2, FS_Subset
<1>5. QED
  BY <1>3, <1>4, FS_Subset, FS_CardinalityType

(* What Thermite sends: the messages that name clients, and those of one.  *)
Lists == {"client_list", "client_ready"}
Routed == {"client_capabilities", "client_line", "client_disconnected"}
Frames ==
  {f \in [kind : Lists \cup Routed \cup {"garbage"}, ids : Seq(WireId)] :
     f.kind \in Routed => Len(f.ids) = 1}

ClientsInv ==
  /\ connections \subseteq Ids
  /\ pending \subseteq connections /\ informed \subseteq connections
  /\ disconnected \subseteq Ids
  /\ fromLink \in [Ids -> Seq(Frames)]
  /\ \A c \in Ids : Len(fromLink[c]) <= QueueSize

(* A list of ids registers those before the first that is no int64. *)
LEMMA RegisterKeeps ==
  ASSUME ClientsInv, NEW ids \in Seq(WireId), CreateUpdate(ids)
  PROVE  ClientsInv'
<1> DEFINE named == {ConnId(ids[i]) : i \in Readable(ids)}
<1>1. named \subseteq Ids
  <2>1. \A i \in Readable(ids) : ids[i] \in WireId
    BY DEF Readable
  <2>2. QED
    BY <2>1 DEF Ids
<1> HIDE DEF named
<1>2. /\ connections' = connections \cup named
      /\ pending' = pending \cup (named \ connections)
      /\ informed' = informed \cup (named \cap connections)
      /\ UNCHANGED <<fromLink, disconnected>>
  BY DEF CreateUpdate, named
<1>3. QED
  BY <1>1, <1>2 DEF ClientsInv

LEMMA InformKeeps ==
  ASSUME ClientsInv, NEW c \in connections, Inform(c)
  PROVE  ClientsInv'
BY DEF ClientsInv, Inform

LEMMA DeliverKeeps ==
  ASSUME ClientsInv, NEW c \in connections, HasRoom(c),
         NEW f \in Frames, Deliver(c, f)
  PROVE  ClientsInv'
<1>1. c \in Ids /\ fromLink[c] \in Seq(Frames) /\ QueueSize \in Nat
  BY QueueSizeIsPositive DEF ClientsInv
<1>2. /\ Append(fromLink[c], f) \in Seq(Frames)
      /\ Len(Append(fromLink[c], f)) = Len(fromLink[c]) + 1
      /\ Len(fromLink[c]) \in Nat
  BY <1>1, AppendProperties, LenProperties
<1>3. Len(Append(fromLink[c], f)) <= QueueSize
  BY <1>1, <1>2 DEF HasRoom
<1>4. fromLink' = [fromLink EXCEPT ![c] = Append(fromLink[c], f)]
  BY DEF Deliver
<1>5. /\ fromLink' \in [Ids -> Seq(Frames)]
      /\ \A d \in Ids : Len(fromLink'[d]) <= QueueSize
  BY <1>1, <1>2, <1>3, <1>4 DEF ClientsInv
<1>6. QED
  BY <1>5 DEF ClientsInv, Deliver

(* The heartbeat drops, welcomes what is left and forgets both sets. *)
LEMMA ProcessKeeps ==
  ASSUME ClientsInv, ChannelInv, ProcessConnections
  PROVE  ClientsInv' /\ ChannelInv'
<1> DEFINE kept == connections \ disconnected
<1>1. Cardinality(pending \cap kept) \in Nat
  BY IdsFinite DEF ClientsInv
<1>2. ChannelInv'
  BY <1>1, SendTextKeeps DEF ProcessConnections
<1>3. <<>> \in Seq(Frames) /\ Len(<<>>) = 0 /\ QueueSize \in Nat
  BY QueueSizeIsPositive
<1>4. /\ fromLink' \in [Ids -> Seq(Frames)]
      /\ \A c \in Ids : Len(fromLink'[c]) <= QueueSize
  BY <1>3 DEF ClientsInv, ProcessConnections
<1>5. ClientsInv'
  BY <1>4 DEF ClientsInv, ProcessConnections
<1>6. QED
  BY <1>2, <1>5

LEMMA ClientsInitially == ClientsInit => ClientsInv
BY QueueSizeIsPositive DEF ClientsInit, ClientsInv

LEMMA ClientsSame == ClientsInv /\ UNCHANGED clients => ClientsInv'
BY DEF ClientsInv, clients

-----------------------------------------------------------------------------
(* The link. *)

ReaderInv ==
  /\ reader \in {Reading, Gone} \cup {WaitingFor(c) : c \in Ids}
  /\ HeldUpByAFullChannel

ManagerInv ==
  /\ manager \in {"connecting", "handshaking", "linked", "standoff", "done"}
  /\ stopped \in BOOLEAN
  /\ socket \in {"none", "up", "down"}
  /\ manager = "linked" <=> socket # "none"
  /\ socket = "none" => writer = "none" /\ reader = Gone

ThermiteInv == present \subseteq seen /\ seen \subseteq WireId

IInv ==
  /\ ChannelInv /\ ClientsInv /\ ReaderInv /\ ManagerInv /\ ThermiteInv
  /\ inbox \in Seq(Frames)

(* A frame that Thermite sends is one of the frames it knows. *)
LEMMA TellKeeps ==
  ASSUME inbox \in Seq(Frames), NEW f \in Frames, Tell(f)
  PROVE  inbox' \in Seq(Frames)
BY AppendProperties DEF Tell

LEMMA FramesOfOne ==
  ASSUME NEW n \in WireId, NEW kind \in Lists \cup Routed
  PROVE  Frame(kind, <<n>>) \in Frames
BY DEF Frame, Frames

-----------------------------------------------------------------------------
(* The steps. *)

LEMMA InitIInv == Init => IInv
<1> SUFFICES ASSUME Init PROVE IInv
  OBVIOUS
<1>1. ChannelInv /\ ClientsInv
  BY ChannelInitially, ClientsInitially DEF Init
<1>2. ReaderInv /\ ManagerInv
  BY DEF Init, ReaderInv, ManagerInv, HeldUpByAFullChannel, Gone, ChannelInit
<1>3. QED
  BY <1>1, <1>2 DEF Init, IInv, ThermiteInv

(* The reader waits where it waited, when nothing it waits for has changed. *)
LEMMA ReaderSame ==
  ReaderInv /\ UNCHANGED <<reader, clients>> => ReaderInv'
BY DEF ReaderInv, HeldUpByAFullChannel, HasRoom, clients

(* The manager's own steps before and between links. *)
LEMMA ManagerKeeps ==
  ASSUME IInv, Connect \/ Fail \/ StandoffEnds \/ Stop
  PROVE  IInv'
<1>1. /\ UNCHANGED <<channel, clients, socket, reader, inbox, thermite>>
      /\ ManagerInv'
  BY DEF IInv, ManagerInv, Connect, Fail, StandoffEnds, Stop, channel
<1>2. QED
  BY <1>1, ChannelSame, ClientsSame, ReaderSame DEF IInv, ThermiteInv, thermite

LEMMA HandshakeKeeps ==
  ASSUME IInv, Handshake
  PROVE  IInv'
<1>1. writer = "none" /\ Len(held) = 0 /\ handled \in Nat
  BY DEF IInv, ManagerInv, Handshake, ChannelInv
<1>2. ChannelInv'
  BY <1>1, ReceiveKeeps DEF IInv, Handshake, WriterStarts
<1>3. ReaderInv' /\ ManagerInv'
  BY DEF IInv, Handshake, ReaderInv, ManagerInv, HeldUpByAFullChannel, Reading, Gone
<1>4. inbox' \in Seq(Frames)
  <2>1. PICK ids \in SetToSeqs(present) : inbox' = <<Frame("client_list", ids)>>
    BY DEF Handshake
  <2>2. present \subseteq WireId /\ IsFiniteSet(present)
    <3>1. IsFiniteSet(WireId)
      <4>1. MaxInt64 \in Nat /\ TwoTo64 \in Nat
        BY WireIdsFit DEF TwoTo64
      <4>2. -(MaxInt64 + 1) \in Int /\ TwoTo64 - 1 \in Int
        BY <4>1
      <4>3. WireId \in SUBSET ((-(MaxInt64 + 1)) .. (TwoTo64 - 1))
        BY WireIdsFit
      <4>4. QED
        BY <4>2, <4>3, FS_Interval, FS_Subset
    <3>2. present \in SUBSET WireId
      BY DEF IInv, ThermiteInv
    <3>3. QED
      BY <3>1, <3>2, FS_Subset
  <2>3. ids \in Seq(present)
    BY <2>2, SetToSeqsCovers
  <2>4. ids \in Seq(WireId)
    BY <2>2, <2>3
  <2>5. Frame("client_list", ids) \in Frames
    BY <2>4 DEF Frame, Frames, Lists, Routed
  <2>6. QED
    BY <2>1, <2>5
<1>5. ClientsInv' /\ ThermiteInv'
  BY ClientsSame DEF IInv, Handshake, ThermiteInv, thermite
<1>6. QED
  BY <1>2, <1>3, <1>4, <1>5 DEF IInv

LEMMA DropKeeps ==
  ASSUME IInv, Drop
  PROVE  IInv'
<1>1. ChannelInv' /\ ClientsInv' /\ ReaderInv' /\ ThermiteInv' /\ ManagerInv'
  BY ChannelSame, ClientsSame, ReaderSame
  DEF IInv, Drop, ThermiteInv, thermite, ManagerInv, channel
<1>2. inbox' \in Seq(Frames)
  <2>1. PICK k \in 0..Len(inbox) : inbox' = [i \in 1..k |-> inbox[i]]
    BY DEF Drop
  <2>2. /\ \A i \in 1..k : inbox[i] \in Frames
        /\ k \in Nat
    BY <2>1, ElementOfSeq, LenProperties DEF IInv
  <2>3. QED
    BY <2>1, <2>2
<1>3. QED
  BY <1>1, <1>2 DEF IInv

LEMMA ReadKeeps ==
  ASSUME IInv, Read
  PROVE  IInv'
<1> DEFINE f == Head(inbox)
<1>1. /\ f \in Frames /\ Tail(inbox) \in Seq(Frames)
      /\ f.ids \in Seq(WireId)
      /\ f.kind \in Routed => f.ids[1] \in WireId
  <2>1. f \in Frames /\ Tail(inbox) \in Seq(Frames)
    BY HeadTailProperties DEF IInv, Read
  <2>2. QED
    BY <2>1 DEF Frames
<1> HIDE DEF f
<1>2. reader = Reading /\ socket # "none"
  BY DEF IInv, Read, ManagerInv, Reading, Gone
<1>3. /\ ChannelInv' /\ ThermiteInv' /\ inbox' \in Seq(Frames)
  BY <1>1, ChannelSame DEF IInv, Read, ThermiteInv, thermite, f
<1>4. ManagerInv'
  BY <1>2 DEF IInv, Read, ManagerInv, link, channel
<1>5. CASE f.kind \in Lists
  <2>1. Register(f.ids)
    BY <1>5 DEF Read, f, Lists
  <2>2. ClientsInv'
    BY <1>1, <2>1, RegisterKeeps DEF IInv, Register
  <2>3. ReaderInv'
    BY <2>1 DEF Register, ReaderInv, HeldUpByAFullChannel, AfterThrow, Reading, Gone
  <2>4. QED
    BY <1>3, <1>4, <2>2, <2>3 DEF IInv
<1>6. CASE f.kind \in Routed
  <2> DEFINE n == f.ids[1]
             c == ConnId(n)
  <2>1. Route(f)
    BY <1>6 DEF Read, f, Routed
  <2>2. c \in Ids
    BY <1>1, <1>6 DEF Ids
  <2>3. CASE reader' = AfterThrow /\ UNCHANGED clients
    BY <1>3, <1>4, <2>3, ClientsSame
    DEF IInv, ReaderInv, HeldUpByAFullChannel, AfterThrow, Reading, Gone
  <2>4. CASE UNCHANGED <<clients, reader>>
    BY <1>3, <1>4, <2>4, ClientsSame, ReaderSame DEF IInv
  <2>5. CASE c \in connections /\ Inform(c) /\ UNCHANGED reader
    <3>1. ReaderInv'
      BY <1>2, <2>5 DEF IInv, ReaderInv, HeldUpByAFullChannel, Reading
    <3>2. QED
      BY <1>3, <1>4, <2>5, <3>1, InformKeeps DEF IInv
  <2>6. CASE c \in connections /\ HasRoom(c) /\ Deliver(c, f) /\ UNCHANGED reader
    <3>1. ReaderInv'
      BY <1>2, <2>6 DEF IInv, ReaderInv, HeldUpByAFullChannel, Reading
    <3>2. QED
      BY <1>1, <1>3, <1>4, <2>6, <3>1, DeliverKeeps DEF IInv
  <2>7. CASE /\ c \in connections /\ ~HasRoom(c)
             /\ reader' = WaitingFor(c) /\ UNCHANGED clients
    <3>1. ReaderInv'
      BY <2>2, <2>7
      DEF IInv, ReaderInv, HeldUpByAFullChannel, WaitingFor, HasRoom, clients
    <3>2. QED
      BY <1>3, <1>4, <2>7, <3>1, ClientsSame DEF IInv
  <2>8. QED
    BY <2>1, <2>3, <2>4, <2>5, <2>6, <2>7 DEF Route
<1>7. CASE f.kind = "garbage"
  <2>1. UNCHANGED <<clients, reader>>
    BY <1>7 DEF Read, f
  <2>2. QED
    BY <1>3, <1>4, <2>1, ClientsSame, ReaderSame DEF IInv
<1>8. QED
  BY <1>1, <1>5, <1>6, <1>7 DEF Frames

LEMMA WriteKeeps ==
  ASSUME IInv, NEW ok \in BOOLEAN, Write(ok)
  PROVE  IInv'
<1>1. writer = "writing" /\ Len(held) = 1
  BY DEF IInv, ChannelInv, Write, WriteEnds
<1>2. ChannelInv'
  BY <1>1, ReceiveKeeps DEF IInv, Write, WriteEnds
<1>3. ClientsInv' /\ ReaderInv' /\ ThermiteInv' /\ inbox' \in Seq(Frames)
  BY ClientsSame, ReaderSame DEF IInv, Write, ThermiteInv, thermite
<1>4. ManagerInv'
  BY <1>1 DEF IInv, ManagerInv, Write, link
<1>5. QED
  BY <1>2, <1>3, <1>4 DEF IInv

(* A reader held up by a client that the heartbeat drops reads on; one held *)
(* up by a client that stays finds its channel as full as before.           *)
LEMMA HeartbeatKeeps ==
  ASSUME IInv, Heartbeat
  PROVE  IInv'
<1>1. ChannelInv' /\ ClientsInv'
  BY ProcessKeeps DEF IInv, Heartbeat
<1>2. ReaderInv'
  <2>1. CASE reader.pc = "waiting" /\ reader.on \notin disconnected
    <3>1. /\ reader' = reader /\ reader.on \in Ids
          /\ reader.on \in connections \ disconnected
          /\ ~HasRoom(reader.on)
      BY <2>1 DEF IInv, ReaderInv, ClientsInv, HeldUpByAFullChannel, Heartbeat
    <3>2. fromLink'[reader.on] = fromLink[reader.on]
      BY <3>1 DEF Heartbeat, ProcessConnections
    <3>3. QED
      BY <3>1, <3>2
      DEF IInv, ReaderInv, HeldUpByAFullChannel, HasRoom, Heartbeat, ProcessConnections
  <2>2. CASE ~(reader.pc = "waiting" /\ reader.on \notin disconnected)
    BY <2>2 DEF IInv, ReaderInv, HeldUpByAFullChannel, Heartbeat, Reading, Gone
  <2>3. QED
    BY <2>1, <2>2
<1>3. ManagerInv'
  BY DEF IInv, ManagerInv, Heartbeat, ProcessConnections, SendText, link, Gone
<1>4. QED
  BY <1>1, <1>2, <1>3 DEF IInv, Heartbeat, ThermiteInv, thermite

LEMMA GameKeeps ==
  ASSUME IInv, GameSends \/ GameDrops
  PROVE  IInv'
<1>1. CASE GameSends
  <2>1. ChannelInv'
    BY <1>1, SendTextKeeps DEF IInv, GameSends
  <2>2. ManagerInv'
    BY <1>1 DEF IInv, ManagerInv, GameSends, SendText, link
  <2>3. QED
    BY <1>1, <2>1, <2>2, ClientsSame, ReaderSame
    DEF IInv, GameSends, ThermiteInv, thermite
<1>2. CASE GameDrops
  <2>1. PICK n \in seen \ present : MarkDisconnected(ConnId(n))
    BY <1>2 DEF GameDrops
  <2>2. ConnId(n) \in Ids
    BY <2>1 DEF IInv, ThermiteInv, Ids
  <2>3. ClientsInv' /\ ReaderInv'
    BY <1>2, <2>1, <2>2
    DEF IInv, ClientsInv, ReaderInv, HeldUpByAFullChannel, HasRoom,
        GameDrops, MarkDisconnected
  <2>4. QED
    BY <1>2, <2>3, ChannelSame
    DEF IInv, GameDrops, ManagerInv, ThermiteInv, thermite, link, channel
<1>3. QED
  BY <1>1, <1>2

LEMMA ThermiteKeeps ==
  ASSUME IInv,
         \/ \E n \in WireId : ClientArrives(n) \/ ClientLeaves(n)
         \/ \E n \in WireId, kind \in {"client_capabilities", "client_line"} :
              ClientSends(n, kind)
         \/ Garbage
  PROVE  IInv'
<1>1. UNCHANGED <<channel, clients, link, reader>>
  BY DEF ClientArrives, ClientLeaves, ClientSends, Garbage
<1>2. ThermiteInv'
  BY DEF IInv, ThermiteInv, ClientArrives, ClientLeaves, ClientSends, Garbage, thermite
<1>3. inbox' \in Seq(Frames)
  <2>1. PICK f \in Frames : Tell(f)
    <3>1. Frame("garbage", <<>>) \in Frames
      BY DEF Frame, Frames, Routed
    <3>2. QED
      BY <3>1, FramesOfOne
      DEF ClientArrives, ClientLeaves, ClientSends, Garbage, Lists, Routed
  <2>2. QED
    BY <2>1, TellKeeps DEF IInv
<1>4. ManagerInv'
  BY <1>1 DEF IInv, ManagerInv, link, channel
<1>5. QED
  BY <1>1, <1>2, <1>3, <1>4, ChannelSame, ClientsSame, ReaderSame DEF IInv

LEMMA NextKeeps == IInv /\ [Next]_vars => IInv'
<1> SUFFICES ASSUME IInv, [Next]_vars PROVE IInv'
  OBVIOUS
<1>1. CASE Connect \/ Fail \/ StandoffEnds \/ Stop
  BY <1>1, ManagerKeeps
<1>2. CASE Handshake
  BY <1>2, HandshakeKeeps
<1>3. CASE Read
  BY <1>3, ReadKeeps
<1>4. CASE Heartbeat
  BY <1>4, HeartbeatKeeps
<1>5. CASE \E ok \in BOOLEAN : Write(ok)
  BY <1>5, WriteKeeps
<1>6. CASE Drop
  BY <1>6, DropKeeps
<1>7. CASE GameSends \/ GameDrops
  BY <1>7, GameKeeps
<1>8. CASE \/ \E n \in WireId : ClientArrives(n) \/ ClientLeaves(n)
           \/ \E n \in WireId, kind \in {"client_capabilities", "client_line"} :
                ClientSends(n, kind)
           \/ Garbage
  BY <1>8, ThermiteKeeps
<1>9. CASE UNCHANGED vars
  BY <1>9, ChannelSame, ClientsSame, ReaderSame
  DEF IInv, vars, ManagerInv, ThermiteInv, link, thermite, channel
<1>10. QED
  BY <1>1, <1>2, <1>3, <1>4, <1>5, <1>6, <1>7, <1>8, <1>9 DEF Next, Environment

LEMMA Inductive == Spec => []IInv
<1>1. Init => IInv
  BY InitIInv
<1>2. IInv /\ [Next]_vars => IInv'
  BY NextKeeps
<1>3. QED
  BY <1>1, <1>2, PTL DEF Spec

(* The types, the capacities, and what each place of the manager's loop    *)
(* says of the socket, the reader and the writer (thermite.cpp:17-192).    *)
THEOREM LinkTypes == Spec => []LinkTypeOK
<1>1. ChannelInv => (held # <<>> <=> Len(held) # 0)
                 /\ (linkChan = <<>> <=> Len(linkChan) = 0)
  BY EmptySeq DEF ChannelInv
<1>2. IInv => LinkTypeOK
  BY <1>1 DEF IInv, LinkTypeOK, ChannelInv, ClientsInv, ManagerInv
<1>3. QED
  BY <1>2, Inductive, PTL

(* Nothing that the channel to Thermite has taken is skipped, repeated or  *)
(* overtaken, whatever the link does (thermite.cpp:172-192).               *)
THEOREM MessagesStayInOrder == Spec => []InOrder
<1>1. IInv => InOrder
  BY ChannelInOrder DEF IInv
<1>2. QED
  BY <1>1, Inductive, PTL

(* No client waits for its welcome that is not connected (game.cpp:28-47). *)
THEOREM NoStaleWelcome == Spec => []PendingAreConnected
<1>1. IInv => PendingAreConnected
  BY DEF IInv, ClientsInv, PendingAreConnected
<1>2. QED
  BY <1>1, Inductive, PTL

(* The reader is held up by a full channel of a connected client only, so  *)
(* that dropping the client is always enough to let it go on               *)
(* (thermite.cpp:145, game.cpp:33).                                        *)
THEOREM ReaderIsNotStuck == Spec => []HeldUpByAFullChannel
<1>1. IInv => HeldUpByAFullChannel
  BY DEF IInv, ReaderInv
<1>2. QED
  BY <1>1, Inductive, PTL

-----------------------------------------------------------------------------
(* No client is forgotten. *)

(* What Thermite uses for ids fits an int64, so that as_int64 never throws. *)
IdsAreSigned == \A n \in WireId : IsInt64(n)

(* Two signed ids are not cast to the same connection id. *)
LEMMA ConnIdInjective ==
  ASSUME IdsAreSigned, NEW m \in WireId, NEW n \in WireId, ConnId(m) = ConnId(n)
  PROVE  m = n
<1> DEFINE M == MaxInt64
<1>1. /\ M \in Nat /\ TwoTo64 = 2 * (M + 1)
      /\ m \in Int /\ n \in Int
      /\ -(M + 1) <= m /\ m <= M /\ -(M + 1) <= n /\ n <= M
  BY WireIdsFit DEF IdsAreSigned, IsInt64, TwoTo64
<1> HIDE DEF M
<1>2. ASSUME NEW k \in Int, -(M + 1) <= k, k <= M
      PROVE  k % (2 * (M + 1)) = IF k >= 0 THEN k ELSE k + 2 * (M + 1)
  BY <1>1, <1>2
<1>3. m % (2 * (M + 1)) = n % (2 * (M + 1))
  BY <1>1 DEF ConnId
<1>4. QED
  BY <1>1, <1>2, <1>3

(* A client that is to be dropped is one that has left for good: Thermite  *)
(* gives its id to nobody else.                                            *)
OnlyTheGoneAreDropped ==
  \A c \in disconnected : \E n \in seen \ present : c = ConnId(n)

NoneForgotten == IInv /\ OnlyTheGoneAreDropped /\ NoClientForgotten

LEMMA GoneKeeps ==
  ASSUME IInv, OnlyTheGoneAreDropped, [Next]_vars
  PROVE  OnlyTheGoneAreDropped'
<1>1. seen \ present \subseteq seen' \ present'
  BY DEF Next, vars, Environment, Connect, Handshake, Fail, StandoffEnds, Read,
         Heartbeat, Write, ClientArrives, ClientLeaves, ClientSends, Garbage,
         Drop, Stop, GameSends, GameDrops, thermite, IInv, ThermiteInv
<1>2. CASE GameDrops
  <2>1. PICK n \in seen \ present : disconnected' = disconnected \cup {ConnId(n)}
    BY <1>2 DEF GameDrops, MarkDisconnected
  <2>2. QED
    BY <1>1, <2>1 DEF OnlyTheGoneAreDropped
<1>3. CASE ~GameDrops
  <2>1. disconnected' = {} \/ disconnected' = disconnected
    BY <1>3
    DEF Next, vars, Environment, Connect, Handshake, Fail, StandoffEnds, Read,
        Register, CreateUpdate, Route, Inform, Deliver, Heartbeat,
        ProcessConnections, Write, ClientArrives, ClientLeaves, ClientSends,
        Garbage, Drop, Stop, GameSends, clients
  <2>2. QED
    BY <1>1, <2>1 DEF OnlyTheGoneAreDropped
<1>4. QED
  BY <1>2, <1>3

(* What is announced stays announced when a frame is sent after it. *)
LEMMA TellAnnounces ==
  ASSUME inbox \in Seq(Frames), NEW f \in Frames, Tell(f), socket = "up"
  PROVE  /\ \A n : Announced(n) => Announced(n)'
         /\ \A n : f.kind \in Lists /\ n \in ToSet(f.ids) => Announced(n)'
<1>1. /\ inbox' = Append(inbox, f) /\ Len(inbox) \in Nat
      /\ DOMAIN inbox = 1 .. Len(inbox)
      /\ DOMAIN inbox' = 1 .. (Len(inbox) + 1)
      /\ \A i \in 1 .. Len(inbox) : inbox'[i] = inbox[i]
      /\ inbox'[Len(inbox) + 1] = f
  BY DEF Tell
<1>2. /\ \A i \in 1 .. Len(inbox) : i \in 1 .. (Len(inbox) + 1)
      /\ Len(inbox) + 1 \in 1 .. (Len(inbox) + 1)
  BY <1>1
<1>3. QED
  BY <1>1, <1>2 DEF Announced, Lists

(* Reading the first frame: a client it announces is connected, or the     *)
(* reader is gone; what the others announce, they still do.                *)
LEMMA ReadForgetsNone ==
  ASSUME IdsAreSigned, NoneForgotten, Read
  PROVE  NoClientForgotten'
<1> DEFINE f == Head(inbox)
<1>1. /\ f \in Frames /\ f = inbox[1] /\ Len(inbox) \in Nat
      /\ DOMAIN inbox = 1 .. Len(inbox)
      /\ inbox' = Tail(inbox) /\ DOMAIN inbox' = 1 .. (Len(inbox) - 1)
      /\ \A i \in 1 .. (Len(inbox) - 1) : inbox'[i] = inbox[i + 1]
  BY HeadTailProperties DEF NoneForgotten, IInv, Read
<1>2. f.ids \in Seq(WireId) /\ f.kind \in Lists \cup Routed \cup {"garbage"}
  BY <1>1 DEF Frames
<1> HIDE DEF f
<1>3. connections \subseteq connections'
  BY DEF Read, Register, CreateUpdate, Route, Inform, Deliver, clients
<1>4. SUFFICES ASSUME socket = "up", NEW n \in present
               PROVE  ConnId(n) \in connections' \/ Announced(n)'
  BY DEF NoClientForgotten, Read, link, thermite
<1>5. ConnId(n) \in connections \/ Announced(n)
  BY <1>4 DEF NoneForgotten, NoClientForgotten, Read, Reading, Gone
<1>6. CASE Announced(n)
  <2>1. PICK i \in DOMAIN inbox :
               inbox[i].kind \in Lists /\ n \in ToSet(inbox[i].ids)
    BY <1>6 DEF Announced, Lists
  <2>2. CASE i = 1
    <3>1. f.kind \in Lists /\ n \in ToSet(f.ids)
      BY <1>1, <2>1, <2>2
    <3>2. CreateUpdate(f.ids)
      BY <3>1 DEF Read, f, Lists, Routed, Register
    <3>3. Readable(f.ids) = DOMAIN f.ids
      <4>1. \A j \in DOMAIN f.ids : f.ids[j] \in WireId
        BY <1>2
      <4>2. DOMAIN f.ids = 1 .. Len(f.ids) /\ Len(f.ids) \in Nat
        BY <1>2, LenProperties
      <4>3. \A k \in DOMAIN f.ids : \A j \in 1..k : j \in DOMAIN f.ids
        BY <4>2
      <4>4. QED
        BY <4>1, <4>3 DEF Readable, IdsAreSigned
    <3>4. PICK k \in DOMAIN f.ids : f.ids[k] = n
      BY <3>1 DEF ToSet
    <3>5. QED
      BY <3>2, <3>3, <3>4 DEF CreateUpdate
  <2>3. CASE i # 1
    <3>1. i - 1 \in 1 .. (Len(inbox) - 1) /\ (i - 1) + 1 = i
      BY <1>1, <2>1, <2>3
    <3>2. inbox'[i - 1] = inbox[i]
      BY <1>1, <3>1
    <3>3. QED
      BY <1>1, <2>1, <3>1, <3>2 DEF Announced, Lists
  <2>4. QED
    BY <2>2, <2>3
<1>7. QED
  BY <1>3, <1>5, <1>6

LEMMA ForgottenKeeps ==
  ASSUME IdsAreSigned, NoneForgotten, [Next]_vars
  PROVE  NoClientForgotten'
<1>1. CASE Connect \/ Fail \/ StandoffEnds \/ Stop
           \/ (\E ok \in BOOLEAN : Write(ok)) \/ GameSends \/ GameDrops
           \/ UNCHANGED vars
  <2>1. UNCHANGED <<socket, reader, connections, inbox, present>>
    BY <1>1 DEF Connect, Fail, StandoffEnds, Stop, Write, GameSends, GameDrops,
                MarkDisconnected, vars, clients, link, thermite
  <2>2. QED
    BY <2>1 DEF NoneForgotten, NoClientForgotten, Announced
<1>2. CASE Handshake
  <2>1. PICK ids \in SetToSeqs(present) : inbox' = <<Frame("client_list", ids)>>
    BY <1>2 DEF Handshake
  <2>2. IsFiniteSet(present)
    <3>1. /\ MaxInt64 \in Nat /\ TwoTo64 \in Nat
          /\ present \subseteq (-(MaxInt64 + 1)) .. (TwoTo64 - 1)
      BY WireIdsFit DEF TwoTo64, NoneForgotten, IInv, ThermiteInv
    <3>2. -(MaxInt64 + 1) \in Int /\ TwoTo64 - 1 \in Int
      BY <3>1
    <3>3. QED
      BY <3>1, <3>2, FS_Interval, FS_Subset
  <2>3. ToSet(ids) = present
    BY <2>2, SetToSeqsCovers
  <2>4. \A n \in present : Announced(n)'
    BY <2>1, <2>3 DEF Announced, Frame
  <2>5. QED
    BY <1>2, <2>4 DEF NoClientForgotten, Handshake, thermite
<1>3. CASE Read
  BY <1>3, ReadForgetsNone
<1>4. CASE Heartbeat
  <2>1. SUFFICES ASSUME socket = "up", reader # Gone, NEW n \in present
                 PROVE  ConnId(n) \in connections' \/ Announced(n)'
    BY <1>4 DEF NoClientForgotten, Heartbeat, link, thermite, Gone
  <2>2. ConnId(n) \notin disconnected
    <3>1. present \subseteq WireId /\ seen \subseteq WireId
      BY DEF NoneForgotten, IInv, ThermiteInv
    <3>2. \A m \in seen \ present : ConnId(m) # ConnId(n)
      BY <2>1, <3>1, ConnIdInjective
    <3>3. QED
      BY <3>2 DEF NoneForgotten, OnlyTheGoneAreDropped
  <2>3. QED
    BY <1>4, <2>1, <2>2
    DEF NoneForgotten, NoClientForgotten, Announced, Heartbeat, ProcessConnections
<1>5. CASE Drop
  BY <1>5 DEF Drop, NoClientForgotten
<1>6. CASE \/ \E n \in WireId : ClientArrives(n) \/ ClientLeaves(n)
           \/ \E n \in WireId, kind \in {"client_capabilities", "client_line"} :
                ClientSends(n, kind)
           \/ Garbage
  <2>1. UNCHANGED <<clients, link, reader>>
    BY <1>6 DEF ClientArrives, ClientLeaves, ClientSends, Garbage
  <2>2. SUFFICES ASSUME socket = "up", reader # Gone, NEW n \in present'
                 PROVE  ConnId(n) \in connections \/ Announced(n)'
    BY <2>1 DEF NoClientForgotten, link, clients
  <2>3. PICK f \in Frames :
               /\ Tell(f)
               /\ n \in present \/ (f.kind \in Lists /\ n \in ToSet(f.ids))
    <3>1. \A k \in WireId : k \in ToSet(Frame("client_ready", <<k>>).ids)
      BY DEF Frame, ToSet
    <3>2. Frame("garbage", <<>>) \in Frames
      BY DEF Frame, Frames, Routed
    <3>3. CASE \E m \in WireId : ClientArrives(m)
      <4>1. PICK m \in WireId : ClientArrives(m)
        BY <3>3
      <4>2. n \in present \/ n = m
        BY <2>2, <4>1 DEF ClientArrives
      <4>3. Frame("client_ready", <<m>>).kind \in Lists
        BY DEF Frame, Lists
      <4>4. Frame("client_ready", <<m>>) \in Frames /\ Tell(Frame("client_ready", <<m>>))
        BY <4>1, FramesOfOne DEF ClientArrives, Lists
      <4>5. QED
        BY <3>1, <4>2, <4>3, <4>4
    <3>4. CASE ~\E m \in WireId : ClientArrives(m)
      <4>1. n \in present
        BY <1>6, <2>2, <3>4 DEF ClientLeaves, ClientSends, Garbage, thermite
      <4>2. \E f \in Frames : Tell(f)
        BY <1>6, <3>2, <3>4, FramesOfOne
        DEF ClientLeaves, ClientSends, Garbage, Lists, Routed
      <4>3. QED
        BY <4>1, <4>2
    <3>5. QED
      BY <3>3, <3>4
  <2>4. QED
    BY <2>2, <2>3, TellAnnounces DEF NoneForgotten, NoClientForgotten, IInv
<1>7. QED
  BY <1>1, <1>2, <1>3, <1>4, <1>5, <1>6 DEF Next, Environment

(* As long as Thermite's ids fit an int64, a client that it has is         *)
(* connected in the game or announced by a frame that is still to be read, *)
(* while the link is up and read from (thermite.cpp:66-160, game.cpp:28-47).*)
THEOREM ClientsAreNotForgotten ==
  ASSUME IdsAreSigned
  PROVE  Spec => []NoClientForgotten
<1>1. Init => OnlyTheGoneAreDropped /\ NoClientForgotten
  BY DEF Init, ClientsInit, OnlyTheGoneAreDropped, NoClientForgotten
<1>2. IInv /\ OnlyTheGoneAreDropped /\ NoClientForgotten /\ [Next]_vars
        => OnlyTheGoneAreDropped' /\ NoClientForgotten'
  BY GoneKeeps, ForgottenKeeps DEF NoneForgotten
<1>3. QED
  BY <1>1, <1>2, Inductive, PTL DEF Spec

=============================================================================
