------------------------------- MODULE Sessions -------------------------------
(***************************************************************************)
(* The session that plays an object: setSession and removeSession          *)
(* (Object.cpp:33-61), with calls that their hooks nest, beside the moves  *)
(* and deletions of Notices.  Session itself is only declared; a game has  *)
(* to supply what send and atObjectDeleted do.  Here a session that is     *)
(* told that its object is deleted may remove itself from the object, and  *)
(* session calls are made where no move or deletion is in progress, or by  *)
(* such a session.                                                         *)
(*                                                                         *)
(* The variable sessionCalls is the stack of the calls of the two.         *)
(***************************************************************************)
EXTENDS Notices

CONSTANTS
  Session,          \* the sessions
  NoSession,        \* the null pointer
  MaxSessionDepth   \* bound: how deep the calls nest

ASSUME SessionsAssumption == NoSession \notin Session /\ MaxSessionDepth \in Nat \ {0}

VARIABLES
  session,       \* session[o]: the session linked to o
  sessionCalls,  \* the calls of setSession and removeSession in progress
  heard          \* heard[o]: what a game that listens to the hooks makes of it

sessionVars == <<session, sessionCalls, heard>>
playVars == <<vars, occupants, sessionVars>>

InnerCall == sessionCalls[Len(sessionCalls)]

SessionInit ==
  /\ NoticeInit
  /\ session = [o \in Object |-> NoSession] /\ sessionCalls = <<>>
  /\ heard = [o \in Object |-> NoSession]

-----------------------------------------------------------------------------

(***************************************************************************)
(* A game that wants to know the sessions does not change the session of   *)
(* an object between a "pre" hook that tells of a change and the change.   *)
(***************************************************************************)
BeingChanged(o) ==
  \E i \in DOMAIN sessionCalls :
    /\ sessionCalls[i].obj = o
    /\ sessionCalls[i].hook \in {"onPreSessionLink", "onPreSessionUnlink"}

CallHook(hook, o, s) ==
  /\ Len(sessionCalls) < MaxSessionDepth /\ ~BeingChanged(o)
  /\ sessionCalls' = Append(sessionCalls, [hook |-> hook, obj |-> o, sess |-> s])
  /\ UNCHANGED <<session, heard>>

(* Of no session, too: then the "link" hooks tell of a null pointer. *)
SetSession(o, s) ==
  /\ sessionCalls = <<>> => stack = <<>>
  /\ CallHook("onPreSessionLink", o, s)

(* Without a session removeSession returns at once. *)
RemoveSession(o) ==
  /\ session[o] # NoSession
  /\ sessionCalls = <<>> => \/ stack = <<>>
                            \/ At("atObjectDeleted") /\ Top.obj = o
  /\ CallHook("onPreSessionUnlink", o, session[o])

Change(s, hook) ==
  /\ session' = [session EXCEPT ![InnerCall.obj] = s]
  /\ sessionCalls' = [sessionCalls EXCEPT ![Len(sessionCalls)].hook = hook]

(* onPostSessionLink is called: s plays the object from now on. *)
LinkSession ==
  /\ sessionCalls # <<>> /\ InnerCall.hook = "onPreSessionLink"
  /\ Change(InnerCall.sess, "onPostSessionLink")
  /\ heard' = [heard EXCEPT ![InnerCall.obj] = InnerCall.sess]

(* onPostSessionUnlink is called: s does not play the object any more.     *)
UnlinkSession ==
  /\ sessionCalls # <<>> /\ InnerCall.hook = "onPreSessionUnlink"
  /\ Change(NoSession, "onPostSessionUnlink")
  /\ heard' = [heard EXCEPT ![InnerCall.obj] =
                 IF @ = InnerCall.sess THEN NoSession ELSE @]

(* Mutant: removeSession resets the session when its hooks are done. *)
ReturnAndReset ==
  /\ sessionCalls # <<>>
  /\ InnerCall.hook \in {"onPostSessionLink", "onPostSessionUnlink"}
  /\ session' = IF InnerCall.hook = "onPostSessionLink" THEN session
                ELSE [session EXCEPT ![InnerCall.obj] = NoSession]
  /\ sessionCalls' = Front(sessionCalls)
  /\ UNCHANGED heard

SessionReturn ==
  /\ sessionCalls # <<>>
  /\ InnerCall.hook \in {"onPostSessionLink", "onPostSessionUnlink"}
  /\ sessionCalls' = Front(sessionCalls)
  /\ UNCHANGED <<session, heard>>

SessionNext ==
  \/ \E o \in Object : RemoveSession(o) \/ \E s \in Session \cup {NoSession} : SetSession(o, s)
  \/ LinkSession \/ UnlinkSession \/ SessionReturn

(* Moves and deletions go on when the calls that a session made are over.  *)
PlayNext ==
  \/ SessionNext /\ UNCHANGED <<vars, occupants>>
  \/ sessionCalls = <<>> /\ NoticeNext /\ UNCHANGED sessionVars

PlaySpec == SessionInit /\ [][PlayNext]_playVars

-----------------------------------------------------------------------------

(***************************************************************************)
(* Once the calls have returned, the session of an object is the one that  *)
(* its "post" hooks have told of last, although each of them may link or   *)
(* remove a session before the call that made it returns, and although a   *)
(* deletion may be what removed it (Object.cpp:33-61, 77-79).              *)
(***************************************************************************)
HooksKnowTheSession == sessionCalls = <<>> => session = heard

=============================================================================
