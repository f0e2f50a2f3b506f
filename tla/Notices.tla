------------------------------- MODULE Notices -------------------------------
(***************************************************************************)
(* What containers hear of moves.  moveTo and atDelete tell the container  *)
(* left (atObjectLeave) and the container entered (atObjectReceive), and a *)
(* game overrides these hooks to keep track of what is in a room.  Such a  *)
(* game is external; it is modelled here by the simplest use of the hooks, *)
(* a count per container.  A count is all that a deletion allows, since    *)
(* the parameters it passes to atObjectLeave do not name the object.       *)
(***************************************************************************)
EXTENDS Movement

VARIABLE occupants   \* occupants[c]: arrivals less departures c was told of

NoticeInit == Init /\ occupants = [c \in Object |-> 0]

(* The call f has just called the hook f.pc. *)
Heard(f) ==
  [c \in Object |->
     occupants[c]
       + (IF f.pc = "atObjectReceive" /\ f.dest = c THEN 1 ELSE 0)
       - (IF f.pc \in {"atObjectLeave", "atDeleteLeave"} /\ f.loc = c
          THEN 1 ELSE 0)]

(* A step that does not return a call takes the innermost call to a hook. *)
NoticeNext ==
  /\ Next
  /\ occupants' = IF Len(stack') >= Len(stack) THEN Heard(stack'[Len(stack')])
                  ELSE occupants

NoticeSpec == NoticeInit /\ [][NoticeNext]_<<vars, occupants>>

-----------------------------------------------------------------------------

(* What the game must respect for no call to go on with a location that is *)
(* out of date: it moves and deletes only in the hooks that run after      *)
(* moveTo has done its work, or before atDelete reads the location.        *)
NothingStale == ReentrantHooks \subseteq PostHooks \cup {"atObjectDeleted"}

(***************************************************************************)
(* Once all calls have returned, a container that counted what it was told *)
(* agrees with getContents(): every departure and arrival is told to the   *)
(* container it concerns, once.  A call that goes on with the location it  *)
(* read before its hooks ran (Object.cpp:253, 296) would break it.         *)
(***************************************************************************)
Attendance ==
  stack = <<>> =>
    \A c \in Object : occupants[c] = Len(reverseRelations[c][Location])

=============================================================================
