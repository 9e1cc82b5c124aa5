---------------------------- MODULE RouteScripts ----------------------------
(***************************************************************************)
(* A waypoint session, or none, and after it a run of a route from the     *)
(* file.                                                                   *)
(***************************************************************************)
EXTENDS WaypointSession, RunTrajectory

CONSTANTS
  Files,     \* what the file may hold when only the route is run
  Stores,    \* what it may hold when there is a session before
  TheRoute   \* --route

\* "none" is no action's name, but any other may be, which the run finds out.
IsRoute(route) ==
  /\ route.points \in Seq(Names)
  /\ \A k \in DOMAIN route.at : route.at[k] # "none"
  /\ \A x \in DOMAIN route.by : route.by[x] # "none"

\* f maps some of S.
IsPartial(f, S) == DOMAIN f \subseteq S /\ f = [x \in DOMAIN f |-> f[x]]

\* A file that can be read.
IsStore(store) ==
  /\ store = [waypoints |-> store.waypoints, routes |-> store.routes]
  /\ IsPartial(store.waypoints, Names) /\ IsPartial(store.routes, RouteNames)
  /\ \A name \in DOMAIN store.routes : IsRoute(store.routes[name])

ASSUME RouteAssumption ==
  /\ \A store \in Files \union Stores : IsStore(store)
  /\ \A route \in Typed : IsRoute(route)

vars == <<storeVars, keyVars, pc, sessionVars, faults, runVars>>

Init ==
  /\ \/ pc = "open" /\ file \in Stores
     \/ pc = "skipped" /\ file \in Files
  /\ waypoints = Empty /\ routes = Empty /\ dirty = FALSE
  /\ SessionInit /\ RunInit

Session == (SessionNext \/ Operates \/ LetsGo) /\ UNCHANGED runVars

\* The run is a process of its own: it loads what the file holds, and ends
\* if it cannot be read.
LoadsRoutes ==
  /\ pc \in {"over", "skipped"} /\ run = "idle"
  /\ IF file = Torn THEN At("ended") /\ UNCHANGED storeVars
     ELSE At("plan") /\ Load
  /\ UNCHANGED <<keyVars, pc, sessionVars, faults, runs, segment, at,
                 gripper_value, hand, hand_busy, began, steps>>

Run ==
  /\ RunNext(TheRoute)
  /\ UNCHANGED <<storeVars, keyVars, pc, sessionVars, faults>>

Next == Session \/ LoadsRoutes \/ Run

\* The session goes on, and the operator answers what it asks.
Fairness ==
  /\ WF_vars((Step \/ Leaves) /\ UNCHANGED runVars)
  /\ WF_vars((Answers \/ LetsGo) /\ UNCHANGED runVars)

Spec == Init /\ [][Next]_vars /\ Fairness

-----------------------------------------------------------------------------
(* Types: keys that are late are held, and a round has its steps. *)

TypeOK ==
  /\ DOMAIN waypoints \subseteq Names /\ DOMAIN routes \subseteq RouteNames
  /\ dirty \in BOOLEAN /\ save_failed \in BOOLEAN
  /\ held \subseteq Keys /\ late \subseteq held /\ pressed_keys \subseteq held
  /\ last_gripper \in {"open", "close"}
  /\ cmd = "none" <=> pc # "prompt"
  /\ inputs \in 0..MaxInputs /\ faults \in 0..MaxFaults /\ runs \in 0..MaxRuns
  /\ run # "idle" => pc \in {"over", "skipped"}
  /\ hand \in {"open", "close"} /\ hand_busy \in BOOLEAN
  /\ run = "act" => /\ segment \in DOMAIN Segments(TheRoute)
                    /\ at = Segments(TheRoute)[segment].to

(***************************************************************************)
(* waypoints.py:203, collect_waypoints.py:262-266 ("Esc - Quit (auto-saves *)
(* )").  A store that is not dirty is what the file holds, and so is any   *)
(* store when the session is over, unless the last save failed.            *)
(***************************************************************************)
NothingUnsaved ==
  pc \notin {"open", "skipped"} /\ ~ save_failed =>
    (~ dirty \/ pc = "over" => file = Contents)

(***************************************************************************)
(* keyboard_teleop.py:172-176, "Call after terminal mode switches [...] to *)
(* prevent stale key events from triggering unintended actions", and       *)
(* collect_waypoints.py:242-243, "Clear stale pynput state [...] (input()  *)
(* Enter press not yet released physically)".  A key that went down at a   *)
(* prompt and was not let go since does not move the gripper.              *)
(***************************************************************************)
PromptKeepsGripper ==
  [][last_gripper' # last_gripper =>
       (IF last_gripper' = "close" THEN "space" ELSE "enter") \notin typed]_vars

(***************************************************************************)
(* keyboard_teleop.py:96-109.  Esc ends the session, however short the     *)
(* press was, whatever was being asked.                                    *)
(***************************************************************************)
EscEnds == exit_requested ~> pc = "over"

Route == routes[TheRoute]

\* The gripper's value from a position on: of the last action up to there.
Wanted(k) ==
  LET before == {i \in 1..k : HasAction(Route, i)}
  IN IF before = {} THEN began ELSE ActionAt(Route, Max(before))

(***************************************************************************)
(* executor.py:122-212 and 307-349.  The arm goes through the route's      *)
(* positions in order and leaves none out; where there is an action the    *)
(* gripper is asked for it after the arm has been sent there, and before   *)
(* the arm is sent on; and it is asked for nothing else.                   *)
(***************************************************************************)
FollowsRoute ==
  run \in {"drive", "act", "done"} =>
    /\ \A i \in DOMAIN steps :
         steps[i].grip \in {Wanted(steps[i].at), Wanted(steps[i].at - 1)}
    /\ steps # <<>> => steps[1].at = 1
    /\ \A i \in 1..Len(steps) - 1 :
         \/ steps[i + 1].at = steps[i].at
         \/ /\ steps[i + 1].at = steps[i].at + 1
            /\ steps[i].grip = Wanted(steps[i].at)
            /\ steps[i + 1].grip = Wanted(steps[i].at)
    /\ run = "done" =>
         Last(steps) = [at |-> Len(Route.points),
                        grip |-> Wanted(Len(Route.points))]

(***************************************************************************)
(* executor.py:145-150, an example of split_route's: "route = [home,       *)
(* grasp, lift, home] gripper_actions = {0: open, grasp: close, 3: open}"  *)
(* gives "pre_gripper_action: open (index 0)" and "Segment 1: [home,       *)
(* grasp, lift, home], gripper=open (index 3)".                            *)
(***************************************************************************)
SplitAsDocumented ==
  LET route == [points |-> <<"home", "grasp", "lift", "home">>,
                at |-> 1 :> "open" @@ 4 :> "open", by |-> "grasp" :> "close"]
  IN /\ PreAction(route) = "open"
     /\ SplitRoute(route) = <<[from |-> 1, to |-> 4, action |-> "open"]>>

(***************************************************************************)
(* executor.py:55-57: "Between segments, the gripper action is executed    *)
(* (blocking)."                                                            *)
(***************************************************************************)
GripperBlocks ==
  [][(/\ run = "drive" /\ steps # <<>> /\ steps' # steps
      /\ HasAction(Route, Last(steps).at) /\ Last(steps').at > Last(steps).at)
       => ~ hand_busy]_vars
=============================================================================
