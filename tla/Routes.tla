------------------------------- MODULE Routes -------------------------------
(***************************************************************************)
(* trajectory/waypoints.py and the pure part of trajectory/executor.py:    *)
(* the store of waypoints and routes, its file, and how a route is split   *)
(* at its gripper actions.                                                 *)
(*                                                                         *)
(* A route is the names it goes through, and its gripper actions, "at" by  *)
(* position and "by" name.  Positions count from 1, the code's from 0.  A  *)
(* pose is a number.                                                       *)
(***************************************************************************)
EXTENDS Integers, Sorted, SequencesExt

CONSTANT Names   \* of waypoints

VARIABLES
  waypoints,   \* from names to poses
  routes,      \* from route names to routes
  dirty,
  file         \* what the YAML file holds

storeVars == <<waypoints, routes, dirty, file>>

Empty == [x \in {} |-> {}]
Contents == [waypoints |-> waypoints, routes |-> routes]
Nowhere == [waypoints |-> Empty, routes |-> Empty]
Torn == [torn |-> TRUE]

Without(f, x) == [y \in DOMAIN f \ {x} |-> f[y]]
With(f, x, v) == [y \in DOMAIN f \union {x} |-> IF y = x THEN v ELSE f[y]]

Load ==
  /\ waypoints' = file.waypoints /\ routes' = file.routes /\ dirty' = FALSE
  /\ UNCHANGED file

Save == file' = Contents /\ dirty' = FALSE /\ UNCHANGED <<waypoints, routes>>

\* The file is opened for writing, which empties it, and then written.
SaveFails == file' \in {file, Torn} /\ UNCHANGED <<waypoints, routes, dirty>>

AddWaypoint(name, pose) ==
  /\ waypoints' = With(waypoints, name, pose) /\ dirty' = TRUE
  /\ UNCHANGED <<routes, file>>

\* Routes may go on naming it.
RemoveWaypoint(name) ==
  /\ waypoints' = Without(waypoints, name)
  /\ dirty' = (dirty \/ name \in DOMAIN waypoints)
  /\ UNCHANGED <<routes, file>>

AddRoute(name, route) ==
  /\ routes' = With(routes, name, route) /\ dirty' = TRUE
  /\ UNCHANGED <<waypoints, file>>

\* Mutant of RemoveRoute: the change is not noted.
RemoveRouteQuietly(name) ==
  routes' = Without(routes, name) /\ UNCHANGED <<waypoints, dirty, file>>

RemoveRoute(name) ==
  /\ routes' = Without(routes, name)
  /\ dirty' = (dirty \/ name \in DOMAIN routes)
  /\ UNCHANGED <<waypoints, file>>

-----------------------------------------------------------------------------
(* Splitting. *)

HasAction(route, k) ==
  k \in DOMAIN route.at \/ route.points[k] \in DOMAIN route.by

\* A position takes priority over a name.
ActionAt(route, k) ==
  IF k \in DOMAIN route.at THEN route.at[k] ELSE route.by[route.points[k]]

PreAction(route) ==
  IF HasAction(route, 1) THEN ActionAt(route, 1) ELSE "none"

\* Mutant of SplitRoute: a segment starts after the one before it.
SplitRouteApart(route) ==
  LET n == Len(route.points)
      splits == Sorted({k \in 2..n : HasAction(route, k)})
      From(i) == IF i = 1 THEN 1 ELSE splits[i - 1] + 1
      segments == [i \in DOMAIN splits |->
                     [from |-> From(i), to |-> splits[i],
                      action |-> ActionAt(route, splits[i])]]
      rest == From(Len(splits) + 1)
  IN IF rest < n \/ splits = <<>>
     THEN Append(segments, [from |-> rest, to |-> n, action |-> "none"])
     ELSE segments

\* The segments end at the actions, and share their ends.
SplitRoute(route) ==
  LET n == Len(route.points)
      splits == Sorted({k \in 2..n : HasAction(route, k)})
      From(i) == IF i = 1 THEN 1 ELSE splits[i - 1]
      segments == [i \in DOMAIN splits |->
                     [from |-> From(i), to |-> splits[i],
                      action |-> ActionAt(route, splits[i])]]
      rest == From(Len(splits) + 1)
  IN IF rest < n \/ splits = <<>>
     THEN Append(segments, [from |-> rest, to |-> n, action |-> "none"])
     ELSE segments

\* TrajectoryPlanner.plan refuses less than two points, and two equal ones
\* in a row.
CanPlan(route, segment) ==
  LET Pose(k) == waypoints[route.points[k]]
  IN /\ segment.from < segment.to
     /\ \A k \in segment.from..segment.to - 1 : Pose(k) # Pose(k + 1)
=============================================================================
