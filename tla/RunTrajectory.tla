---------------------------- MODULE RunTrajectory ----------------------------
(***************************************************************************)
(* scripts/run_trajectory.py and trajectory/executor.py: a route from the  *)
(* file is planned, and then carried out with the gripper's actions.       *)
(*                                                                         *)
(* A trajectory is its waypoints.  A step of the environment sends the arm *)
(* to one and, if it is not the last target accepted, the gripper to its   *)
(* value.                                                                  *)
(***************************************************************************)
EXTENDS Routes

CONSTANT MaxRuns   \* bound on the rounds with --loop

ASSUME RunAssumption == MaxRuns \in Nat \ {0}

VARIABLES
  run,            \* where the script is
  runs,
  segment,        \* the segment being carried out
  at,             \* the position in the route
  gripper_value,
  hand,           \* the last target the gripper accepted
  hand_busy,
  began,          \* history: the gripper's value when the round began
  steps           \* history: the environment's steps in this round

runVars == <<run, runs, segment, at, gripper_value, hand, hand_busy, began,
             steps>>

RunInit ==
  /\ run = "idle" /\ runs = 0 /\ segment = 1 /\ at = 1 /\ gripper_value = "open"
  /\ hand = "open" /\ hand_busy = FALSE /\ began = "open" /\ steps = <<>>

At(place) == run' = place

\* FrankaEnv.step.  A gripper at work refuses, and is asked again with the
\* next step.
EnvStep(k, value) ==
  /\ steps' = Append(steps, [at |-> k, grip |-> value])
  /\ \/ (value = hand \/ hand_busy) /\ UNCHANGED <<hand, hand_busy>>
     \/ value # hand /\ ~ hand_busy /\ hand' = value /\ hand_busy' = TRUE

Known(name) == name \in DOMAIN routes
Segments(name) == SplitRoute(routes[name])
Resolves(name) == Range(routes[name].points) \subseteq DOMAIN waypoints

\* All segments are planned before the robot is connected.
CanRun(name) ==
  /\ Known(name) /\ Resolves(name)
  /\ \A i \in DOMAIN Segments(name) : CanPlan(routes[name], Segments(name)[i])

Plans(name) ==
  /\ run = "plan" /\ At(IF CanRun(name) THEN "reset" ELSE "ended")
  /\ UNCHANGED <<runs, segment, at, gripper_value, hand, hand_busy, began,
                 steps>>

\* reset opens the gripper, and waits for it.
Resets ==
  /\ run = "reset" /\ At("start") /\ hand' = "open" /\ hand_busy' = FALSE
  /\ UNCHANGED <<runs, segment, at, gripper_value, began, steps>>

\* The arm moves to the route's start.
Starts ==
  /\ run = "start" /\ At("pre") /\ runs' = runs + 1
  /\ steps' = <<>> /\ segment' = 1 /\ at' = 1
  /\ gripper_value' = hand /\ began' = hand
  /\ UNCHANGED <<hand, hand_busy>>

\* What gripper_action_value knows.  It raises for any other action, and the
\* run breaks.
Commands == {"open", "close"}

ActsFirst(name) ==
  LET action == PreAction(routes[name])
  IN /\ run = "pre" /\ action \in Commands \union {"none"} /\ At("drive")
     /\ IF action = "none" THEN UNCHANGED <<gripper_value, hand, hand_busy,
                                            steps>>
        ELSE gripper_value' = action /\ EnvStep(1, action)
     /\ UNCHANGED <<runs, segment, at, began>>

\* execute_trajectory, one point after the other.
Drives(name) ==
  LET to == Segments(name)[segment].to
  IN /\ run = "drive" /\ EnvStep(at, gripper_value)
     /\ IF at < to THEN at' = at + 1 /\ At("drive") ELSE at' = at /\ At("act")
     /\ UNCHANGED <<runs, segment, gripper_value, began>>

\* The segment's gripper action; the next segment starts from here.
Acts(name) ==
  LET action == Segments(name)[segment].action
      last == segment = Len(Segments(name))
  IN /\ run = "act" /\ action \in Commands \union {"none"}
     /\ IF action = "none" THEN UNCHANGED <<gripper_value, hand, hand_busy,
                                            steps>>
        ELSE gripper_value' = action /\ EnvStep(at, action)
     /\ segment' = IF last THEN segment ELSE segment + 1
     /\ at' = IF last THEN at ELSE Segments(name)[segment + 1].from
     /\ At(IF last THEN "done" ELSE "drive")
     /\ UNCHANGED <<runs, began>>

\* With --loop the route is run again.
Repeats ==
  /\ run = "done"
  /\ \/ At("ended")
     \/ runs < MaxRuns /\ At("start")
  /\ UNCHANGED <<runs, segment, at, gripper_value, hand, hand_busy, began,
                 steps>>

\* Ctrl-C, or a call that raises, in the block that ends with env.close.
RunBreaks ==
  /\ run \in {"reset", "start", "pre", "drive", "act", "done"} /\ At("ended")
  /\ UNCHANGED <<runs, segment, at, gripper_value, hand, hand_busy, began,
                 steps>>

HandEnds ==
  /\ hand_busy /\ hand_busy' = FALSE
  /\ UNCHANGED <<run, runs, segment, at, gripper_value, hand, began, steps>>

RunNext(name) ==
  \/ Plans(name) \/ Resets \/ Starts \/ ActsFirst(name) \/ Drives(name)
  \/ Acts(name) \/ Repeats \/ RunBreaks \/ HandEnds
=============================================================================
