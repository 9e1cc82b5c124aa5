------------------------------ MODULE ArmScript ------------------------------
(***************************************************************************)
(* What the scripts that stream targets to the arm have in common: the     *)
(* confirmation, the arm, the gripper, Ctrl-C, and the exception that ends *)
(* them in their finally block.                                            *)
(*                                                                         *)
(* A gripper's target is a number up to Full, in the units of its server:  *)
(* a Robotiq's Full is closed, a Franka hand's Full is open.               *)
(***************************************************************************)
EXTENDS Integers, Sequences

CONSTANTS
  Full,       \* the largest gripper target
  MaxFaults   \* bound on the calls that raise

ASSUME ArmAssumption == Full \in Nat \ {0} /\ MaxFaults \in Nat

VARIABLES
  script,       \* "openpi", "lerobot" or "studio"
  opts,         \* its options
  pc,
  moved,        \* history: the arm was sent somewhere before the stream
  asked,        \* history: the operator has confirmed
  sent,         \* history: the targets streamed
  hand,         \* the gripper's last accepted target, which is the position
                \* that FrankaEnv reports, or where it was at first
  handBusy,     \* whether it is on its way
  interrupted,  \* history: how much was sent when Ctrl-C came, or None
  faults

armVars == <<moved, asked, sent, hand, handBusy>>
baseVars == <<script, opts, interrupted, faults>>

None == -1

ArmInit ==
  /\ moved = FALSE /\ asked = FALSE /\ sent = <<>>
  /\ hand \in 0..Full /\ handBusy = FALSE /\ interrupted = None /\ faults = 0

Goto(at) == pc' = at

\* A call raises: the script's finally block is next.
Fault == faults < MaxFaults /\ faults' = faults + 1 /\ Goto("finally")

Unbothered == UNCHANGED baseVars

\* A server takes no target while it carries one out.
Accepts(target) ==
  ~ handBusy /\ hand' = target /\ handBusy' = TRUE

Refuses == handBusy /\ UNCHANGED <<hand, handBusy>>

\* The operator types the word, or something else.
Answer(next) ==
  /\ \/ opts.yes /\ Goto(next) /\ UNCHANGED asked
     \/ ~ opts.yes /\ asked' = TRUE /\ Goto(next)
     \/ ~ opts.yes /\ UNCHANGED asked /\ Goto("finally")
  /\ Unbothered /\ UNCHANGED <<moved, sent, hand, handBusy>>

HandEnds ==
  /\ handBusy /\ handBusy' = FALSE
  /\ UNCHANGED <<baseVars, pc, moved, asked, sent, hand>>
=============================================================================
