--------------------------- MODULE MCRouteScripts ---------------------------
(* Routes over two waypoints, with at most one action by position. *)
EXTENDS RouteScripts

Actions == {"open", "close"}
Partial(S) == UNION {[T -> Actions] : T \in SUBSET S}

RoutesOf(n) ==
  { [points |-> p, at |-> a, by |-> b] :
      p \in [1..n -> Names],
      a \in UNION {[{k} -> Actions] : k \in 1..n} \union {Empty},
      b \in Partial(Names) }

FilesOf(n) ==
  { [waypoints |-> [x \in Names |-> IF x = "home" THEN 0 ELSE 1],
     routes |-> [r \in {"pick"} |-> route]] : route \in RoutesOf(n) }

TypedRoutes ==
  { [points |-> <<"home", "grasp", "home">>, at |-> 3 :> "open",
     by |-> "grasp" :> "close"] }

StoredFiles == {Nowhere} \union
  { [waypoints |-> [x \in Names |-> IF x = "home" THEN 0 ELSE 1],
     routes |-> [r \in {"pick"} |-> route]] : route \in TypedRoutes }

\* One with an action that is not known.
OddFile ==
  [waypoints |-> [x \in Names |-> IF x = "home" THEN 0 ELSE 1],
   routes |-> [r \in {"pick"} |->
                 [points |-> <<"home", "grasp", "home">>,
                  at |-> 3 :> "push", by |-> "grasp" :> "close"]]]

AllFiles == {Nowhere, OddFile} \union UNION {FilesOf(n) : n \in 1..4}

=============================================================================
