------------------------- MODULE ServerClientProofs -------------------------
(***************************************************************************)
(* Theorems about the client of a server, for any number of calls, late    *)
(* replies and states on the stream.                                       *)
(***************************************************************************)
EXTENDS ServerClient, FiniteSetTheorems, SequenceTheorems, TLAPS

Kinds == {"operation", "submit", "short", "get_state", "stop", "set"}
Requests == [number : Numbers, what : Kinds]
Replies == [success : BOOLEAN, status : {"none", "busy", "idle"},
            result : 0 .. MaxCalls, state : NoState .. MaxCalls]

(***************************************************************************)
(* Types.                                                                  *)
(***************************************************************************)
ClientTypes ==
  /\ client \in Clients /\ calls \in 0 .. MaxCalls /\ late \in 0 .. MaxLate
  /\ call \in CallsOf(client) \union {"none"} /\ returned \in BOOLEAN
  /\ pc \in {"idle", "reply", "wait", "asked", "refresh", "refreshing"}
  /\ requests \in Seq(Requests) /\ replies \in Seq(Replies)
  /\ call # "none" => calls > 0
  /\ pc = "reply" => call \notin {"set", "none"}
  /\ pc \notin {"idle", "reply"} => call = "operation"

ServerTypes ==
  /\ op \in 0 .. calls /\ busy \in BOOLEAN /\ reported \in {None, op}
  /\ interrupted \in BOOLEAN /\ failed \subseteq 1 .. op
  /\ done \subseteq Numbers
  /\ ~ busy => reported = op \/ interrupted

StreamTypes ==
  /\ cached \in NoState .. op /\ stream \in Seq(0 .. MaxCalls)
  /\ Len(stream) <= StreamCap
  /\ raw \in NoState .. MaxCalls /\ streaming \in NoState .. MaxCalls

(***************************************************************************)
(* The requests are in the order of their calls; an operation's comes      *)
(* after those of all former calls, and is newer than what was accepted.   *)
(***************************************************************************)
IsOperation(r) == r.what \in {"operation", "submit"}

OrderInv ==
  /\ \A i \in DOMAIN requests : /\ requests[i].number <= calls
                                /\ IsOperation(requests[i]) =>
                                     requests[i].number > op
  /\ \A i, j \in DOMAIN requests :
       i < j /\ IsOperation(requests[j]) =>
         requests[i].number < requests[j].number

(***************************************************************************)
(* With at most one late reply, the answers under way while a call waits   *)
(* for an operation are known: the one to the operation, which says        *)
(* whether it was accepted, and those to the questions after it.           *)
(***************************************************************************)
Done ==
  \/ op = calls /\ reported = calls /\ calls \notin failed
  \/ interrupted

\* What a reply to a request of this call says.
Says(what, r) ==
  IF what = "operation"
  THEN r.status = "none" /\ (r.success => op = calls)
  ELSE /\ op = calls
       /\ r.status = "idle" =>
            interrupted \/ (r.result = calls /\ reported = calls)

IsOwn(what, r) ==
  r.number = calls /\ r.what = what /\ (what = "get_state" => op = calls)

\* The last answer under way is to such a request.
LastOut(what) ==
  IF requests = <<>>
  THEN replies # <<>> /\ Says(what, replies[Len(replies)])
  ELSE IsOwn(what, requests[Len(requests)])

LastAsks ==
  LET r == requests[Len(requests)] IN r.number = calls /\ r.what = "get_state"

\* The answers under way are to such a request and to a question after it.
BothOut(what) ==
  \/ /\ Len(replies) = 2 /\ requests = <<>> /\ Says(what, replies[1])
     /\ replies[1].success => Says("get_state", replies[2])
  \/ /\ Len(replies) = 1 /\ Says(what, replies[1])
     /\ Len(requests) = 1 /\ LastAsks
  \/ /\ replies = <<>> /\ Len(requests) >= 2 /\ LastAsks
     /\ IsOwn(what, requests[Len(requests) - 1])
     /\ \A i \in 1 .. Len(requests) - 2 : requests[i].what = "set"

OperationInv ==
  call = "operation" /\ late <= 1 =>
    /\ pc = "reply" => LastOut("operation")
    /\ pc = "wait" => IF late = 0 THEN op = calls
                      ELSE LastOut("operation") \/ LastOut("get_state")
    /\ pc = "asked" => IF late = 0 THEN LastOut("get_state")
                       ELSE BothOut("operation") \/ BothOut("get_state")
    /\ pc \in {"refresh", "refreshing"} => Done
    /\ pc = "idle" /\ returned => Done

ClientInv ==
  /\ ClientTypes /\ ServerTypes /\ StreamTypes /\ OrderInv /\ LateRepliesStay
  /\ OperationInv

-----------------------------------------------------------------------------
(* Types of the constants and of the calls. *)

LEMMA ConstantTypes ==
  /\ Clients \subseteq {"robot", "gripper", "robotiq"}
  /\ MaxCalls \in Nat /\ MaxLate \in Nat /\ StreamCap \in Nat \ {0}
  /\ None = 0 /\ NoState = -1 /\ Numbers = 1 .. MaxCalls
BY ClientAssumption DEF None, NoState, Numbers

LEMMA CallTypes ==
  ASSUME NEW c \in Clients, NEW k \in CallsOf(c)
  PROVE  k \in Kinds /\ k # "none"
BY ConstantTypes DEF CallsOf, RobotCalls, GripperCalls, RobotiqCalls, Kinds

-----------------------------------------------------------------------------
(* How many requests will be answered. *)

OwedOf(q) == {i \in DOMAIN q : q[i].what # "set"}

LEMMA OwedFinite ==
  ASSUME NEW q \in Seq(Requests)
  PROVE  /\ IsFiniteSet(OwedOf(q)) /\ Cardinality(OwedOf(q)) \in Nat
         /\ OwedOf(q) \subseteq 1 .. Len(q)
PROOF
<1>1. OwedOf(q) \subseteq 1 .. Len(q)
  BY DEF OwedOf
<1>2. IsFiniteSet(1 .. Len(q))
  BY FS_Interval
<1>3. IsFiniteSet(OwedOf(q))
  BY <1>1, <1>2, FS_Subset
<1>. QED
  BY <1>1, <1>3, FS_CardinalityType

LEMMA OwedAppend ==
  ASSUME NEW q \in Seq(Requests), NEW r \in Requests
  PROVE  Cardinality(OwedOf(Append(q, r))) =
           Cardinality(OwedOf(q)) + (IF r.what = "set" THEN 0 ELSE 1)
PROOF
<1> DEFINE n == Len(q) + 1
<1>1. /\ DOMAIN Append(q, r) = 1 .. n /\ Append(q, r)[n] = r
      /\ \A i \in 1 .. Len(q) : Append(q, r)[i] = q[i]
  OBVIOUS
<1>2. CASE r.what = "set"
  <2>1. OwedOf(Append(q, r)) = OwedOf(q)
    BY <1>1, <1>2 DEF OwedOf
  <2>. QED
    BY <1>2, <2>1, OwedFinite
<1>3. CASE r.what # "set"
  <2>1. OwedOf(Append(q, r)) = OwedOf(q) \union {n}
    BY <1>1, <1>3 DEF OwedOf
  <2>2. n \notin OwedOf(q)
    BY DEF OwedOf
  <2>. QED
    BY <1>3, <2>1, <2>2, OwedFinite, FS_AddElement
<1>. QED
  BY <1>2, <1>3

LEMMA OwedTail ==
  ASSUME NEW q \in Seq(Requests), q # <<>>
  PROVE  Cardinality(OwedOf(q)) =
           Cardinality(OwedOf(Tail(q)))
             + (IF Head(q).what = "set" THEN 0 ELSE 1)
PROOF
<1> DEFINE S == OwedOf(Tail(q))
           T == OwedOf(q) \ {1}
           f == [i \in S |-> i + 1]
<1>1. /\ Len(q) \in Nat \ {0} /\ Tail(q) \in Seq(Requests)
      /\ Len(Tail(q)) = Len(q) - 1 /\ Head(q) = q[1]
      /\ \A i \in 1 .. Len(q) - 1 : Tail(q)[i] = q[i + 1]
  BY EmptySeq
<1>2. \A i \in Int : i \in S <=> i + 1 \in T
  BY <1>1 DEF OwedOf
<1>3. (\A i \in S : i \in Int) /\ (\A i \in T : i \in Int)
  BY <1>1 DEF OwedOf
<1>. HIDE DEF S, T
<1>4. Cardinality(S) = Cardinality(T) /\ IsFiniteSet(S)
  <2>1. f \in [S -> T]
    BY <1>2, <1>3
  <2>2. \A i, j \in S : f[i] = f[j] => i = j
    BY <1>3
  <2>3. \A j \in T : \E i \in S : f[i] = j
    <3>. SUFFICES ASSUME NEW j \in T
                  PROVE  \E i \in S : f[i] = j
      OBVIOUS
    <3>1. j \in Int /\ j - 1 \in Int /\ (j - 1) + 1 = j
      BY <1>3
    <3>2. j - 1 \in S
      BY <1>2, <3>1
    <3>3. f[j - 1] = j
      BY <3>1, <3>2
    <3>. QED
      BY <3>2, <3>3, Zenon
  <2>4. f \in Bijection(S, T)
    BY <2>1, <2>2, <2>3, Zenon DEF Bijection, Injection, Surjection, IsInjective
  <2>5. IsFiniteSet(S)
    BY <1>1, OwedFinite DEF S
  <2>. QED
    BY <2>4, <2>5, FS_Bijection DEF ExistsBijection
<1>5. IsFiniteSet(OwedOf(q)) /\ Cardinality(OwedOf(q)) \in Nat
  BY OwedFinite
<1>6. CASE Head(q).what = "set"
  <2>1. T = OwedOf(q)
    BY <1>1, <1>6 DEF T, OwedOf
  <2>. QED
    BY <1>4, <1>5, <1>6, <2>1 DEF S
<1>7. CASE Head(q).what # "set"
  <2>1. 1 \in OwedOf(q)
    BY <1>1, <1>7 DEF OwedOf
  <2>2. Cardinality(T) = Cardinality(OwedOf(q)) - 1
    BY <1>5, <2>1, FS_RemoveElement DEF T
  <2>. QED
    BY <1>4, <1>5, <1>7, <2>2 DEF S
<1>. QED
  BY <1>6, <1>7

\* With as many answers to come as stand at the end, the rest are targets.
LEMMA NoneOwed ==
  ASSUME NEW q \in Seq(Requests), Cardinality(OwedOf(q)) = 0
  PROVE  \A i \in 1 .. Len(q) : q[i].what = "set"
PROOF
<1>1. OwedOf(q) = {}
  BY OwedFinite, FS_EmptySet
<1>. QED
  BY <1>1 DEF OwedOf

LEMMA OneOwed ==
  ASSUME NEW q \in Seq(Requests), Cardinality(OwedOf(q)) = 1,
         q # <<>>, q[Len(q)].what # "set"
  PROVE  \A i \in 1 .. Len(q) - 1 : q[i].what = "set"
PROOF
<1>. SUFFICES ASSUME NEW i \in 1 .. Len(q) - 1, q[i].what # "set"
              PROVE  FALSE
  OBVIOUS
<1>1. Len(q) \in Nat \ {0}
  BY EmptySeq
<1>2. i \in OwedOf(q) /\ Len(q) \in OwedOf(q) /\ i # Len(q)
  BY <1>1 DEF OwedOf
<1>3. PICK x : OwedOf(q) = {x}
  BY OwedFinite, FS_Singleton
<1>. QED
  BY <1>2, <1>3

-----------------------------------------------------------------------------
(* What a step of the server may do. *)

Types == ClientTypes /\ ServerTypes /\ StreamTypes /\ OrderInv

\* What a reply to the oldest request may be.
ReplyToHead(r) ==
  LET h == Head(requests) IN
    /\ h.what # "set"
    /\ IsOperation(h) => r.status = "none" /\ (r.success => op' = h.number)
    /\ h.what = "get_state" /\ r.status = "idle" =>
         ~ busy /\ r.result = reported

LEMMA ServeReplies ==
  ASSUME ClientTypes, ServerTypes, StreamTypes, Serve
  PROVE  /\ requests # <<>> /\ requests' = Tail(requests)
         /\ \/ Head(requests).what = "set" /\ replies' = replies
            \/ \E r \in Replies :
                 replies' = Append(replies, r) /\ ReplyToHead(r)
PROOF
<1>1. requests # <<>> /\ requests' = Tail(requests)
  BY DEF Serve, Accepts, Rejects, ServesShort, ServesState, ServesSet,
         ServesStop, Serves
<1>2. CASE ServesSet
  BY <1>1, <1>2, Zenon DEF ServesSet, Serves
<1>3. CASE ~ ServesSet
  <2>. DEFINE r(success, status, result, state) ==
                [success |-> success, status |-> status, result |-> result,
                 state |-> state]
  <2>1. ASSUME NEW s \in BOOLEAN
        PROVE  r(s, "none", None, NoState) \in Replies
    BY ConstantTypes DEF Replies
  <2>2. CASE Accepts
    <3>1. /\ replies' = Append(replies, r(TRUE, "none", None, NoState))
          /\ op' = Head(requests).number
          /\ Head(requests).what \in {"operation", "submit"}
      BY <2>2 DEF Accepts, Answer, Reply, Slot!Accept, Serves
    <3>2. ReplyToHead(r(TRUE, "none", None, NoState))
      BY <3>1 DEF ReplyToHead, IsOperation
    <3>. QED
      BY <1>1, <2>1, <3>1, <3>2
  <2>3. CASE Rejects
    <3>1. /\ replies' = Append(replies, r(FALSE, "none", None, NoState))
          /\ Head(requests).what \in {"operation", "submit"}
      BY <2>3 DEF Rejects, Answer, Reply, Serves
    <3>2. ReplyToHead(r(FALSE, "none", None, NoState))
      BY <3>1 DEF ReplyToHead, IsOperation
    <3>. QED
      BY <1>1, <2>1, <3>1, <3>2
  <2>4. CASE ServesShort
    <3>1. PICK s \in BOOLEAN :
            /\ replies' = Append(replies, r(s, "none", None, NoState))
            /\ Head(requests).what = "short"
      BY <2>4 DEF ServesShort, Answer, Reply, Serves
    <3>2. ReplyToHead(r(s, "none", None, NoState))
      BY <3>1 DEF ReplyToHead, IsOperation
    <3>. QED
      BY <1>1, <2>1, <3>1, <3>2
  <2>5. CASE ServesStop
    <3>1. /\ replies' = Append(replies, r(TRUE, "none", None, NoState))
          /\ Head(requests).what = "stop"
      BY <2>5 DEF ServesStop, Answer, Reply, Serves
    <3>2. ReplyToHead(r(TRUE, "none", None, NoState))
      BY <3>1 DEF ReplyToHead, IsOperation
    <3>. QED
      BY <1>1, <2>1, <3>1, <3>2
  <2>6. CASE ServesState
    <3>. DEFINE x == r(TRUE, IF busy THEN "busy" ELSE "idle", reported, cached)
    <3>1. replies' = Append(replies, x) /\ Head(requests).what = "get_state"
      BY <2>6 DEF ServesState, Reply, Serves
    <3>2. x \in Replies
      BY ConstantTypes DEF Replies, ServerTypes, StreamTypes, ClientTypes
    <3>3. ReplyToHead(x)
      BY <3>1 DEF ReplyToHead, IsOperation
    <3>. QED
      BY <1>1, <3>1, <3>2, <3>3
  <2>. QED
    BY <1>3, <2>2, <2>3, <2>4, <2>5, <2>6 DEF Serve
<1>. QED
  BY <1>2, <1>3

\* Serving a request leaves the client alone.
LEMMA ServeKeeps ==
  ASSUME Serve
  PROVE  UNCHANGED <<client, calls, call, returned, pc, late, cached, stream,
                     raw, streaming>>
BY DEF Serve, Accepts, Rejects, ServesShort, ServesState, ServesSet,
       ServesStop, Serves, callVars, streamVars

\* How the slot goes on, whichever request is served.
LEMMA ServeSlot ==
  ASSUME Types, Serve
  PROVE  /\ ServerTypes' /\ op <= op'
         /\ op' = op \/ (IsOperation(Head(requests))
                           /\ op' = Head(requests).number)
         /\ interrupted => interrupted'
         /\ op' = op => \/ reported' = reported /\ failed' = failed
                        \/ interrupted'
PROOF
<1>1. /\ requests \in Seq(Requests) /\ requests # <<>> /\ calls' = calls
      /\ Head(requests) = requests[1] /\ 1 \in DOMAIN requests
  BY ServeReplies, ServeKeeps, EmptySeq DEF Types, ClientTypes
<1>2. Head(requests) \in Requests
  BY <1>1
<1>3. /\ Head(requests).number \in Numbers /\ Head(requests).number <= calls
      /\ IsOperation(Head(requests)) => Head(requests).number > op
  BY <1>1, <1>2 DEF Types, OrderInv, Requests
<1>4. CASE Accepts
  BY <1>1, <1>3, <1>4, ConstantTypes
     DEF Accepts, Serves, Slot!Accept, IsOperation, Types, ServerTypes,
         ClientTypes
<1>5. CASE Rejects \/ ServesState \/ ServesSet
  <2>1. UNCHANGED <<slotVars, done>>
    BY <1>5 DEF Rejects, ServesState, ServesSet
  <2>. QED
    BY <1>1, <2>1, ConstantTypes DEF slotVars, Types, ServerTypes, ClientTypes
<1>6. CASE ServesShort
  <2>1. done' \subseteq Numbers
    BY <1>3, <1>6 DEF ServesShort, Types, ServerTypes
  <2>2. UNCHANGED slotVars
    BY <1>6 DEF ServesShort
  <2>. QED
    BY <1>1, <2>1, <2>2 DEF slotVars, Types, ServerTypes, ClientTypes
<1>7. CASE ServesStop
  <2>1. /\ op' = op /\ failed' = failed /\ done' = done
        /\ interrupted' = TRUE /\ busy' = FALSE /\ reported' = None
    BY <1>7, Zenon DEF ServesStop
  <2>2. op \in Int /\ ServerTypes
    BY ConstantTypes DEF Types, ServerTypes, ClientTypes
  <2>3. ServerTypes'
    BY <1>1, <2>1, <2>2, Zenon DEF ServerTypes
  <2>4. op <= op' /\ interrupted'
    BY <2>1, <2>2
  <2>. QED
    BY <2>1, <2>3, <2>4, Zenon
<1>. QED
  BY <1>4, <1>5, <1>6, <1>7 DEF Serve

-----------------------------------------------------------------------------
(* Every step keeps the types and the order of the requests. *)

LEMMA RequestNumbers ==
  ASSUME NEW q \in Seq(Requests)
  PROVE  \A i \in 1 .. Len(q) : q[i] \in Requests /\ q[i].number \in Int
PROOF
<1>. SUFFICES ASSUME NEW i \in 1 .. Len(q)
              PROVE  q[i] \in Requests /\ q[i].number \in Int
  OBVIOUS
<1>1. q[i] \in Requests
  OBVIOUS
<1>2. q[i].number \in 1 .. MaxCalls
  BY <1>1, ConstantTypes DEF Requests
<1>. QED
  BY <1>1, <1>2

LEMMA OrderTail ==
  ASSUME Types, Serve
  PROVE  OrderInv'
PROOF
<1>1. /\ requests \in Seq(Requests) /\ requests # <<>> /\ calls' = calls
      /\ requests' = Tail(requests) /\ calls \in Int
  BY ServeReplies, ServeKeeps, ConstantTypes DEF Types, ClientTypes
<1>2. /\ Len(requests) \in Nat \ {0} /\ Head(requests) = requests[1]
      /\ DOMAIN requests = 1 .. Len(requests)
      /\ DOMAIN requests' = 1 .. Len(requests) - 1
      /\ \A i \in 1 .. Len(requests) - 1 : requests'[i] = requests[i + 1]
  BY <1>1, EmptySeq
<1>3. \A i \in 1 .. Len(requests) : requests[i].number \in Int
  BY <1>1, RequestNumbers
<1>4. op' = op \/ (IsOperation(requests[1]) /\ op' = requests[1].number)
  BY <1>2, ServeSlot
<1>5. ASSUME NEW i \in DOMAIN requests'
      PROVE  /\ requests'[i].number <= calls'
             /\ IsOperation(requests'[i]) => requests'[i].number > op'
  <2>1. /\ i + 1 \in DOMAIN requests /\ 1 \in DOMAIN requests /\ 1 < i + 1
        /\ requests'[i] = requests[i + 1]
    BY <1>2
  <2>2. requests[i + 1].number <= calls
    BY <2>1 DEF Types, OrderInv
  <2>3. ASSUME IsOperation(requests[i + 1])
        PROVE  requests[i + 1].number > op'
    <3>1. /\ requests[i + 1].number > op
          /\ requests[1].number < requests[i + 1].number
      BY <2>1, <2>3 DEF Types, OrderInv
    <3>. QED
      BY <1>2, <1>3, <1>4, <2>1, <3>1
  <2>. QED
    BY <1>1, <2>1, <2>2, <2>3
<1>6. ASSUME NEW i \in DOMAIN requests', NEW j \in DOMAIN requests',
             i < j, IsOperation(requests'[j])
      PROVE  requests'[i].number < requests'[j].number
  <2>1. /\ i + 1 \in DOMAIN requests /\ j + 1 \in DOMAIN requests
        /\ i + 1 < j + 1
        /\ requests'[i] = requests[i + 1] /\ requests'[j] = requests[j + 1]
    BY <1>2, <1>6
  <2>. QED
    BY <1>6, <2>1 DEF Types, OrderInv
<1>. QED
  BY <1>5, <1>6 DEF OrderInv, IsOperation

LEMMA OrderAppend ==
  ASSUME Types, NEW r \in Requests, requests' = Append(requests, r), op' = op,
         calls' \in Int, calls <= calls', r.number <= calls',
         IsOperation(r) => r.number > calls
  PROVE  OrderInv'
PROOF
<1>1. /\ requests \in Seq(Requests)
      /\ calls \in Int /\ op \in Int /\ op <= calls
      /\ r.number \in Int
  BY ConstantTypes DEF Types, ClientTypes, ServerTypes, Requests
<1>. DEFINE n == Len(requests)
<1>2. /\ n \in Nat /\ DOMAIN requests = 1 .. n
      /\ DOMAIN requests' = 1 .. n + 1 /\ requests'[n + 1] = r
      /\ \A i \in 1 .. n : requests'[i] = requests[i]
  BY <1>1
<1>3. \A i \in 1 .. n : requests[i].number \in Int
  BY <1>1, RequestNumbers
<1>. HIDE DEF n
<1>4. ASSUME NEW i \in DOMAIN requests'
      PROVE  /\ requests'[i].number <= calls'
             /\ IsOperation(requests'[i]) => requests'[i].number > op'
  <2>1. CASE i = n + 1
    BY <1>1, <1>2, <2>1
  <2>2. CASE i \in 1 .. n
    <3>1. /\ requests[i].number <= calls
          /\ IsOperation(requests[i]) => requests[i].number > op
      BY <1>2, <2>2 DEF Types, OrderInv
    <3>. QED
      BY <1>1, <1>2, <1>3, <2>2, <3>1
  <2>. QED
    BY <1>2, <2>1, <2>2
<1>5. ASSUME NEW i \in DOMAIN requests', NEW j \in DOMAIN requests',
             i < j, IsOperation(requests'[j])
      PROVE  requests'[i].number < requests'[j].number
  <2>1. i \in 1 .. n
    BY <1>2, <1>5
  <2>2. requests[i].number <= calls
    BY <1>2, <2>1 DEF Types, OrderInv
  <2>3. CASE j = n + 1
    BY <1>1, <1>2, <1>3, <1>5, <2>1, <2>2, <2>3
  <2>4. CASE j \in 1 .. n
    BY <1>2, <1>5, <2>1, <2>4 DEF Types, OrderInv
  <2>. QED
    BY <1>2, <2>3, <2>4
<1>. QED
  BY <1>4, <1>5 DEF OrderInv, IsOperation

LEMMA OrderSame ==
  ASSUME OrderInv, UNCHANGED <<requests, calls, op>>
  PROVE  OrderInv'
BY DEF OrderInv, IsOperation

\* What a step that sends, or receives, does to the types.
LEMMA SendTypes ==
  ASSUME NEW q \in Seq(Requests), NEW n \in Numbers, NEW k \in Kinds
  PROVE  /\ [number |-> n, what |-> k] \in Requests
         /\ Append(q, [number |-> n, what |-> k]) \in Seq(Requests)
<1>1. [number |-> n, what |-> k] \in Requests
  BY DEF Requests
<1>. QED
  BY <1>1

LEMMA ReceiveTypes ==
  ASSUME ClientTypes, replies # <<>>
  PROVE  /\ Tail(replies) \in Seq(Replies) /\ Head(replies) \in Replies
         /\ Head(replies) = replies[1] /\ Len(replies) \in Nat \ {0}
         /\ Len(Tail(replies)) = Len(replies) - 1
         /\ Head(replies).success \in BOOLEAN
         /\ Head(replies).result \in 0 .. MaxCalls
         /\ Head(replies).state \in NoState .. MaxCalls
<1>1. replies \in Seq(Replies)
  BY DEF ClientTypes
<1>2. Head(replies) \in Replies
  BY <1>1, EmptySeq
<1>. QED
  BY <1>1, <1>2, EmptySeq DEF Replies

LEMMA TypesServe ==
  ASSUME Types, Serve
  PROVE  Types'
PROOF
<1>1. UNCHANGED <<client, calls, call, returned, pc, late, cached, stream,
                  raw, streaming>>
  BY ServeKeeps
<1>2. requests' \in Seq(Requests) /\ replies' \in Seq(Replies)
  <2>1. requests \in Seq(Requests) /\ replies \in Seq(Replies)
    BY DEF Types, ClientTypes
  <2>2. /\ requests # <<>> /\ requests' = Tail(requests)
        /\ \/ replies' = replies
           \/ \E r \in Replies : replies' = Append(replies, r)
    BY ServeReplies DEF Types
  <2>3. requests' \in Seq(Requests)
    BY <2>1, <2>2
  <2>4. replies' \in Seq(Replies)
    BY <2>1, <2>2
  <2>. QED
    BY <2>3, <2>4
<1>3. ClientTypes'
  BY <1>1, <1>2 DEF Types, ClientTypes
<1>4. ServerTypes' /\ op <= op'
  BY ServeSlot
<1>5. StreamTypes'
  <2>1. op \in Int /\ op' \in Int
    BY <1>3, <1>4, ConstantTypes DEF Types, ServerTypes, ClientTypes
  <2>2. cached' \in NoState .. op'
    BY <1>1, <1>4, <2>1, ConstantTypes DEF Types, StreamTypes
  <2>. QED
    BY <1>1, <2>2 DEF Types, StreamTypes
<1>. QED
  BY <1>3, <1>4, <1>5, OrderTail DEF Types

\* The other steps of the server.
LEMMA TypesServer ==
  ASSUME Types, Reports \/ GoesIdle \/ Polls
  PROVE  /\ Types'
         /\ UNCHANGED <<client, calls, call, returned, pc, late, requests,
                        replies, op, interrupted>>
         /\ reported = op => reported' = reported /\ failed' = failed
PROOF
<1>1. UNCHANGED <<client, calls, call, returned, pc, late, requests, replies,
                  op, interrupted, done, raw, streaming>>
  BY Zenon DEF Reports, GoesIdle, Polls, Slot!Finish, callVars, queueVars,
         slotVars, streamVars
<1>2. ClientTypes' /\ OrderInv'
  BY <1>1, OrderSame DEF Types, ClientTypes
<1>3. op \in Nat /\ calls \in Int /\ op <= MaxCalls /\ op \in 0 .. calls
  BY ConstantTypes DEF Types, ClientTypes, ServerTypes
<1>4. /\ ServerTypes'
      /\ reported = op => reported' = reported /\ failed' = failed
  <2>1. CASE Polls
    <3>1. UNCHANGED slotVars
      BY <2>1 DEF Polls
    <3>. QED
      BY <1>1, <3>1 DEF slotVars, Types, ServerTypes
  <2>2. CASE GoesIdle
    <3>1. /\ reported' = op /\ reported = op /\ busy' \in BOOLEAN
          /\ failed' = failed
      BY <2>2 DEF GoesIdle, Slot!Finish
    <3>. QED
      BY <1>1, <3>1 DEF Types, ServerTypes
  <2>3. CASE Reports
    <3>1. /\ reported # op /\ reported' = op /\ busy' \in BOOLEAN
          /\ failed' \subseteq failed \union {op}
      BY <2>3 DEF Reports, Slot!Finish
    <3>2. op \in 1 .. op
      BY <1>3, <3>1, ConstantTypes DEF Types, ServerTypes
    <3>3. failed' \subseteq 1 .. op
      BY <3>1, <3>2 DEF Types, ServerTypes
    <3>. QED
      BY <1>1, <3>1, <3>3 DEF Types, ServerTypes
  <2>. QED
    BY <2>1, <2>2, <2>3
<1>5. StreamTypes'
  <2>1. cached' \in NoState .. op
    <3>1. CASE Reports \/ GoesIdle
      <4>1. cached' = cached \/ cached' = 0
        BY <3>1 DEF Reports, GoesIdle
      <4>. QED
        BY <1>3, <4>1, ConstantTypes DEF Types, StreamTypes
    <3>2. CASE Polls
      BY <1>3, <3>2, ConstantTypes DEF Polls, State
    <3>. QED
      BY <3>1, <3>2
  <2>2. stream' \in Seq(0 .. MaxCalls) /\ Len(stream') <= StreamCap
    <3>1. CASE Reports \/ GoesIdle
      BY <3>1 DEF Reports, GoesIdle, streamVars, Types, StreamTypes
    <3>2. CASE Polls
      <4>1. cached' \in 0 .. MaxCalls
        <5>1. cached' = op \/ (op # 0 /\ cached' = op - 1)
          <6>1. reported \in {0, op}
            BY ConstantTypes DEF Types, ServerTypes
          <6>. QED
            BY <3>2, <6>1 DEF Polls, State
        <5>. QED
          BY <1>3, <5>1, ConstantTypes
      <4>2. /\ stream \in Seq(0 .. MaxCalls) /\ Len(stream) <= StreamCap
            /\ StreamCap \in Nat
        BY ConstantTypes DEF Types, StreamTypes
      <4>3. \/ stream' = stream
            \/ Len(stream) < StreamCap /\ stream' = Append(stream, cached')
        BY <3>2, Zenon DEF Polls
      <4>4. /\ Append(stream, cached') \in Seq(0 .. MaxCalls)
            /\ Len(Append(stream, cached')) = Len(stream) + 1
            /\ Len(stream) \in Nat
        BY <4>1, <4>2
      <4>5. Len(stream) < StreamCap => Len(stream) + 1 <= StreamCap
        BY <4>2, <4>4
      <4>. QED
        BY <4>2, <4>3, <4>4, <4>5, Zenon
    <3>. QED
      BY <3>1, <3>2
  <2>. QED
    BY <1>1, <2>1, <2>2 DEF Types, StreamTypes
<1>. QED
  BY <1>1, <1>2, <1>4, <1>5 DEF Types

\* A step of the client leaves the server alone.
Sending == Asks \/ Refreshes \/ \E k \in CallsOf(client) : Calls(k)
Receiving == ReceivesAnswer \/ ReceivesStatus \/ ReceivesState

LEMMA ClientKeeps ==
  ASSUME Sending \/ Receiving \/ GivesUp \/ TimesOut
  PROVE  /\ UNCHANGED <<client, op, busy, reported, interrupted, failed, done,
                        cached, stream, raw>>
         /\ Sending => replies' = replies /\ late' = late
         /\ Receiving => UNCHANGED <<calls, call, requests, late>>
         /\ GivesUp \/ TimesOut =>
              UNCHANGED <<calls, call, requests, replies, streaming>>
PROOF
<1>1. CASE Sending
  BY <1>1, Zenon DEF Sending, Asks, Refreshes, Calls, Unchanged, slotVars,
                     streamVars, Receiving, GivesUp, TimesOut, ReceivesAnswer,
                     ReceivesStatus, ReceivesState, Receives, queueVars
<1>2. CASE Receiving
  BY <1>2, Zenon DEF Sending, Asks, Refreshes, Calls, Unchanged, slotVars,
                     streamVars, Receiving, GivesUp, TimesOut, ReceivesAnswer,
                     ReceivesStatus, ReceivesState, Receives, queueVars
<1>3. CASE GivesUp \/ TimesOut
  BY <1>3, Zenon DEF Sending, Asks, Refreshes, Calls, Unchanged, slotVars,
                     streamVars, Receiving, GivesUp, TimesOut, ReceivesAnswer,
                     ReceivesStatus, ReceivesState, Receives, queueVars
<1>. QED
  BY <1>1, <1>2, <1>3

\* The request sent, and the place where the client waits for its answer.
LEMMA SendingIs ==
  ASSUME Types, Sending
  PROVE  \E r \in Requests :
           /\ requests' = Append(requests, r) /\ r.number = calls'
           /\ r.what = "set" <=> pc' = "idle"
           /\ pc \notin {"reply", "asked", "refreshing"}
           /\ streaming' = streaming
           /\ \/ /\ call' \in CallsOf(client) /\ r.what = call'
                 /\ calls' = calls + 1 /\ calls' \in Numbers /\ pc = "idle"
                 /\ returned' = (call' = "set")
                 /\ pc' = IF call' = "set" THEN "idle" ELSE "reply"
              \/ /\ r.what = "get_state" /\ UNCHANGED <<calls, call, returned>>
                 /\ \/ pc = "wait" /\ pc' = "asked"
                    \/ pc = "refresh" /\ pc' = "refreshing"
PROOF
<1>1. /\ client \in Clients /\ calls \in Nat /\ calls <= MaxCalls
      /\ pc \notin {"idle", "reply"} => calls \in Numbers
  BY ConstantTypes DEF Types, ClientTypes
<1>2. ASSUME NEW k \in CallsOf(client), Calls(k)
      PROVE  /\ calls + 1 \in Numbers /\ k \in Kinds
             /\ requests' = Append(requests, [number |-> calls + 1, what |-> k])
             /\ calls' = calls + 1 /\ call' = k /\ pc = "idle"
             /\ returned' = (k = "set") /\ streaming' = streaming
             /\ pc' = IF k = "set" THEN "idle" ELSE "reply"
  <2>1. /\ calls < MaxCalls
        /\ requests' = Append(requests, [number |-> calls + 1, what |-> k])
        /\ calls' = calls + 1 /\ call' = k /\ pc = "idle"
        /\ returned' = (k = "set") /\ streaming' = streaming
        /\ pc' = IF k = "set" THEN "idle" ELSE "reply"
    BY <1>2, Zenon DEF Calls, Sends
  <2>2. calls + 1 \in Numbers
    BY <1>1, <2>1, ConstantTypes
  <2>3. k \in Kinds
    BY <1>1, CallTypes
  <2>. QED
    BY <2>1, <2>2, <2>3, Zenon
<1>3. ASSUME NEW k \in CallsOf(client), Calls(k)
      PROVE  [number |-> calls + 1, what |-> k] \in Requests
  BY <1>2, <1>3 DEF Requests
<1>4. CASE \E k \in CallsOf(client) : Calls(k)
  <2>1. PICK k \in CallsOf(client) : Calls(k)
    BY <1>4
  <2>. QED
    BY <1>2, <1>3, <2>1
<1>5. CASE Asks \/ Refreshes
  <2>1. /\ requests' =
             Append(requests, [number |-> calls, what |-> "get_state"])
        /\ UNCHANGED <<calls, call, returned, streaming>>
        /\ \/ pc = "wait" /\ pc' = "asked"
           \/ pc = "refresh" /\ pc' = "refreshing"
    BY <1>5 DEF Asks, Refreshes, Sends
  <2>2. [number |-> calls, what |-> "get_state"] \in Requests
    BY <1>1, <2>1 DEF Requests, Kinds
  <2>. QED
    BY <2>1, <2>2
<1>. QED
  BY <1>4, <1>5 DEF Sending

LEMMA TypesSending ==
  ASSUME Types, Sending
  PROVE  Types'
PROOF
<1>1. PICK r \in Requests :
        /\ requests' = Append(requests, r) /\ r.number = calls'
        /\ r.what = "set" <=> pc' = "idle"
        /\ pc \notin {"reply", "asked", "refreshing"} /\ streaming' = streaming
        /\ \/ /\ call' \in CallsOf(client) /\ r.what = call'
              /\ calls' = calls + 1 /\ calls' \in Numbers /\ pc = "idle"
              /\ returned' = (call' = "set")
              /\ pc' = IF call' = "set" THEN "idle" ELSE "reply"
           \/ /\ r.what = "get_state" /\ UNCHANGED <<calls, call, returned>>
              /\ \/ pc = "wait" /\ pc' = "asked"
                 \/ pc = "refresh" /\ pc' = "refreshing"
  BY SendingIs
<1>2. /\ UNCHANGED <<client, op, busy, reported, interrupted, failed, done,
                     cached, stream, raw, replies, late>>
  BY ClientKeeps
<1>3. /\ requests \in Seq(Requests) /\ calls \in 0 .. MaxCalls
      /\ client \in Clients
  BY DEF Types, ClientTypes
<1>4. requests' \in Seq(Requests)
  BY <1>1, <1>3
<1>5. /\ calls' \in 0 .. MaxCalls /\ calls <= calls'
      /\ IsOperation(r) => r.number > calls
      /\ calls' \in Int /\ r.number <= calls'
  <2>1. calls \in Int /\ MaxCalls \in Nat
    BY <1>3, ConstantTypes
  <2>. QED
    BY <1>1, <1>3, <2>1, ConstantTypes DEF IsOperation
<1>6. OrderInv'
  BY <1>1, <1>2, <1>5, OrderAppend
<1>7. ClientTypes'
  <2>1. CASE /\ call' \in CallsOf(client) /\ r.what = call'
             /\ calls' = calls + 1 /\ calls' \in Numbers /\ pc = "idle"
             /\ returned' = (call' = "set")
             /\ pc' = IF call' = "set" THEN "idle" ELSE "reply"
    <3>1. call' # "none"
      BY <1>3, <2>1, CallTypes
    <3>2. calls' > 0 /\ (pc' = "idle" \/ (pc' = "reply" /\ call' # "set"))
      BY <2>1, ConstantTypes
    <3>3. returned' \in BOOLEAN
      BY <2>1
    <3>. QED
      BY <1>2, <1>4, <1>5, <2>1, <3>1, <3>2, <3>3 DEF Types, ClientTypes
  <2>2. CASE /\ r.what = "get_state" /\ UNCHANGED <<calls, call, returned>>
             /\ \/ pc = "wait" /\ pc' = "asked"
                \/ pc = "refresh" /\ pc' = "refreshing"
    BY <1>2, <1>4, <2>2 DEF Types, ClientTypes
  <2>. QED
    BY <1>1, <2>1, <2>2
<1>8. ServerTypes'
  <2>1. op \in 0 .. calls'
    BY <1>3, <1>5, ConstantTypes DEF Types, ServerTypes
  <2>. QED
    BY <1>2, <2>1 DEF Types, ServerTypes
<1>9. StreamTypes'
  BY <1>1, <1>2 DEF Types, StreamTypes
<1>. QED
  BY <1>6, <1>7, <1>8, <1>9 DEF Types

LEMMA TypesReceiving ==
  ASSUME Types, Receiving \/ GivesUp \/ TimesOut
  PROVE  Types'
PROOF
<1>1. UNCHANGED <<client, op, busy, reported, interrupted, failed, done,
                  cached, stream, raw, calls, call, requests>>
  BY ClientKeeps
<1>2. OrderInv' /\ ServerTypes'
  BY <1>1, OrderSame DEF Types, ServerTypes
<1>3. replies' \in Seq(Replies) /\ late' \in 0 .. MaxLate
  <2>1. CASE Receiving
    <3>1. replies # <<>> /\ replies' = Tail(replies) /\ late' = late
      BY <2>1 DEF Receiving, ReceivesAnswer, ReceivesStatus, ReceivesState,
                  Receives
    <3>. QED
      BY <3>1, ReceiveTypes DEF Types, ClientTypes
  <2>2. CASE GivesUp
    BY <2>2, ClientKeeps DEF GivesUp, Types, ClientTypes
  <2>3. CASE TimesOut
    <3>1. late \in 0 .. MaxLate /\ late < MaxLate /\ late' = late + 1
      BY <2>3 DEF TimesOut, Types, ClientTypes
    <3>2. replies' = replies
      BY <2>3, ClientKeeps
    <3>. QED
      BY <3>1, <3>2, ConstantTypes DEF Types, ClientTypes
  <2>. QED
    BY <2>1, <2>2, <2>3
<1>4. /\ returned' \in BOOLEAN
      /\ pc' = "idle" \/ (pc' \in {"wait", "refresh"} /\ call = "operation")
  <2>1. CASE Receiving
    <3>1. replies # <<>>
      BY <2>1 DEF Receiving, ReceivesAnswer, ReceivesStatus, ReceivesState,
                  Receives
    <3>2. Head(replies).success \in BOOLEAN
      BY <3>1, ReceiveTypes DEF Types
    <3>. DEFINE s == Succeeded(Head(replies))
    <3>3. s \in BOOLEAN /\ returned \in BOOLEAN
      BY <3>2 DEF Succeeded, Types, ClientTypes
    <3>. HIDE DEF s
    <3>4. CASE ReceivesAnswer
      BY <3>2, <3>3, <3>4 DEF ReceivesAnswer, Returns
    <3>5. CASE ReceivesStatus
      <4>1. call = "operation"
        BY <3>5 DEF ReceivesStatus, Receives, Types, ClientTypes
      <4>2. \/ pc' \in {"wait", "refresh"} /\ returned' = returned
            \/ pc' = "idle" /\ returned' = s
        BY <3>5 DEF ReceivesStatus, Returns, s
      <4>. QED
        BY <3>3, <4>1, <4>2, Zenon
    <3>6. CASE ReceivesState
      BY <3>6 DEF ReceivesState, Returns
    <3>. QED
      BY <2>1, <3>4, <3>5, <3>6 DEF Receiving
  <2>2. CASE GivesUp \/ TimesOut
    BY <2>2 DEF GivesUp, TimesOut, Returns
  <2>. QED
    BY <2>1, <2>2
<1>5. ClientTypes'
  BY <1>1, <1>3, <1>4 DEF Types, ClientTypes
<1>6. streaming' \in NoState .. MaxCalls
  <2>1. CASE ReceivesState
    <3>1. replies # <<>>
      BY <2>1 DEF ReceivesState, Receives
    <3>2. Head(replies).state \in NoState .. MaxCalls
      BY <3>1, ReceiveTypes DEF Types
    <3>. QED
      BY <2>1, <3>2 DEF ReceivesState, Types, StreamTypes
  <2>2. CASE ReceivesAnswer \/ ReceivesStatus
    BY <2>2 DEF ReceivesAnswer, ReceivesStatus, Types, StreamTypes
  <2>3. CASE GivesUp \/ TimesOut
    BY <2>3, ClientKeeps DEF Types, StreamTypes
  <2>. QED
    BY <2>1, <2>2, <2>3 DEF Receiving
<1>7. StreamTypes'
  BY <1>1, <1>6 DEF Types, StreamTypes
<1>. QED
  BY <1>2, <1>5, <1>7 DEF Types

\* The receiver thread touches the stream and the client's state only.
LEMMA TypesStream ==
  ASSUME Types, StreamReceives \/ StreamStores
  PROVE  /\ Types'
         /\ UNCHANGED <<client, calls, call, returned, pc, late, requests,
                        replies, op, busy, reported, interrupted, failed>>
PROOF
<1>1. UNCHANGED <<client, calls, call, returned, pc, late, requests, replies,
                  op, busy, reported, interrupted, failed, done, cached>>
  BY Zenon DEF StreamReceives, StreamStores, callVars, queueVars, slotVars
<1>2. ClientTypes' /\ ServerTypes' /\ OrderInv'
  BY <1>1, OrderSame DEF Types, ClientTypes, ServerTypes
<1>3. StreamTypes'
  <2>1. CASE StreamReceives
    <3>1. /\ stream # <<>> /\ raw' = stream[Len(stream)] /\ stream' = <<>>
          /\ UNCHANGED streaming
      BY <2>1, Zenon DEF StreamReceives
    <3>2. stream[Len(stream)] \in 0 .. MaxCalls
      <4>1. stream \in Seq(0 .. MaxCalls)
        BY DEF Types, StreamTypes
      <4>2. Len(stream) \in 1 .. Len(stream)
        BY <3>1, <4>1, EmptySeq
      <4>. QED
        BY <4>1, <4>2, ElementOfSeq
    <3>3. raw' \in NoState .. MaxCalls
      BY <3>1, <3>2, ConstantTypes
    <3>4. stream' \in Seq(0 .. MaxCalls) /\ Len(stream') <= StreamCap
      BY <3>1, ConstantTypes
    <3>. QED
      BY <1>1, <3>1, <3>3, <3>4 DEF Types, StreamTypes
  <2>2. CASE StreamStores
    <3>1. streaming' = raw /\ raw' = NoState /\ UNCHANGED stream
      BY <2>2 DEF StreamStores
    <3>2. NoState \in NoState .. MaxCalls
      BY ConstantTypes
    <3>. QED
      BY <1>1, <3>1, <3>2 DEF Types, StreamTypes
  <2>. QED
    BY <2>1, <2>2
<1>. QED
  BY <1>1, <1>2, <1>3 DEF Types

LEMMA NextCases ==
  ASSUME [Next]_vars
  PROVE  \/ Serve \/ (Reports \/ GoesIdle \/ Polls) \/ Sending
         \/ Receiving \/ GivesUp \/ TimesOut \/ (StreamReceives \/ StreamStores)
         \/ UNCHANGED vars
BY Zenon DEF Next, Server, Waits, Sending, Receiving

LEMMA SameTypes ==
  ASSUME Types, UNCHANGED vars
  PROVE  Types'
PROOF
<1>1. /\ UNCHANGED <<client, calls, call, returned, pc, late, requests, replies,
                     op, busy, reported, interrupted, failed, done, cached,
                     stream, raw, streaming>>
  BY DEF vars, callVars, queueVars, slotVars, streamVars
<1>. QED
  BY <1>1, OrderSame DEF Types, ClientTypes, ServerTypes, StreamTypes

LEMMA TypesStep ==
  ASSUME Types, [Next]_vars
  PROVE  Types'
BY NextCases, TypesServe, TypesServer, TypesSending, TypesReceiving,
   TypesStream, SameTypes

-----------------------------------------------------------------------------
(* Every step keeps the count of the answers. *)

LEMMA CountIs ==
  /\ Owed = OwedOf(requests) /\ Owed' = OwedOf(requests')
  /\ LateRepliesStay <=>
       Cardinality(OwedOf(requests)) + Len(replies)
         = late + (IF Waiting THEN 1 ELSE 0)
  /\ LateRepliesStay' <=>
       Cardinality(OwedOf(requests')) + Len(replies')
         = late' + (IF Waiting' THEN 1 ELSE 0)
BY DEF Owed, OwedOf, LateRepliesStay

LEMMA CountTypes ==
  ASSUME ClientTypes
  PROVE  /\ Cardinality(OwedOf(requests)) \in Nat /\ Len(replies) \in Nat
         /\ late \in Nat
         /\ requests \in Seq(Requests) /\ replies \in Seq(Replies)
BY OwedFinite, ConstantTypes DEF ClientTypes

LEMMA CountStep ==
  ASSUME Types, LateRepliesStay, [Next]_vars
  PROVE  LateRepliesStay'
PROOF
<1>1. /\ Cardinality(OwedOf(requests)) \in Nat /\ Len(replies) \in Nat
      /\ late \in Nat
      /\ requests \in Seq(Requests) /\ replies \in Seq(Replies)
      /\ Cardinality(OwedOf(requests)) + Len(replies)
           = late + (IF Waiting THEN 1 ELSE 0)
  BY CountTypes, CountIs DEF Types
<1>2. CASE Serve
  <2>1. late' = late /\ Waiting' = Waiting
    BY <1>2, ServeKeeps DEF Waiting
  <2>2. requests # <<>> /\ requests' = Tail(requests)
    BY <1>2, ServeReplies DEF Types
  <2>3. Cardinality(OwedOf(requests)) =
          Cardinality(OwedOf(requests'))
            + (IF Head(requests).what = "set" THEN 0 ELSE 1)
    BY <1>1, <2>2, OwedTail
  <2>4. Len(replies') =
          Len(replies) + (IF Head(requests).what = "set" THEN 0 ELSE 1)
    <3>1. CASE Head(requests).what = "set" /\ replies' = replies
      BY <1>1, <3>1
    <3>2. CASE \E r \in Replies :
                 replies' = Append(replies, r) /\ ReplyToHead(r)
      <4>1. PICK r \in Replies :
              replies' = Append(replies, r) /\ ReplyToHead(r)
        BY <3>2
      <4>2. Head(requests).what # "set"
        BY <4>1 DEF ReplyToHead
      <4>. QED
        BY <1>1, <4>1, <4>2
    <3>. QED
      BY <1>2, <3>1, <3>2, ServeReplies DEF Types
  <2>5. Cardinality(OwedOf(requests')) \in Nat
    BY <1>2, TypesServe, OwedFinite DEF Types, ClientTypes
  <2>. QED
    BY <1>1, <2>1, <2>3, <2>4, <2>5, CountIs
<1>3. CASE Sending
  <2>1. PICK r \in Requests :
          /\ requests' = Append(requests, r)
          /\ r.what = "set" <=> pc' = "idle"
          /\ pc \notin {"reply", "asked", "refreshing"}
          /\ pc' \in {"idle", "reply", "asked", "refreshing"}
    BY <1>3, SendingIs
  <2>2. late' = late /\ replies' = replies
    BY <1>3, ClientKeeps
  <2>3. Cardinality(OwedOf(requests')) =
          Cardinality(OwedOf(requests)) + (IF r.what = "set" THEN 0 ELSE 1)
    BY <1>1, <2>1, OwedAppend
  <2>4. ~ Waiting /\ (Waiting' <=> r.what # "set")
    BY <2>1 DEF Waiting
  <2>. QED
    BY <1>1, <2>2, <2>3, <2>4, CountIs
<1>4. CASE Receiving
  <2>1. /\ replies # <<>> /\ replies' = Tail(replies) /\ Waiting /\ ~ Waiting'
    <3>1. CASE ReceivesAnswer
      BY <3>1, Zenon DEF ReceivesAnswer, Receives, Returns, Waiting
    <3>2. CASE ReceivesStatus
      BY <3>2, Zenon DEF ReceivesStatus, Receives, Returns, Waiting
    <3>3. CASE ReceivesState
      BY <3>3, Zenon DEF ReceivesState, Receives, Returns, Waiting
    <3>. QED
      BY <1>4, <3>1, <3>2, <3>3 DEF Receiving
  <2>2. requests' = requests /\ late' = late
    BY <1>4, ClientKeeps
  <2>3. Len(replies') = Len(replies) - 1
    BY <2>1, ReceiveTypes DEF Types
  <2>. QED
    BY <1>1, <2>1, <2>2, <2>3, CountIs
<1>5. CASE GivesUp \/ TimesOut
  <2>1. requests' = requests /\ replies' = replies
    BY <1>5, ClientKeeps
  <2>2. \/ late' = late /\ ~ Waiting /\ ~ Waiting'
        \/ late' = late + 1 /\ Waiting /\ ~ Waiting'
    BY <1>5 DEF GivesUp, TimesOut, Returns, Waiting
  <2>. QED
    BY <1>1, <2>1, <2>2, CountIs
<1>6. CASE Reports \/ GoesIdle \/ Polls \/ StreamReceives \/ StreamStores
  <2>1. UNCHANGED <<requests, replies, late, pc>>
    BY <1>6, TypesServer, TypesStream
  <2>. QED
    BY <1>1, <2>1, CountIs DEF Waiting
<1>7. CASE UNCHANGED vars
  <2>1. UNCHANGED <<requests, replies, late, pc>>
    BY <1>7 DEF vars, callVars, queueVars
  <2>. QED
    BY <1>1, <2>1, CountIs DEF Waiting
<1>. QED
  BY <1>2, <1>3, <1>4, <1>5, <1>6, <1>7, NextCases

-----------------------------------------------------------------------------
(* The server does not take back what it says, and answers in order. *)

Stays ==
  /\ calls' = calls
  /\ op = calls => op' = calls
  /\ interrupted => interrupted'
  /\ op = calls /\ reported = calls => reported' = calls \/ interrupted'

LEMMA SlotStays ==
  ASSUME Types, Serve \/ (Reports \/ GoesIdle \/ Polls)
  PROVE  Stays /\ (Done => Done')
PROOF
<1>1. CASE Serve
  <2>1. /\ requests \in Seq(Requests) /\ requests # <<>> /\ calls' = calls
        /\ Head(requests) = requests[1] /\ 1 \in DOMAIN requests
    BY <1>1, ServeReplies, ServeKeeps, EmptySeq DEF Types, ClientTypes
  <2>2. /\ Head(requests).number \in Int /\ calls \in Int
        /\ Head(requests).number <= calls
        /\ IsOperation(Head(requests)) => Head(requests).number > op
    BY <2>1, RequestNumbers, ConstantTypes DEF Types, OrderInv, ClientTypes
  <2>3. op = calls => op' = op
    BY <1>1, <2>2, ServeSlot
  <2>. QED
    BY <1>1, <2>1, <2>3, ServeSlot DEF Stays, Done
<1>2. CASE Reports \/ GoesIdle \/ Polls
  BY <1>2, TypesServer DEF Stays, Done
<1>. QED
  BY <1>1, <1>2

LEMMA SaysStays ==
  ASSUME Stays, NEW what, NEW r, Says(what, r)
  PROVE  Says(what, r)'
BY DEF Stays, Says

LEMMA OwnStays ==
  ASSUME Stays, NEW what, NEW r, IsOwn(what, r)
  PROVE  IsOwn(what, r)'
BY DEF Stays, IsOwn

\* What the server answers to a request of the call.
LEMMA OwnReply ==
  ASSUME Types, Serve, NEW what \in {"operation", "get_state"}, NEW r,
         IsOwn(what, Head(requests)), ReplyToHead(r)
  PROVE  Says(what, r)'
PROOF
<1>1. Stays /\ ServerTypes
  BY SlotStays DEF Types
<1>2. CASE what = "operation"
  BY <1>1, <1>2 DEF Stays, IsOwn, IsOperation, ReplyToHead, Says
<1>3. CASE what = "get_state"
  <2>1. op = calls /\ op' = calls /\ calls' = calls
    BY <1>1, <1>3 DEF Stays, IsOwn
  <2>2. r.status = "idle" => ~ busy /\ r.result = reported
    BY <1>3 DEF IsOwn, ReplyToHead
  <2>3. ~ busy => reported = op \/ interrupted
    BY <1>1 DEF ServerTypes
  <2>4. r.status = "idle" =>
          interrupted' \/ (r.result = calls /\ reported' = calls)
    BY <1>1, <2>1, <2>2, <2>3 DEF Stays
  <2>. QED
    BY <1>3, <2>1, <2>4 DEF Says
<1>. QED
  BY <1>2, <1>3

\* With its queues as they are, the server only goes on.
LEMMA SameQueues ==
  ASSUME Stays, UNCHANGED <<requests, replies>>,
         NEW what \in {"operation", "get_state"}
  PROVE  /\ LastOut(what) => LastOut(what)'
         /\ BothOut(what) => BothOut(what)'
PROOF
<1>1. LastOut(what) => LastOut(what)'
  BY SaysStays, OwnStays DEF LastOut
<1>2. LastAsks => LastAsks'
  BY DEF LastAsks, Stays
<1>3. ASSUME Says("get_state", replies[2])
      PROVE  Says("get_state", replies[2])'
  BY <1>3, SaysStays DEF Says
<1>4. ASSUME NEW i, Says(what, replies[i])
      PROVE  Says(what, replies[i])'
  BY <1>4, SaysStays DEF Says
<1>5. ASSUME NEW i, IsOwn(what, requests[i])
      PROVE  IsOwn(what, requests[i])'
  BY <1>5, OwnStays DEF IsOwn
<1>6. BothOut(what) => BothOut(what)'
  BY <1>2, <1>3, <1>4, <1>5 DEF BothOut
<1>. QED
  BY <1>1, <1>6

LEMMA ServeQueues ==
  ASSUME Types, Serve
  PROVE  /\ requests \in Seq(Requests) /\ requests # <<>>
         /\ requests' \in Seq(Requests) /\ replies' \in Seq(Replies)
         /\ Len(requests) \in Nat \ {0} /\ Len(requests') = Len(requests) - 1
         /\ Head(requests) = requests[1]
         /\ \A i \in 1 .. Len(requests) - 1 : requests'[i] = requests[i + 1]
         /\ Len(replies) \in Nat /\ replies \in Seq(Replies)
         /\ Len(requests) = 1 => requests' = <<>>
         /\ Len(requests) # 1 => requests' # <<>>
         /\ Head(requests).what = "set" => replies' = replies
         /\ Head(requests).what # "set" =>
              \E r \in Replies :
                /\ ReplyToHead(r) /\ Len(replies') = Len(replies) + 1
                /\ replies'[Len(replies) + 1] = r
                /\ \A i \in 1 .. Len(replies) : replies'[i] = replies[i]
PROOF
<1>1. requests \in Seq(Requests) /\ replies \in Seq(Replies)
  BY DEF Types, ClientTypes
<1>2. requests # <<>> /\ requests' = Tail(requests)
  BY ServeReplies DEF Types
<1>3. requests' \in Seq(Requests) /\ replies' \in Seq(Replies)
  BY TypesServe DEF Types, ClientTypes
<1>4. Head(requests).what # "set" =>
        \E r \in Replies :
          /\ ReplyToHead(r) /\ Len(replies') = Len(replies) + 1
          /\ replies'[Len(replies) + 1] = r
          /\ \A i \in 1 .. Len(replies) : replies'[i] = replies[i]
  <2>1. ASSUME NEW r \in Replies, replies' = Append(replies, r), ReplyToHead(r)
        PROVE  /\ ReplyToHead(r) /\ Len(replies') = Len(replies) + 1
               /\ replies'[Len(replies) + 1] = r
               /\ \A i \in 1 .. Len(replies) : replies'[i] = replies[i]
    BY <1>1, <2>1
  <2>. QED
    BY <2>1, ServeReplies DEF Types
<1>5. Head(requests).what = "set" => replies' = replies
  BY ServeReplies DEF Types, ReplyToHead
<1>6. /\ Len(requests) \in Nat \ {0} /\ Len(requests') = Len(requests) - 1
      /\ Head(requests) = requests[1] /\ Len(replies) \in Nat
      /\ \A i \in 1 .. Len(requests) - 1 : requests'[i] = requests[i + 1]
  BY <1>1, <1>2, EmptySeq
<1>7. /\ Len(requests) = 1 => requests' = <<>>
      /\ Len(requests) # 1 => requests' # <<>>
  BY <1>3, <1>6, EmptySeq
<1>. QED
  BY <1>1, <1>2, <1>3, <1>4, <1>5, <1>6, <1>7

LEMMA ServeLast ==
  ASSUME Types, Serve, NEW what \in {"operation", "get_state"}, LastOut(what)
  PROVE  LastOut(what)'
PROOF
<1>. DEFINE n == Len(requests)
<1>1. /\ requests # <<>> /\ n \in Nat \ {0} /\ Len(requests') = n - 1
      /\ Head(requests) = requests[1] /\ Len(replies) \in Nat
      /\ n = 1 => requests' = <<>>
      /\ n # 1 => requests' # <<>>
      /\ \A i \in 1 .. n - 1 : requests'[i] = requests[i + 1]
  BY ServeQueues
<1>2. IsOwn(what, requests[n]) /\ requests[n].what # "set"
  BY <1>1 DEF LastOut, IsOwn
<1>3. Stays
  BY SlotStays
<1>. HIDE DEF n
<1>4. CASE n = 1
  <2>1. PICK r \in Replies :
          /\ ReplyToHead(r) /\ Len(replies') = Len(replies) + 1
          /\ replies'[Len(replies) + 1] = r
    BY <1>1, <1>2, <1>4, ServeQueues
  <2>2. Says(what, r)'
    BY <1>1, <1>2, <1>4, <2>1, OwnReply
  <2>3. Says(what, replies[Len(replies)])'
    BY <2>1, <2>2 DEF Says
  <2>4. requests' = <<>> /\ replies' # <<>>
    BY <1>1, <1>4, <2>1, ServeQueues, EmptySeq
  <2>. QED
    BY <2>3, <2>4 DEF LastOut, Says
<1>5. CASE n # 1
  <2>1. n - 1 \in 1 .. n - 1 /\ (n - 1) + 1 = n
    BY <1>1, <1>5
  <2>2. requests'[Len(requests')] = requests[n] /\ requests' # <<>>
    BY <1>1, <1>5, <2>1
  <2>. QED
    BY <1>2, <1>3, <2>2 DEF LastOut, IsOwn, Stays
<1>. QED
  BY <1>4, <1>5

LEMMA ServeBoth ==
  ASSUME Types, Serve, NEW what \in {"operation", "get_state"}, BothOut(what)
  PROVE  BothOut(what)'
PROOF
<1>. DEFINE n == Len(requests)
<1>1. /\ requests # <<>> /\ n \in Nat \ {0} /\ Len(requests') = n - 1
      /\ Head(requests) = requests[1] /\ Len(replies) \in Nat
      /\ n = 1 => requests' = <<>>
      /\ \A i \in 1 .. n - 1 : requests'[i] = requests[i + 1]
      /\ requests[1].what = "set" => replies' = replies
  BY ServeQueues
<1>2. Stays
  BY SlotStays
<1>. HIDE DEF n
<1>3. CASE /\ Len(replies) = 1 /\ Says(what, replies[1])
           /\ n = 1 /\ LastAsks
  <2>1. requests[1].number = calls /\ requests[1].what = "get_state"
    BY <1>3 DEF LastAsks, n
  <2>2. PICK r \in Replies :
          /\ ReplyToHead(r) /\ Len(replies') = 2
          /\ replies'[2] = r /\ replies'[1] = replies[1]
    <3>1. PICK r \in Replies :
            /\ ReplyToHead(r) /\ Len(replies') = Len(replies) + 1
            /\ replies'[Len(replies) + 1] = r
            /\ \A i \in 1 .. Len(replies) : replies'[i] = replies[i]
      BY <1>1, <2>1, ServeQueues
    <3>. QED
      BY <1>3, <3>1
  <2>3. ASSUME replies[1].success
        PROVE  Says("get_state", r)'
    <3>1. op = calls
      BY <1>3, <2>3 DEF Says
    <3>2. IsOwn("get_state", Head(requests))
      BY <1>1, <2>1, <3>1 DEF IsOwn
    <3>. QED
      BY <2>2, <3>2, OwnReply
  <2>4. Says(what, replies[1])'
    BY <1>2, <1>3, <2>2 DEF Says, Stays
  <2>5. replies'[1].success => Says("get_state", replies[2])'
    BY <2>2, <2>3 DEF Says
  <2>. QED
    BY <1>1, <1>3, <2>2, <2>4, <2>5 DEF BothOut, Says
<1>4. CASE /\ replies = <<>> /\ n >= 2 /\ LastAsks
           /\ IsOwn(what, requests[n - 1])
           /\ \A i \in 1 .. n - 2 : requests[i].what = "set"
  <2>1. /\ n - 1 \in 1 .. n - 1 /\ (n - 1) + 1 = n
        /\ requests'[n - 1] = requests[n]
    BY <1>1, <1>4
  <2>2. LastAsks'
    BY <1>1, <1>2, <1>4, <2>1 DEF LastAsks, Stays, n
  <2>3. CASE n = 2
    <3>1. requests[1].what # "set" /\ IsOwn(what, Head(requests))
      BY <1>1, <1>4, <2>3 DEF IsOwn
    <3>2. PICK r \in Replies :
            /\ ReplyToHead(r) /\ Len(replies') = Len(replies) + 1
            /\ replies'[Len(replies) + 1] = r
      BY <1>1, <3>1, ServeQueues
    <3>3. Len(replies') = 1 /\ replies'[1] = r
      BY <1>4, <3>2
    <3>4. Says(what, r)'
      BY <3>1, <3>2, OwnReply
    <3>5. Len(requests') = 1
      BY <1>1, <2>3
    <3>. QED
      BY <2>2, <3>3, <3>4, <3>5 DEF BothOut, Says
  <2>4. CASE n > 2
    <3>1. requests[1].what = "set"
      BY <1>1, <1>4, <2>4
    <3>2. replies' = <<>> /\ Len(requests') >= 2
      BY <1>1, <1>4, <2>4, <3>1
    <3>3. requests'[Len(requests') - 1] = requests[n - 1]
      <4>1. n - 2 \in 1 .. n - 1 /\ (n - 2) + 1 = n - 1 /\ (n - 1) - 1 = n - 2
        BY <1>1, <2>4
      <4>. QED
        BY <1>1, <4>1
    <3>4. IsOwn(what, requests[Len(requests) - 1])'
      BY <1>2, <1>4, <3>3 DEF IsOwn, Stays
    <3>5. \A i \in 1 .. Len(requests') - 2 : requests'[i].what = "set"
      <4>1. ASSUME NEW i \in 1 .. (n - 1) - 2
            PROVE  i \in 1 .. n - 1 /\ i + 1 \in 1 .. n - 2
        BY <1>1
      <4>. QED
        BY <1>1, <1>4, <4>1
    <3>. QED
      BY <2>2, <3>2, <3>4, <3>5 DEF BothOut, IsOwn
  <2>. QED
    BY <1>1, <1>4, <2>3, <2>4
<1>. QED
  BY <1>1, <1>3, <1>4 DEF BothOut, n

-----------------------------------------------------------------------------
(* Every step keeps what is known of a call that waits for an operation. *)

LEMMA GoesOn ==
  ASSUME OperationInv, UNCHANGED <<call, late, pc, returned>>, Stays,
         Done => Done',
         \A what \in {"operation", "get_state"} :
           /\ LastOut(what) => LastOut(what)'
           /\ BothOut(what) => BothOut(what)'
  PROVE  OperationInv'
PROOF
<1>1. op = calls => op' = calls'
  BY DEF Stays
<1>2. /\ LastOut("operation") => LastOut("operation")'
      /\ LastOut("get_state") => LastOut("get_state")'
      /\ BothOut("operation") => BothOut("operation")'
      /\ BothOut("get_state") => BothOut("get_state")'
  OBVIOUS
<1>. QED
  BY <1>1, <1>2 DEF OperationInv

LEMMA OperationServer ==
  ASSUME Types, OperationInv, Serve \/ (Reports \/ GoesIdle \/ Polls)
  PROVE  OperationInv'
PROOF
<1>1. UNCHANGED <<call, late, pc, returned>>
  BY ServeKeeps, TypesServer
<1>2. Stays /\ (Done => Done')
  BY SlotStays
<1>3. CASE Serve
  BY <1>1, <1>2, <1>3, ServeLast, ServeBoth, GoesOn
<1>4. CASE Reports \/ GoesIdle \/ Polls
  <2>1. UNCHANGED <<requests, replies>>
    BY <1>4, TypesServer
  <2>. QED
    BY <1>1, <1>2, <2>1, SameQueues, GoesOn
<1>. QED
  BY <1>3, <1>4

LEMMA OperationStream ==
  ASSUME Types, OperationInv,
         (StreamReceives \/ StreamStores) \/ UNCHANGED vars
  PROVE  OperationInv'
PROOF
<1>1. UNCHANGED <<calls, call, returned, pc, late, requests, replies, op,
                  reported, interrupted, failed>>
  BY TypesStream DEF vars, callVars, queueVars, slotVars
<1>2. Stays /\ (Done => Done')
  BY <1>1 DEF Stays, Done
<1>. QED
  BY <1>1, <1>2, SameQueues, GoesOn

\* While a call waits for a reply, those to come are one more than the late.
LEMMA CountWaiting ==
  ASSUME Types, LateRepliesStay, pc \in {"reply", "asked"}
  PROVE  /\ Cardinality(OwedOf(requests)) + Len(replies) = late + 1
         /\ Cardinality(OwedOf(requests)) \in Nat /\ Len(replies) \in Nat
         /\ late \in Nat /\ Len(requests) \in Nat
         /\ requests # <<>> => Len(requests) \in 1 .. Len(requests)
BY CountIs, CountTypes, EmptySeq DEF Types, Waiting

\* The last answer under way is the only one.
LEMMA LastHere ==
  ASSUME Types, LateRepliesStay, pc \in {"reply", "asked"},
         NEW what \in {"operation", "get_state"}, LastOut(what),
         Len(replies) = late + 1
  PROVE  requests = <<>> /\ Says(what, replies[Len(replies)])
PROOF
<1>1. Cardinality(OwedOf(requests)) = 0
  BY CountWaiting
<1>2. \A i \in 1 .. Len(requests) : requests[i].what = "set"
  BY <1>1, NoneOwed DEF Types, ClientTypes
<1>3. requests = <<>>
  <2>. SUFFICES ASSUME requests # <<>>
                PROVE  FALSE
    OBVIOUS
  <2>1. requests[Len(requests)].what = "set"
    BY <1>2, CountWaiting
  <2>. QED
    BY <2>1 DEF LastOut, IsOwn
<1>. QED
  BY <1>3 DEF LastOut

LEMMA TailOfTwo ==
  ASSUME NEW q \in Seq(Replies), Len(q) = 2
  PROVE  /\ Len(Tail(q)) = 1 /\ Tail(q)[1] = q[2] /\ Tail(q) # <<>>
         /\ Head(q) = q[1]
PROOF
<1>1. q # <<>>
  BY EmptySeq
<1>2. /\ Tail(q) \in Seq(Replies) /\ Len(Tail(q)) = Len(q) - 1
      /\ \A i \in 1 .. Len(Tail(q)) : Tail(q)[i] = q[i + 1]
  BY <1>1, HeadTailProperties
<1>3. Len(Tail(q)) = 1 /\ Tail(q)[1] = q[2]
  BY <1>2
<1>4. Tail(q) # <<>>
  BY <1>3, EmptySeq
<1>. QED
  BY <1>3, <1>4

LEMMA OperationAnswer ==
  ASSUME Types, LateRepliesStay, OperationInv, ReceivesAnswer
  PROVE  OperationInv'
PROOF
<1>1. /\ UNCHANGED <<op, reported, interrupted, failed, calls, call, requests,
                     late>>
  BY ClientKeeps DEF Receiving
<1>2. pc = "reply" /\ replies # <<>> /\ replies' = Tail(replies)
  BY DEF ReceivesAnswer, Receives
<1>3. /\ Head(replies) = replies[1] /\ Len(replies) \in Nat \ {0}
      /\ Len(replies') = Len(replies) - 1 /\ replies \in Seq(Replies)
      /\ replies' \in Seq(Replies)
      /\ Head(replies).success \in BOOLEAN
  BY <1>2, ReceiveTypes DEF Types, ClientTypes
<1>. SUFFICES ASSUME call = "operation", late <= 1
              PROVE  OperationInv'
  BY <1>1 DEF OperationInv
<1>4. LastOut("operation")
  BY <1>2 DEF OperationInv
<1>5. CASE ~ Head(replies).success
  <2>1. pc' = "idle" /\ ~ returned'
    BY <1>3, <1>5 DEF ReceivesAnswer, Returns
  <2>. QED
    BY <2>1 DEF OperationInv
<1>6. CASE Head(replies).success
  <2>1. pc' = "wait"
    BY <1>6 DEF ReceivesAnswer
  <2>2. CASE late = 0
    <3>1. Len(replies) = 1
      BY <1>2, <1>3, <2>2, CountWaiting
    <3>2. Says("operation", replies[1])
      BY <1>2, <1>4, <2>2, <3>1, LastHere
    <3>3. op = calls
      BY <1>3, <1>6, <3>2 DEF Says
    <3>. QED
      BY <1>1, <2>1, <2>2, <3>3 DEF OperationInv
  <2>3. CASE late # 0
    <3>1. CASE requests = <<>>
      <4>1. Len(replies) = 2
        BY <1>2, <1>3, <2>3, <3>1, CountWaiting, OwedFinite, FS_EmptySet
           DEF OwedOf
      <4>2. Says("operation", replies[2])
        BY <1>4, <3>1, <4>1 DEF LastOut
      <4>3. Len(replies') = 1 /\ replies'[1] = replies[2] /\ replies' # <<>>
        BY <1>2, <1>3, <4>1, TailOfTwo
      <4>. QED
        BY <1>1, <2>1, <2>3, <3>1, <4>2, <4>3 DEF OperationInv, LastOut, Says
    <3>2. CASE requests # <<>>
      BY <1>1, <1>4, <2>1, <2>3, <3>2 DEF OperationInv, LastOut, IsOwn
    <3>. QED
      BY <3>1, <3>2
  <2>. QED
    BY <2>2, <2>3
<1>. QED
  BY <1>5, <1>6

\* The outcome is that of the call.
LEMMA OutcomeIsOwn ==
  ASSUME NEW r, Says("get_state", r), r.status = "idle", Succeeded(r), calls > 0
  PROVE  Done
PROOF
<1>1. calls # None
  BY ConstantTypes
<1>. QED
  BY <1>1 DEF Says, Succeeded, Done

LEMMA BothThenLast ==
  ASSUME Types, NEW what \in {"operation", "get_state"}, BothOut(what),
         replies # <<>>, Head(replies).success, replies' = Tail(replies),
         UNCHANGED <<op, reported, interrupted, calls, requests>>
  PROVE  Says(what, Head(replies)) /\ LastOut("get_state")'
PROOF
<1>1. /\ replies \in Seq(Replies) /\ Head(replies) = replies[1]
      /\ Len(replies) \in Nat \ {0}
  BY ReceiveTypes DEF Types, ClientTypes
<1>2. CASE /\ Len(replies) = 2 /\ requests = <<>> /\ Says(what, replies[1])
           /\ replies[1].success => Says("get_state", replies[2])
  <2>1. Len(replies') = 1 /\ replies'[1] = replies[2] /\ replies' # <<>>
    BY <1>1, <1>2, TailOfTwo
  <2>. QED
    BY <1>1, <1>2, <2>1 DEF LastOut, Says
<1>3. CASE /\ Len(replies) = 1 /\ Says(what, replies[1])
           /\ Len(requests) = 1 /\ LastAsks
  <2>1. op = calls
    BY <1>1, <1>3 DEF Says
  <2>2. requests # <<>>
    BY <1>3, EmptySeq
  <2>. QED
    BY <1>1, <1>3, <2>1, <2>2 DEF LastOut, IsOwn, LastAsks
<1>. QED
  BY <1>2, <1>3 DEF BothOut

LEMMA OperationStatus ==
  ASSUME Types, LateRepliesStay, OperationInv, ReceivesStatus
  PROVE  OperationInv'
PROOF
<1>. DEFINE r == Head(replies)
<1>1. UNCHANGED <<op, reported, interrupted, failed, calls, call, requests,
                  late>>
  BY ClientKeeps DEF Receiving
<1>2. pc = "asked" /\ replies # <<>> /\ replies' = Tail(replies)
  BY DEF ReceivesStatus, Receives
<1>3. /\ r = replies[1] /\ Len(replies) \in Nat \ {0} /\ r.success \in BOOLEAN
      /\ call = "operation" /\ calls > 0
  BY <1>2, ReceiveTypes DEF Types, ClientTypes
<1>. SUFFICES ASSUME late <= 1
              PROVE  OperationInv'
  BY <1>1 DEF OperationInv
<1>4. \/ r.success /\ r.status # "idle" /\ pc' = "wait"
      \/ r.success /\ r.status = "idle" /\ Succeeded(r)
           /\ pc' \in {"refresh", "idle"}
      \/ pc' = "idle" /\ ~ returned'
  <2>1. CASE r.success /\ r.status # "idle"
    BY <2>1 DEF ReceivesStatus
  <2>2. CASE ~ (r.success /\ r.status # "idle") /\ Succeeded(r)
    <3>1. r.success
      BY <2>2 DEF Succeeded
    <3>2. pc' \in {"refresh", "idle"}
      BY <2>2 DEF ReceivesStatus, Returns
    <3>. QED
      BY <2>2, <3>1, <3>2
  <2>3. CASE ~ (r.success /\ r.status # "idle") /\ ~ Succeeded(r)
    <3>1. pc' = "idle" /\ returned' = Succeeded(r)
      BY <2>3, Zenon DEF ReceivesStatus, Returns
    <3>. QED
      BY <2>3, <3>1, Zenon
  <2>. QED
    BY <2>1, <2>2, <2>3
<1>5. ASSUME r.success
      PROVE  /\ r.status = "idle" => Says("get_state", r)
             /\ IF late = 0 THEN op = calls ELSE LastOut("get_state")'
  <2>1. CASE late = 0
    <3>1. LastOut("get_state")
      BY <1>2, <1>3, <2>1 DEF OperationInv
    <3>2. Len(replies) = 1
      <4>1. /\ Cardinality(OwedOf(requests)) + Len(replies) = late + 1
            /\ Cardinality(OwedOf(requests)) \in Nat
        BY <1>2, CountWaiting
      <4>2. Len(replies) \in Nat \ {0}
        BY <1>3
      <4>. QED
        BY <2>1, <4>1, <4>2
    <3>3. Says("get_state", r)
      BY <1>2, <1>3, <2>1, <3>1, <3>2, LastHere
    <3>. QED
      BY <2>1, <3>3 DEF Says
  <2>2. CASE late # 0
    <3>1. PICK what \in {"operation", "get_state"} : BothOut(what)
      BY <1>2, <1>3, <2>2 DEF OperationInv
    <3>2. Says(what, r) /\ LastOut("get_state")'
      BY <1>1, <1>2, <1>5, <3>1, BothThenLast
    <3>3. r.status = "idle" => Says("get_state", r)
      BY <3>2 DEF Says
    <3>. QED
      BY <2>2, <3>2, <3>3
  <2>. QED
    BY <2>1, <2>2
<1>. HIDE DEF r
<1>6. CASE r.success /\ r.status # "idle" /\ pc' = "wait"
  BY <1>1, <1>5, <1>6 DEF OperationInv
<1>7. CASE /\ r.success /\ r.status = "idle" /\ Succeeded(r)
           /\ pc' \in {"refresh", "idle"}
  <2>1. Done
    BY <1>3, <1>5, <1>7, OutcomeIsOwn
  <2>2. Done'
    BY <1>1, <2>1 DEF Done
  <2>. QED
    BY <1>7, <2>2 DEF OperationInv
<1>8. CASE pc' = "idle" /\ ~ returned'
  BY <1>8 DEF OperationInv
<1>. QED
  BY <1>4, <1>6, <1>7, <1>8

\* The other steps of the client.
LEMMA OperationEnds ==
  ASSUME OperationInv, ReceivesState \/ GivesUp \/ TimesOut
  PROVE  OperationInv'
PROOF
<1>1. UNCHANGED <<op, reported, interrupted, failed, calls, call>>
  BY ClientKeeps DEF Receiving
<1>2. CASE ReceivesState
  <2>1. pc = "refreshing" /\ pc' = "idle" /\ late' = late
    BY <1>2, ClientKeeps DEF ReceivesState, Receives, Returns, Receiving
  <2>2. call = "operation" /\ late <= 1 => Done'
    BY <1>1, <2>1 DEF OperationInv, Done
  <2>. QED
    BY <1>1, <2>1, <2>2 DEF OperationInv
<1>3. CASE GivesUp \/ TimesOut
  <2>1. pc' = "idle" /\ ~ returned'
    BY <1>3 DEF GivesUp, TimesOut, Returns
  <2>. QED
    BY <2>1 DEF OperationInv
<1>. QED
  BY <1>2, <1>3

LEMMA OneInAll ==
  ASSUME NEW a \in Nat, NEW b \in Nat \ {0}, a + b = 1
  PROVE  b = 1
OBVIOUS

\* The question after a late answer.
LEMMA AsksAfter ==
  ASSUME Types, LateRepliesStay, pc = "wait", late = 1,
         NEW what \in {"operation", "get_state"}, LastOut(what),
         NEW r \in Requests, r.number = calls, r.what = "get_state",
         requests' = Append(requests, r),
         UNCHANGED <<op, reported, interrupted, calls, replies>>
  PROVE  BothOut(what)'
PROOF
<1>. DEFINE n == Len(requests)
<1>1. /\ Cardinality(OwedOf(requests)) + Len(replies) = 1
      /\ Cardinality(OwedOf(requests)) \in Nat /\ Len(replies) \in Nat
      /\ requests \in Seq(Requests) /\ replies \in Seq(Replies)
  BY CountIs, CountTypes DEF Types, Waiting
<1>2. /\ n \in Nat /\ Len(requests') = n + 1 /\ requests'[n + 1] = r
      /\ \A i \in 1 .. n : requests'[i] = requests[i]
  BY <1>1
<1>3. LastAsks'
  BY <1>2 DEF LastAsks
<1>4. CASE requests = <<>>
  <2>1. replies # <<>> /\ Says(what, replies[Len(replies)])
    BY <1>4 DEF LastOut
  <2>2. Len(replies) = 1
    <3>1. Len(replies) \in Nat \ {0}
      BY <1>1, <2>1, EmptySeq
    <3>2. /\ Cardinality(OwedOf(requests)) + Len(replies) = 1
          /\ Cardinality(OwedOf(requests)) \in Nat
      BY <1>1
    <3>. QED
      BY <3>1, <3>2, OneInAll
  <2>3. Len(requests') = 1
    BY <1>2, <1>4, EmptySeq
  <2>. QED
    BY <1>3, <2>1, <2>2, <2>3 DEF BothOut, Says
<1>5. CASE requests # <<>>
  <2>1. /\ IsOwn(what, requests[n]) /\ requests[n].what # "set"
        /\ n \in 1 .. n
    BY <1>1, <1>5, EmptySeq DEF LastOut, IsOwn
  <2>2. Cardinality(OwedOf(requests)) # 0
    BY <1>1, <2>1, NoneOwed
  <2>3. Cardinality(OwedOf(requests)) = 1 /\ Len(replies) = 0
    BY <1>1, <2>2
  <2>4. \A i \in 1 .. n - 1 : requests[i].what = "set"
    BY <1>1, <1>5, <2>1, <2>3, OneOwed
  <2>5. replies' = <<>>
    BY <1>1, <2>3, EmptySeq
  <2>6. Len(requests') >= 2 /\ requests'[Len(requests') - 1] = requests[n]
    BY <1>2, <2>1
  <2>7. \A i \in 1 .. Len(requests') - 2 : requests'[i].what = "set"
    <3>1. ASSUME NEW i \in 1 .. (n + 1) - 2
          PROVE  i \in 1 .. n /\ i \in 1 .. n - 1
      BY <1>2
    <3>. QED
      BY <1>2, <2>4, <3>1
  <2>8. IsOwn(what, requests[Len(requests) - 1])'
    BY <2>1, <2>6 DEF IsOwn
  <2>. QED
    BY <1>3, <2>5, <2>6, <2>7, <2>8 DEF BothOut
<1>. QED
  BY <1>4, <1>5

LEMMA OperationSends ==
  ASSUME Types, LateRepliesStay, OperationInv, Sending
  PROVE  OperationInv'
PROOF
<1>1. PICK r \in Requests :
        /\ requests' = Append(requests, r) /\ r.number = calls'
        /\ r.what = "set" <=> pc' = "idle"
        /\ pc \notin {"reply", "asked", "refreshing"} /\ streaming' = streaming
        /\ \/ /\ call' \in CallsOf(client) /\ r.what = call'
              /\ calls' = calls + 1 /\ calls' \in Numbers /\ pc = "idle"
              /\ returned' = (call' = "set")
              /\ pc' = IF call' = "set" THEN "idle" ELSE "reply"
           \/ /\ r.what = "get_state" /\ UNCHANGED <<calls, call, returned>>
              /\ \/ pc = "wait" /\ pc' = "asked"
                 \/ pc = "refresh" /\ pc' = "refreshing"
  BY SendingIs
<1>2. UNCHANGED <<op, reported, interrupted, failed, replies, late>>
  BY ClientKeeps
<1>3. /\ requests \in Seq(Requests) /\ late \in Nat
  BY CountTypes DEF Types
<1>4. /\ requests'[Len(requests')] = r /\ requests' # <<>>
  <2>1. requests' \in Seq(Requests) /\ Len(requests') = Len(requests) + 1
    BY <1>1, <1>3
  <2>2. requests'[Len(requests')] = r /\ Len(requests') # 0
    BY <1>1, <1>3
  <2>. QED
    BY <2>1, <2>2, EmptySeq
<1>5. CASE /\ r.what = call' /\ r.number = calls'
           /\ pc' = IF call' = "set" THEN "idle" ELSE "reply"
  <2>1. call' = "operation" => LastOut("operation")' /\ pc' = "reply"
    BY <1>4, <1>5 DEF LastOut, IsOwn
  <2>. QED
    BY <2>1 DEF OperationInv
<1>6. CASE /\ r.what = "get_state" /\ UNCHANGED <<calls, call, returned>>
           /\ pc = "refresh" /\ pc' = "refreshing"
  BY <1>2, <1>6 DEF OperationInv, Done
<1>7. CASE /\ r.what = "get_state" /\ UNCHANGED <<calls, call, returned>>
           /\ pc = "wait" /\ pc' = "asked"
  <2>. SUFFICES ASSUME call = "operation", late <= 1
                PROVE  OperationInv'
    BY <1>2, <1>7 DEF OperationInv
  <2>1. CASE late = 0
    <3>1. op = calls
      BY <1>7, <2>1 DEF OperationInv
    <3>2. LastOut("get_state")'
      BY <1>1, <1>2, <1>4, <1>7, <3>1 DEF LastOut, IsOwn
    <3>. QED
      BY <1>2, <1>7, <2>1, <3>2 DEF OperationInv
  <2>2. CASE late = 1
    <3>1. PICK what \in {"operation", "get_state"} : LastOut(what)
      BY <1>7, <2>2 DEF OperationInv
    <3>2. BothOut(what)'
      BY <1>1, <1>2, <1>7, <2>2, <3>1, AsksAfter
    <3>. QED
      BY <1>2, <1>7, <2>2, <3>2 DEF OperationInv
  <2>. QED
    BY <1>3, <2>1, <2>2
<1>. QED
  BY <1>1, <1>5, <1>6, <1>7

-----------------------------------------------------------------------------
(* The theorems. *)

LEMMA InitClientInv ==
  ASSUME Init
  PROVE  ClientInv
PROOF
<1>1. ClientTypes
  <2>1. <<>> \in Seq(Requests) /\ <<>> \in Seq(Replies)
    OBVIOUS
  <2>2. /\ client \in Clients /\ calls = 0 /\ call = "none" /\ late = 0
        /\ returned \in BOOLEAN /\ pc = "idle"
        /\ requests = <<>> /\ replies = <<>>
    BY DEF Init
  <2>3. 0 \in 0 .. MaxCalls /\ 0 \in 0 .. MaxLate
    BY ConstantTypes
  <2>. QED
    BY <2>1, <2>2, <2>3 DEF ClientTypes
<1>2. ServerTypes
  <2>1. /\ op = 0 /\ calls = 0 /\ busy \in BOOLEAN /\ interrupted \in BOOLEAN
        /\ reported = 0 /\ failed = {} /\ done = {}
    BY DEF Init, Slot!Init
  <2>. QED
    BY <2>1, ConstantTypes DEF ServerTypes
<1>3. StreamTypes
  <2>1. op = 0 /\ cached \in {NoState, 0}
    BY DEF Init, Slot!Init
  <2>2. cached \in NoState .. op
    BY <2>1, ConstantTypes
  <2>3. stream = <<>> /\ raw = NoState /\ streaming = NoState
    BY DEF Init
  <2>. QED
    BY <2>2, <2>3, ConstantTypes DEF StreamTypes
<1>4. OrderInv
  BY DEF Init, OrderInv
<1>5. LateRepliesStay
  <2>1. Owed = {} /\ Len(replies) = 0 /\ late = 0 /\ ~ Waiting
    BY DEF Init, Owed, Waiting
  <2>. QED
    BY <2>1, FS_EmptySet DEF LateRepliesStay
<1>6. OperationInv
  BY DEF Init, OperationInv
<1>. QED
  BY <1>1, <1>2, <1>3, <1>4, <1>5, <1>6 DEF ClientInv

LEMMA ClientInvStep ==
  ASSUME ClientInv, [Next]_vars
  PROVE  ClientInv'
PROOF
<1>1. Types /\ LateRepliesStay /\ OperationInv
  BY DEF ClientInv, Types
<1>2. Types' /\ LateRepliesStay'
  BY <1>1, TypesStep, CountStep
<1>3. OperationInv'
  BY <1>1, NextCases, OperationServer, OperationStream, OperationAnswer,
     OperationStatus, OperationEnds, OperationSends DEF Receiving
<1>. QED
  BY <1>2, <1>3 DEF ClientInv, Types

\* What holds of a client and the server in every state.
THEOREM ClientInvariant == Spec => []ClientInv
PROOF
<1>1. Init => ClientInv
  BY InitClientInv
<1>2. ClientInv /\ [Next]_vars => ClientInv'
  BY ClientInvStep
<1>. QED
  BY <1>1, <1>2, PTL DEF Spec

\* The values are those of RobotClient.__init__ onwards, and the stream is
\* never over its high-water mark.
THEOREM ClientTypeCorrect == Spec => []TypeOK
PROOF
<1>1. ClientInv => TypeOK
  <2>. SUFFICES ASSUME ClientInv
                PROVE  TypeOK
    OBVIOUS
  <2>1. /\ calls \in 0 .. MaxCalls /\ op \in 0 .. calls
        /\ failed \subseteq 1 .. op /\ cached \in NoState .. op
    BY DEF ClientInv, ClientTypes, ServerTypes, StreamTypes
  <2>2. /\ op \in 0 .. MaxCalls /\ failed \subseteq Numbers
        /\ cached \in NoState .. MaxCalls
    BY <2>1, ConstantTypes
  <2>. QED
    BY <2>2 DEF ClientInv, ClientTypes, ServerTypes, StreamTypes, TypeOK
<1>. QED
  BY <1>1, ClientInvariant, PTL

\* Replies are never lost or doubled, nor is a target answered: those under
\* way are the one waited for and the late ones (robot_server.py:247-253),
\* however many they are.
THEOREM RepliesStayInLine == Spec => []LateRepliesStay
PROOF
<1>1. ClientInv => LateRepliesStay
  BY DEF ClientInv
<1>. QED
  BY <1>1, ClientInvariant, PTL

\* As long as at most one reply was late, a call that waits for an operation
\* returns True only if the server carried out this operation, and well,
\* until a stop (robot_client.py:103-117).
THEOREM TrueIsDone == Spec => [](late <= 1 => TrueMeansDone)
PROOF
<1>1. ClientInv => (late <= 1 => TrueMeansDone)
  BY DEF ClientInv, OperationInv, Done, TrueMeansDone
<1>. QED
  BY <1>1, ClientInvariant, PTL
=============================================================================
