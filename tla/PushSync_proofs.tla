-------------------------- MODULE PushSync_proofs --------------------------
(***************************************************************************)
(* The replay of offline operations implements OperationLog, for any       *)
(* operations, dependencies and requests, and any failures; what devices   *)
(* are told is so; and a cursor of the feed stands for all before it.      *)
(*                                                                         *)
(* The argument of the first: the row of an operation that somebody is     *)
(* applying is not there for anybody else, so only one request applies it  *)
(* and nobody has recorded it; its dependencies, once found applied, stay  *)
(* so until its commit, which is the one step that adds to the log.  A     *)
(* request carries no operation twice, so an answer is never overwritten.  *)
(***************************************************************************)
EXTENDS PushSync, Aggregates, SequenceTheorems, FiniteSetTheorems, TLAPS

Row == [status : {"NONE", "APPLIED", "FAILED"}, payload : Payload]
Orders == {s \in Seq(Op) : InOrder(s)}
Request == [phase : Phase, ops : Orders, payload : Payload, halt : BOOLEAN,
            index : Nat, outcome : {"APPLIED", "FAILED"}, told : [Op -> Told]]
Applied == {"APPLIED", "DUPLICATE"}

Typed ==
    /\ operations \in [Op -> Row]
    /\ replays \in [Replay -> Request]
    /\ effects \in [Op -> Nat]

\* A request at work is at one of its operations, and has no answer from there on.
AtWork(p) == p.phase \in {"start", "apply", "complete"}
Unanswered(p) ==
    /\ p.phase = "idle" => p.index = 1 /\ \A op \in Op : p.told[op] = "nothing"
    /\ AtWork(p) => /\ p.index \in 1..Len(p.ops)
                    /\ \A i \in p.index..Len(p.ops) : p.told[p.ops[i]] = "nothing"

\* A request that applies an operation is the only one, and it is not recorded.
Holds(p) == p.phase \in {"apply", "complete"}
Alone ==
    \A r \in Replay : Holds(replays[r]) =>
        /\ operations[Current(r)].status = "NONE"
        /\ \A q \in Replay : Holds(replays[q]) /\ Current(q) = Current(r) => q = r

\* What was answered is recorded, and what is about to be recorded may be.
AnswersTrue ==
    \A r \in Replay : \A op \in Op :
        replays[r].told[op] \in Applied => operations[op].status = "APPLIED"
Ready ==
    \A r \in Replay : replays[r].phase = "complete" /\ replays[r].outcome = "APPLIED" =>
        \A dep \in Needs[Current(r)] : operations[dep].status = "APPLIED"

IInv ==
    /\ Typed
    /\ \A r \in Replay : Unanswered(replays[r])
    /\ Alone /\ AnswersTrue /\ Ready

-----------------------------------------------------------------------------
LEMMA OrdersAreSequences == Operations \subseteq Orders
  <1>1. ASSUME NEW n \in 1..MaxOps PROVE [1..n -> Op] \subseteq Seq(Op)
    <2>1. n \in Nat
      BY PushAssumption
    <2> QED
      BY <2>1, SeqDef
  <1> QED
    BY <1>1 DEF Operations, Orders

\* The operation a request is at is one of the operations.
LEMMA CurrentIsOperation ==
    ASSUME IInv, NEW r \in Replay, AtWork(replays[r])
    PROVE  /\ Current(r) \in Op
           /\ replays[r].told[Current(r)] = "nothing"
  <1>1. replays[r] \in Request /\ Unanswered(replays[r])
    BY DEF IInv, Typed
  <1>2. replays[r].ops \in Seq(Op) /\ replays[r].index \in 1..Len(replays[r].ops)
    BY <1>1 DEF Request, Orders, Unanswered
  <1>3. replays[r].index \in replays[r].index..Len(replays[r].ops)
    BY <1>2
  <1> QED
    BY <1>1, <1>2, <1>3 DEF Unanswered, Current

\* What goes on after an answer: the next operation, or the end of the batch.
Continues(p, q, result) ==
    /\ q.ops = p.ops /\ q.payload = p.payload /\ q.halt = p.halt
    /\ \/ /\ q.phase = "finish"
          /\ (result = "FAILED" /\ p.halt) \/ p.index = Len(p.ops)
       \/ /\ q.phase = "start" /\ q.index = p.index + 1
          /\ ~(result = "FAILED" /\ p.halt)

\* The answer goes into one place, and the request on to its next operation or out.
LEMMA Telling ==
    ASSUME IInv, NEW r \in Replay, AtWork(replays[r]),
           NEW result \in Told, Tells(r, result)
    PROVE  /\ replays' \in [Replay -> Request]
           /\ \A q \in Replay : q # r => replays'[q] = replays[q]
           /\ replays'[r].told = [replays[r].told EXCEPT ![Current(r)] = result]
           /\ ~Holds(replays'[r])
           /\ Unanswered(replays'[r])
           /\ Continues(replays[r], replays'[r], result)
  <1> DEFINE p == replays[r]
             stops == (result = "FAILED" /\ p.halt) \/ p.index = Len(p.ops)
             next == [p EXCEPT !.told[Current(r)] = result,
                               !.index = IF stops THEN @ ELSE @ + 1,
                               !.phase = IF stops THEN "finish" ELSE "start"]
  <1>1. p \in Request /\ Unanswered(p) /\ Current(r) \in Op /\ replays \in [Replay -> Request]
    BY CurrentIsOperation DEF IInv, Typed
  <1>2. replays' = [replays EXCEPT ![r] = next]
    BY DEF Tells
  <1>3. /\ next \in Request
        /\ next.told = [p.told EXCEPT ![Current(r)] = result]
        /\ next.ops = p.ops /\ next.payload = p.payload /\ next.halt = p.halt
        /\ stops => next.index = p.index /\ next.phase = "finish"
        /\ ~stops => next.index = p.index + 1 /\ next.phase = "start"
    <2> HIDE DEF p, stops
    <2>1. p.index \in Nat /\ p.index + 1 \in Nat /\ {"start", "finish"} \subseteq Phase
      BY <1>1 DEF Request, Phase
    <2>2. CASE stops
      <3>1. next = [p EXCEPT !.told[Current(r)] = result, !.index = p.index, !.phase = "finish"]
        BY <2>2
      <3> HIDE DEF next
      <3> QED
        BY <1>1, <2>1, <2>2, <3>1 DEF Request
    <2>3. CASE ~stops
      <3>1. next = [p EXCEPT !.told[Current(r)] = result, !.index = p.index + 1, !.phase = "start"]
        BY <2>3
      <3> HIDE DEF next
      <3> QED
        BY <1>1, <2>1, <2>3, <3>1 DEF Request
    <2> QED
      BY <2>2, <2>3
  <1>4. Unanswered(next)
    <2>1. CASE stops
      BY <2>1, <1>3 DEF Unanswered, AtWork
    <2>2. CASE ~stops
      <3>1. p.ops \in Seq(Op) /\ InOrder(p.ops) /\ p.index \in 1..Len(p.ops)
        BY <1>1 DEF Request, Orders, Unanswered
      <3>2. p.index + 1 \in 1..Len(p.ops)
        BY <3>1, <2>2
      <3>3. ASSUME NEW i \in p.index + 1 .. Len(p.ops)
            PROVE  next.told[p.ops[i]] = "nothing"
        <4>1. i \in DOMAIN p.ops /\ p.index \in DOMAIN p.ops /\ i # p.index /\ p.ops[i] \in Op
          BY <3>1
        <4>2. p.ops[i] # p.ops[p.index]
          BY <3>1, <4>1 DEF InOrder
        <4>3. p.told[p.ops[i]] = "nothing"
          BY <1>1, <3>1 DEF Unanswered
        <4> QED
          BY <1>1, <1>3, <4>1, <4>2, <4>3 DEF Current, Request
      <3> QED
        BY <1>3, <2>2, <3>2, <3>3 DEF Unanswered, AtWork
    <2> QED
      BY <2>1, <2>2
  <1>5. Continues(p, next, result)
    <2> HIDE DEF next, p
    <2> QED
      BY <1>3 DEF Continues
  <1> QED
    <2> HIDE DEF next, stops
    <2>1. replays'[r] = next /\ replays' \in [Replay -> Request]
          /\ \A q \in Replay : q # r => replays'[q] = replays[q]
      BY <1>1, <1>2, <1>3
    <2> QED
      BY <2>1, <1>3, <1>4, <1>5 DEF Holds

-----------------------------------------------------------------------------
\* A request moves and learns nothing: the log does not see it.
LEMMA Moving ==
    ASSUME IInv, NEW r \in Replay,
           replays' \in [Replay -> Request], UNCHANGED <<operations, effects>>,
           \A q \in Replay : q # r => replays'[q] = replays[q],
           replays'[r].told = replays[r].told,
           Unanswered(replays'[r]),
           Holds(replays'[r]) =>
               /\ operations[Current(r)'].status = "NONE"
               /\ \A q \in Replay : q # r /\ Holds(replays[q]) => Current(q) # Current(r)',
           replays'[r].phase = "complete" /\ replays'[r].outcome = "APPLIED" =>
               \A dep \in Needs[Current(r)'] : operations[dep].status = "APPLIED"
    PROVE  IInv' /\ UNCHANGED <<Outcomes, effects, Acknowledged>>
  <1>1. \A q \in Replay : q # r => Current(q)' = Current(q)
    BY DEF Current
  <1>2. \A q \in Replay : replays'[q].told = replays[q].told
    OBVIOUS
  <1>3. Typed'
    BY DEF IInv, Typed
  <1>4. \A q \in Replay : Unanswered(replays'[q])
    BY DEF IInv
  <1>5. Alone'
    BY <1>1 DEF IInv, Alone
  <1>6. AnswersTrue'
    BY <1>2 DEF IInv, AnswersTrue
  <1>7. Ready'
    BY <1>1 DEF IInv, Ready
  <1>8. UNCHANGED Acknowledged
    BY <1>2 DEF Acknowledged
  <1> QED
    BY <1>3, <1>4, <1>5, <1>6, <1>7, <1>8 DEF IInv, Outcomes

\* The one answer that changes is the current operation's, which there was none of.
LEMMA Answering ==
    ASSUME IInv, NEW r \in Replay, AtWork(replays[r]),
           NEW result \in Told, Tells(r, result)
    PROVE  Acknowledged' = IF result \in Applied THEN Acknowledged \cup {<<r, Current(r)>>}
                           ELSE Acknowledged
  <1> DEFINE op == Current(r)
  <1>1. op \in Op /\ replays[r].told[op] = "nothing" /\ replays[r].told \in [Op -> Told]
    BY CurrentIsOperation DEF IInv, Typed, Request
  <1>2. /\ \A q \in Replay : q # r => replays'[q] = replays[q]
        /\ replays'[r].told = [replays[r].told EXCEPT ![op] = result]
    BY Telling
  <1> HIDE DEF op
  <1>3. ASSUME NEW q \in Replay, NEW o \in Op
        PROVE  replays'[q].told[o] = IF q = r /\ o = op THEN result ELSE replays[q].told[o]
    BY <1>1, <1>2
  <1>4. ASSUME NEW known \in Replay \X Op
        PROVE  known \in Acknowledged' <=>
                   IF known = <<r, op>> THEN result \in Applied ELSE known \in Acknowledged
    <2>1. known[1] \in Replay /\ known[2] \in Op /\ known = <<known[1], known[2]>>
      OBVIOUS
    <2>2. (known = <<r, op>>) = (known[1] = r /\ known[2] = op)
      BY <2>1
    <2>3. CASE known = <<r, op>>
      BY <2>1, <2>2, <2>3, <1>3 DEF Acknowledged, Applied
    <2>4. CASE known # <<r, op>>
      BY <2>1, <2>2, <2>4, <1>3 DEF Acknowledged, Applied
    <2> QED
      BY <2>3, <2>4
  <1>5. <<r, op>> \in Replay \X Op /\ <<r, op>> \notin Acknowledged
    BY <1>1 DEF Acknowledged
  <1>6. Acknowledged \subseteq Replay \X Op /\ Acknowledged' \subseteq Replay \X Op
    BY DEF Acknowledged
  <1>7. CASE result \in Applied
    BY <1>4, <1>5, <1>6, <1>7 DEF op
  <1>8. CASE result \notin Applied
    BY <1>4, <1>5, <1>6, <1>8 DEF op
  <1> QED
    BY <1>7, <1>8 DEF op

-----------------------------------------------------------------------------
\* Each handler keeps the invariant, and is a step of the log or one it does not see.
LEMMA Submitting ==
    ASSUME IInv, NEW r \in Replay, SubmitReplay(r)
    PROVE  IInv' /\ UNCHANGED <<Outcomes, effects, Acknowledged>>
  <1>1. PICK ops \in Operations, payload \in Payload, halt \in BOOLEAN :
          replays' = [replays EXCEPT ![r].phase = "start", ![r].ops = ops,
                                     ![r].payload = payload, ![r].halt = halt]
    BY DEF SubmitReplay
  <1>2. /\ replays[r] \in Request /\ replays \in [Replay -> Request]
        /\ replays[r].phase = "idle" /\ Unanswered(replays[r])
        /\ UNCHANGED <<operations, effects>>
    BY DEF IInv, Typed, SubmitReplay
  <1>3. ops \in Orders /\ ops \in Seq(Op) /\ 1 \in 1..Len(ops)
    <2>1. PICK n \in 1..MaxOps : ops \in [1..n -> Op]
      BY DEF Operations
    <2>2. n \in Nat /\ n >= 1
      BY PushAssumption
    <2>3. ops \in Orders /\ ops \in Seq(Op)
      BY OrdersAreSequences DEF Orders
    <2>4. Len(ops) = n
      BY <2>1, <2>2, <2>3
    <2> QED
      BY <2>2, <2>3, <2>4
  <1>4. /\ replays' \in [Replay -> Request]
        /\ \A q \in Replay : q # r => replays'[q] = replays[q]
        /\ replays'[r].told = replays[r].told /\ replays'[r].ops = ops
        /\ replays'[r].phase = "start" /\ replays'[r].index = 1
    BY <1>1, <1>2, <1>3 DEF Request, Phase, Unanswered
  <1>5. Unanswered(replays'[r])
    BY <1>2, <1>3, <1>4 DEF Unanswered, AtWork
  <1> QED
    BY <1>2, <1>4, <1>5, Moving DEF Holds

LEMMA Failing ==
    ASSUME IInv, NEW r \in Replay, FailReplay(r)
    PROVE  IInv' /\ UNCHANGED <<Outcomes, effects, Acknowledged>>
  <1>1. /\ replays \in [Replay -> Request] /\ UNCHANGED <<operations, effects>>
        /\ replays' = [replays EXCEPT ![r].phase = "error"]
    BY DEF IInv, Typed, FailReplay
  <1>2. /\ replays' \in [Replay -> Request] /\ replays'[r].phase = "error"
        /\ \A q \in Replay : q # r => replays'[q] = replays[q]
        /\ replays'[r].told = replays[r].told
    BY ZenonT(40), <1>1 DEF Request, Phase
  <1> QED
    BY <1>1, <1>2, Moving DEF Unanswered, AtWork, Holds

LEMMA Finishing ==
    ASSUME IInv, NEW r \in Replay, FinishReplay(r)
    PROVE  IInv' /\ UNCHANGED <<Outcomes, effects, Acknowledged>>
  <1>1. /\ replays \in [Replay -> Request] /\ UNCHANGED <<operations, effects>>
        /\ replays' = [replays EXCEPT ![r].phase = "answered"]
    BY DEF IInv, Typed, FinishReplay
  <1>2. /\ replays' \in [Replay -> Request] /\ replays'[r].phase = "answered"
        /\ \A q \in Replay : q # r => replays'[q] = replays[q]
        /\ replays'[r].told = replays[r].told
    BY <1>1 DEF Request, Phase
  <1> QED
    BY <1>1, <1>2, Moving DEF Unanswered, AtWork, Holds

\* An operation that has been found recorded, or is taken up.
LEMMA Starting ==
    ASSUME IInv, NEW r \in Replay, StartOperation(r)
    PROVE  /\ IInv' /\ UNCHANGED <<Outcomes, effects>>
           /\ \/ UNCHANGED Acknowledged
              \/ /\ Outcomes[Current(r)] = "APPLIED"
                 /\ Acknowledged' = Acknowledged \cup {<<r, Current(r)>>}
  <1> DEFINE row == operations[Current(r)]
  <1>1. /\ AtWork(replays[r]) /\ ~Holds(replays[r]) /\ ~Locked(Current(r))
        /\ UNCHANGED <<operations, effects>>
    BY DEF StartOperation, AtWork, Holds
  <1>2. Current(r) \in Op /\ replays \in [Replay -> Request] /\ operations \in [Op -> Row]
    BY <1>1, CurrentIsOperation DEF IInv, Typed
  <1>3. UNCHANGED Outcomes
    BY <1>1 DEF Outcomes
  <1>4. CASE row.status = "NONE" /\ replays' = [replays EXCEPT ![r].phase = "apply"]
    <2>1. /\ replays' \in [Replay -> Request]
          /\ \A q \in Replay : q # r => replays'[q] = replays[q]
          /\ replays'[r].told = replays[r].told /\ replays'[r].phase = "apply"
          /\ replays'[r].index = replays[r].index /\ replays'[r].ops = replays[r].ops
      BY <1>2, <1>4 DEF Request, Phase
    <2>2. Current(r)' = Current(r)
      BY <2>1 DEF Current
    <2>3. Unanswered(replays'[r])
      BY <1>1, <2>1 DEF IInv, Unanswered, AtWork
    <2>4. \A q \in Replay : q # r /\ Holds(replays[q]) => Current(q) # Current(r)'
      BY <1>1, <2>2 DEF Locked, Holds
    <2>5. operations[Current(r)'].status = "NONE"
      BY <1>4, <2>2
    <2> QED
      BY <1>1, <2>1, <2>3, <2>4, <2>5, Moving
  <1>5. CASE row.status # "NONE" /\ Tells(r, ExistingResult(r, row))
    <2> DEFINE result == ExistingResult(r, row)
    <2>1. result \in Told /\ (result \in Applied => row.status = "APPLIED")
      BY DEF ExistingResult, Told, Applied
    <2> HIDE DEF result
    <2>2. Tells(r, result)
      BY <1>5 DEF result
    <2>3. /\ replays' \in [Replay -> Request]
          /\ \A q \in Replay : q # r => replays'[q] = replays[q]
          /\ replays'[r].told = [replays[r].told EXCEPT ![Current(r)] = result]
          /\ ~Holds(replays'[r]) /\ Unanswered(replays'[r])
      BY <1>1, <2>1, <2>2, Telling
    <2>4. \A q \in Replay : q # r => Current(q)' = Current(q)
      BY <2>3 DEF Current
    <2>5. AnswersTrue'
      <3>1. \A o \in Op : replays'[r].told[o] =
                IF o = Current(r) THEN result ELSE replays[r].told[o]
        BY <1>2, <2>3 DEF Request
      <3> QED
        BY ZenonT(40), <1>1, <2>1, <2>3, <3>1 DEF IInv, AnswersTrue
    <2>6. Alone' /\ Ready'
      BY <1>1, <2>3, <2>4 DEF IInv, Alone, Ready, Holds
    <2>7. IInv'
      BY <1>1, <1>2, <2>3, <2>5, <2>6 DEF IInv, Typed
    <2>8. Acknowledged' = IF result \in Applied THEN Acknowledged \cup {<<r, Current(r)>>}
                          ELSE Acknowledged
      BY <1>1, <2>1, <2>2, Answering
    <2>9. Outcomes[Current(r)] = row.status
      BY <1>2 DEF Outcomes
    <2> QED
      BY <1>1, <1>3, <2>1, <2>7, <2>8, <2>9
  <1> QED
    BY <1>4, <1>5 DEF StartOperation

\* The command is run, if what it depends on has been applied.
LEMMA Applying ==
    ASSUME IInv, NEW r \in Replay, ApplyOperation(r)
    PROVE  IInv' /\ UNCHANGED <<Outcomes, effects, Acknowledged>>
  <1>1. /\ replays[r].phase = "apply" /\ AtWork(replays[r])
        /\ replays \in [Replay -> Request] /\ UNCHANGED <<operations, effects>>
    BY DEF IInv, Typed, ApplyOperation, AtWork
  <1>2. Current(r) \in Op
    BY <1>1, CurrentIsOperation
  <1>3. PICK outcome \in {"APPLIED", "FAILED"} :
          /\ replays' = [replays EXCEPT ![r].phase = "complete", ![r].outcome = outcome]
          /\ outcome = "APPLIED" => \A dep \in Needs[Current(r)] : DependencyApplied(r, dep)
    BY DEF ApplyOperation, Outcome
  <1>4. /\ replays' \in [Replay -> Request]
        /\ \A q \in Replay : q # r => replays'[q] = replays[q]
        /\ replays'[r].told = replays[r].told /\ replays'[r].phase = "complete"
        /\ replays'[r].index = replays[r].index /\ replays'[r].ops = replays[r].ops
        /\ replays'[r].outcome = outcome
    BY ZenonT(40), <1>1, <1>3 DEF Request, Phase
  <1>5. Current(r)' = Current(r)
    BY <1>4 DEF Current
  <1>6. Unanswered(replays'[r])
    BY <1>1, <1>4 DEF IInv, Unanswered, AtWork
  <1>7. /\ operations[Current(r)].status = "NONE"
        /\ \A q \in Replay : q # r /\ Holds(replays[q]) => Current(q) # Current(r)
    BY <1>1 DEF IInv, Alone, Holds
  <1>8. outcome = "APPLIED" => \A dep \in Needs[Current(r)] : operations[dep].status = "APPLIED"
    <2>1. ASSUME NEW dep \in Needs[Current(r)], DependencyApplied(r, dep)
          PROVE  operations[dep].status = "APPLIED"
      <3>1. dep \in Op
        BY <1>2, PushAssumption
      <3> QED
        BY <2>1, <3>1 DEF DependencyApplied, IInv, AnswersTrue, Applied
    <2> QED
      BY <1>3, <2>1
  <1> QED
    BY <1>1, <1>4, <1>5, <1>6, <1>7, <1>8, Moving

\* The outcome is committed, and with it what the log shows.
LEMMA Completing ==
    ASSUME IInv, NEW r \in Replay, CompleteOperation(r)
    PROVE  IInv' /\ (Log!Apply(r, Current(r)) \/ Log!Refuse(Current(r)))
  <1> DEFINE op == Current(r)
             outcome == replays[r].outcome
  <1>1. /\ AtWork(replays[r]) /\ Holds(replays[r]) /\ replays[r].phase = "complete"
        /\ replays \in [Replay -> Request] /\ operations \in [Op -> Row] /\ effects \in [Op -> Nat]
    BY DEF IInv, Typed, CompleteOperation, AtWork, Holds
  <1>2. op \in Op
    BY <1>1, CurrentIsOperation
  <1>3. outcome \in {"APPLIED", "FAILED"} /\ outcome \in Told /\ replays[r].payload \in Payload
    BY <1>1 DEF Request, Told
  <1>4. /\ operations' = [operations EXCEPT ![op] =
                              [status |-> outcome, payload |-> replays[r].payload]]
        /\ effects' = [effects EXCEPT ![op] = IF outcome = "APPLIED" THEN @ + 1 ELSE @]
        /\ Tells(r, outcome)
    BY DEF CompleteOperation
  <1>5. /\ replays' \in [Replay -> Request]
        /\ \A q \in Replay : q # r => replays'[q] = replays[q]
        /\ replays'[r].told = [replays[r].told EXCEPT ![op] = outcome]
        /\ ~Holds(replays'[r]) /\ Unanswered(replays'[r])
    BY <1>1, <1>3, <1>4, Telling
  <1>6. \A q \in Replay : q # r => Current(q)' = Current(q)
    BY <1>5 DEF Current
  <1>7. /\ operations[op].status = "NONE"
        /\ \A q \in Replay : q # r /\ Holds(replays[q]) => Current(q) # op
    BY <1>1 DEF IInv, Alone
  <1>8. outcome = "APPLIED" => \A dep \in Needs[op] : operations[dep].status = "APPLIED"
    BY <1>1 DEF IInv, Ready
  <1>9. Acknowledged' = IF outcome \in Applied THEN Acknowledged \cup {<<r, op>>}
                        ELSE Acknowledged
    BY <1>1, <1>3, <1>4, Answering
  <1> HIDE DEF op, outcome
  <1>10. /\ operations' \in [Op -> Row] /\ effects' \in [Op -> Nat]
         /\ operations'[op].status = outcome
         /\ \A o \in Op : o # op => operations'[o] = operations[o]
    BY <1>1, <1>2, <1>3, <1>4 DEF Row
  <1>11. IInv'
    <2>1. AnswersTrue'
      <3>1. \A o \in Op : replays'[r].told[o] = IF o = op THEN outcome ELSE replays[r].told[o]
        BY <1>1, <1>2, <1>5 DEF Request
      <3>2. \A q \in Replay, o \in Op : replays[q].told[o] \in Applied =>
                o # op /\ operations'[o].status = "APPLIED"
        BY <1>7, <1>10 DEF IInv, AnswersTrue
      <3>3. ASSUME NEW q \in Replay, NEW o \in Op, replays'[q].told[o] \in Applied
            PROVE  operations'[o].status = "APPLIED"
        <4>1. CASE q = r /\ o = op
          BY <1>3, <1>10, <3>1, <3>3, <4>1 DEF Applied
        <4>2. CASE ~(q = r /\ o = op)
          BY <1>5, <3>1, <3>2, <3>3, <4>2
        <4> QED
          BY <4>1, <4>2
      <3> QED
        BY <3>3 DEF AnswersTrue
    <2>2. Alone'
      <3>1. ASSUME NEW q \in Replay, Holds(replays[q]), q # r PROVE Current(q) \in Op
        BY <3>1, CurrentIsOperation DEF Holds, AtWork
      <3> QED
        BY <1>5, <1>6, <1>7, <1>10, <3>1 DEF IInv, Alone
    <2>3. Ready'
      <3>1. ASSUME NEW q \in Replay, AtWork(replays[q])
            PROVE  \A dep \in Needs[Current(q)] : dep \in Op
        BY <3>1, CurrentIsOperation, PushAssumption
      <3> QED
        BY <1>5, <1>6, <1>7, <1>10, <3>1 DEF IInv, Ready, AtWork, Holds
    <2> QED
      BY <1>5, <1>10, <2>1, <2>2, <2>3 DEF IInv, Typed
  <1>12. Outcomes' = [Outcomes EXCEPT ![op] = outcome]
    BY <1>2, <1>10 DEF Outcomes
  <1>13. Outcomes[op] = "NONE" /\ \A o \in Op : Outcomes[o] = operations[o].status
    BY <1>2, <1>7 DEF Outcomes
  <1>14. CASE outcome = "APPLIED"
    <2>1. \A dep \in Needs[op] : Outcomes[dep] = "APPLIED"
      BY <1>2, <1>8, <1>13, <1>14, PushAssumption
    <2> QED
      BY <1>4, <1>9, <1>11, <1>12, <1>13, <1>14, <2>1 DEF Log!Apply, Applied, op
  <1>15. CASE outcome = "FAILED"
    <2>1. effects' = effects
      BY <1>1, <1>4, <1>15
    <2> QED
      BY <1>9, <1>11, <1>12, <1>13, <1>15, <2>1 DEF Log!Refuse, Applied, op
  <1> QED
    BY <1>3, <1>14, <1>15

-----------------------------------------------------------------------------
LEMMA Initially ==
    ASSUME PushInit
    PROVE  IInv /\ Log!Init
  <1>1. Typed
    <2>1. << >> \in Orders
      BY DEF Orders, InOrder
    <2>2. operations \in [Op -> Row]
      BY DEF PushInit, Row, Payload
    <2>3. replays \in [Replay -> Request]
      BY <2>1 DEF PushInit, Request, Phase, Payload, Told
    <2> QED
      BY <2>2, <2>3 DEF PushInit, Typed
  <1>2. \A r \in Replay : /\ replays[r].phase = "idle" /\ replays[r].index = 1
                          /\ \A op \in Op : replays[r].told[op] = "nothing"
    BY DEF PushInit
  <1>3. \A r \in Replay : Unanswered(replays[r])
    BY <1>2 DEF Unanswered, AtWork
  <1>4. Alone /\ AnswersTrue /\ Ready
    BY <1>2 DEF Alone, AnswersTrue, Ready, Holds, Applied
  <1>5. Acknowledged = {}
    BY <1>2 DEF Acknowledged
  <1>6. Outcomes = [op \in Op |-> "NONE"] /\ effects = [op \in Op |-> 0]
    BY DEF PushInit, Outcomes
  <1> QED
    BY <1>1, <1>3, <1>4, <1>5, <1>6 DEF IInv, Log!Init

LEMMA Stepping ==
    ASSUME IInv, [SyncNext]_pushVars
    PROVE  IInv' /\ [Log!Next]_Log!logVars
  <1>1. CASE UNCHANGED <<operations, replays, effects>>
    BY <1>1 DEF IInv, Typed, Alone, AnswersTrue, Ready, Current, Outcomes, Acknowledged,
                Log!logVars
  <1>2. ASSUME NEW r \in Replay,
               SubmitReplay(r) \/ FailReplay(r) \/ FinishReplay(r) \/ ApplyOperation(r)
        PROVE  IInv' /\ [Log!Next]_Log!logVars
    BY <1>2, Submitting, Failing, Finishing, Applying DEF Log!logVars
  <1>3. ASSUME NEW r \in Replay, StartOperation(r)
        PROVE  IInv' /\ [Log!Next]_Log!logVars
    <2>1. Current(r) \in Op
      BY <1>3, CurrentIsOperation DEF StartOperation, AtWork
    <2>2. Log!Acknowledge(r, Current(r)) \/ UNCHANGED <<Outcomes, effects, Acknowledged>>
      BY <1>3, Starting DEF Log!Acknowledge
    <2> QED
      BY <1>3, <2>1, <2>2, Starting DEF Log!Next, Log!logVars
  <1>4. ASSUME NEW r \in Replay, CompleteOperation(r)
        PROVE  IInv' /\ [Log!Next]_Log!logVars
    <2>1. Current(r) \in Op
      BY <1>4, CurrentIsOperation DEF CompleteOperation, AtWork
    <2> QED
      BY <1>4, <2>1, Completing DEF Log!Next
  <1> QED
    BY <1>1, <1>2, <1>3, <1>4 DEF SyncNext, ReplayStep, pushVars

\* The replay of offline operations, by any number of requests that may fail anywhere,
\* is one log of operations: each is applied at most once, after those it depends on,
\* and nobody is told otherwise (pushSync/api/router.ts).
THEOREM ReplayIsLog == Spec => ImplementsLog
  <1>1. PushInit => IInv /\ Log!Init
    BY Initially
  <1>2. IInv /\ [SyncNext]_pushVars => IInv' /\ [Log!Next]_Log!logVars
    BY Stepping
  <1> QED
    BY <1>1, <1>2, PTL DEF Spec, ImplementsLog, Log!Spec

-----------------------------------------------------------------------------
(***************************************************************************)
(* What a device is told.  A request that goes on has answered everything  *)
(* before its current operation, and has met no failure if failures halt   *)
(* it; an answer it gave came with the payload it carries, and the log     *)
(* never takes an applied operation back.                                  *)
(***************************************************************************)
Progress(p) ==
    /\ AtWork(p) => \A i \in 1..(p.index - 1) : p.told[p.ops[i]] # "nothing"
    /\ AtWork(p) /\ p.halt => \A op \in Op : p.told[op] # "FAILED"
    /\ \A i, j \in DOMAIN p.ops : i < j /\ p.halt /\ p.told[p.ops[i]] = "FAILED" =>
            p.told[p.ops[j]] = "nothing"
    /\ p.phase = "finish" => \/ \E op \in Op : p.told[op] = "FAILED"
                             \/ \A i \in DOMAIN p.ops : p.told[p.ops[i]] # "nothing"

PayloadsTrue ==
    \A r \in Replay : \A op \in Op :
        replays[r].told[op] \in Applied => operations[op].payload = replays[r].payload

BatchesTrue ==
    /\ DOMAIN batches = Replay
    /\ \A r \in Replay : batches[r] = "COMPLETED" =>
        /\ replays[r].phase = "answered"
        /\ \A i \in DOMAIN replays[r].ops : replays[r].told[replays[r].ops[i]] \in Applied

ResultsInv ==
    /\ IInv
    /\ \A r \in Replay : Progress(replays[r])
    /\ PayloadsTrue /\ BatchesTrue

LEMMA ResultsFollow == ResultsInv => ResultsAreTrue
  <1> SUFFICES ASSUME ResultsInv, NEW r \in Replay
               PROVE  LET p == replays[r] IN
                      /\ \A op \in Op : p.told[op] \in {"APPLIED", "DUPLICATE"} =>
                            operations[op] = [status |-> "APPLIED", payload |-> p.payload]
                      /\ \A i, j \in DOMAIN p.ops :
                            i < j /\ p.halt /\ p.told[p.ops[i]] = "FAILED" =>
                                p.told[p.ops[j]] = "nothing"
                      /\ batches[r] = "COMPLETED" =>
                            \A i \in DOMAIN p.ops : operations[p.ops[i]].status = "APPLIED"
    BY DEF ResultsAreTrue
  <1>1. replays[r] \in Request /\ operations \in [Op -> Row]
    BY DEF ResultsInv, IInv, Typed
  <1>2. ASSUME NEW op \in Op, replays[r].told[op] \in Applied
        PROVE  operations[op] = [status |-> "APPLIED", payload |-> replays[r].payload]
    <2>1. operations[op].status = "APPLIED" /\ operations[op].payload = replays[r].payload
      BY <1>2 DEF ResultsInv, IInv, AnswersTrue, PayloadsTrue
    <2> QED
      BY <1>1, <2>1 DEF Row
  <1>3. \A i \in DOMAIN replays[r].ops : replays[r].ops[i] \in Op
    BY <1>1 DEF Request, Orders
  <1>4. batches[r] = "COMPLETED" =>
            \A i \in DOMAIN replays[r].ops : operations[replays[r].ops[i]].status = "APPLIED"
    BY <1>3 DEF ResultsInv, IInv, AnswersTrue, BatchesTrue
  <1> QED
    BY <1>2, <1>4 DEF ResultsInv, Progress, Applied

\* Steps of a request that answer nothing.
Alike(p, q) ==
    /\ q.told = p.told /\ q.ops = p.ops /\ q.index = p.index
    /\ q.payload = p.payload /\ q.halt = p.halt

LEMMA Silent ==
    ASSUME ResultsInv, IInv', NEW r \in Replay,
           replays \in [Replay -> Request], replays' \in [Replay -> Request],
           \A q \in Replay : q # r => replays'[q] = replays[q],
           Alike(replays[r], replays'[r]),
           AtWork(replays'[r]) => AtWork(replays[r]),
           replays'[r].phase # "finish", replays[r].phase # "answered",
           UNCHANGED operations,
           DOMAIN batches' = Replay,
           \A q \in Replay : q # r => batches'[q] = batches[q],
           batches'[r] = batches[r] \/ (batches'[r] = "COMPLETED" =>
               /\ replays'[r].phase = "answered"
               /\ \A i \in DOMAIN replays[r].ops : replays[r].told[replays[r].ops[i]] \in Applied)
    PROVE  ResultsInv'
  <1>1. \A q \in Replay : Progress(replays'[q])
    BY DEF ResultsInv, Progress, AtWork, Alike
  <1>2. PayloadsTrue'
    <2>1. \A q \in Replay : replays'[q].told = replays[q].told
                         /\ replays'[q].payload = replays[q].payload
      BY DEF Alike
    <2> QED
      BY <2>1 DEF ResultsInv, PayloadsTrue
  <1>3. BatchesTrue'
    BY DEF ResultsInv, BatchesTrue, Alike
  <1> QED
    BY <1>1, <1>2, <1>3 DEF ResultsInv

\* The answers of a step that tells: one more, in its place.
LEMMA ToldProgress ==
    ASSUME ResultsInv, NEW r \in Replay, AtWork(replays[r]),
           NEW result \in Told \ {"nothing"}, Tells(r, result)
    PROVE  Progress(replays'[r])
  <1> DEFINE p == replays[r]
             q == replays'[r]
  <1>1. p \in Request /\ Unanswered(p) /\ Progress(p) /\ Current(r) \in Op
    BY CurrentIsOperation DEF ResultsInv, IInv, Typed
  <1>2. /\ q.told = [p.told EXCEPT ![Current(r)] = result]
        /\ Continues(p, q, result) /\ q \in Request
    BY Telling DEF ResultsInv
  <1>3. Current(r) = p.ops[p.index]
    BY DEF Current
  <1>4. /\ p.ops \in Seq(Op) /\ InOrder(p.ops) /\ p.told \in [Op -> Told]
        /\ p.index \in 1..Len(p.ops) /\ q.ops = p.ops /\ q.halt = p.halt
    BY <1>1, <1>2 DEF Request, Orders, Unanswered, Continues
  <1> HIDE DEF p, q
  <1>5. ASSUME NEW i \in DOMAIN p.ops
        PROVE  /\ p.ops[i] \in Op
               /\ q.told[p.ops[i]] = IF i = p.index THEN result ELSE p.told[p.ops[i]]
    <2>1. p.ops[i] \in Op /\ (i # p.index => p.ops[i] # p.ops[p.index])
      BY <1>4 DEF InOrder
    <2> QED
      BY <1>2, <1>3, <1>4, <2>1
  <1>6. \A op \in Op : q.told[op] = IF op = Current(r) THEN result ELSE p.told[op]
    BY <1>2, <1>4
  <1>7. \A i \in 1..(p.index - 1) : p.told[p.ops[i]] # "nothing"
    BY <1>1 DEF Progress, AtWork, p
  <1>8. p.halt => \A op \in Op : p.told[op] # "FAILED"
    BY <1>1 DEF Progress, AtWork, p
  <1>9. \A i \in p.index..Len(p.ops) : p.told[p.ops[i]] = "nothing"
    BY <1>1 DEF Unanswered, p
  <1>10. DOMAIN p.ops = 1..Len(p.ops)
    BY <1>4
  <1>11. AtWork(q) => \A i \in 1..(q.index - 1) : q.told[q.ops[i]] # "nothing"
    BY <1>2, <1>4, <1>5, <1>7, <1>10 DEF Continues, AtWork
  <1>12. AtWork(q) /\ q.halt => \A op \in Op : q.told[op] # "FAILED"
    BY <1>2, <1>4, <1>6, <1>8 DEF Continues, AtWork
  <1>13. ASSUME NEW i \in DOMAIN p.ops, NEW j \in DOMAIN p.ops, i < j, q.halt,
                q.told[p.ops[i]] = "FAILED"
         PROVE  q.told[p.ops[j]] = "nothing"
    <2>1. i = p.index
      BY <1>4, <1>5, <1>8, <1>13
    <2>2. j \in p.index..Len(p.ops) /\ j # p.index
      BY <1>4, <1>10, <1>13, <2>1
    <2> QED
      BY <1>5, <1>9, <2>2
  <1>14. q.phase = "finish" => \/ \E op \in Op : q.told[op] = "FAILED"
                               \/ \A i \in DOMAIN q.ops : q.told[q.ops[i]] # "nothing"
    <2>1. CASE result = "FAILED"
      BY <1>1, <1>6, <2>1
    <2>2. CASE result # "FAILED" /\ q.phase = "finish"
      <3>1. p.index = Len(p.ops)
        BY <1>2, <2>2 DEF Continues
      <3> QED
        BY <1>4, <1>5, <1>7, <1>10, <3>1
    <2> QED
      BY <2>1, <2>2
  <1>15. Progress(q)
    BY <1>4, <1>11, <1>12, <1>13, <1>14 DEF Progress
  <1> QED
    BY <1>15 DEF q

\* An answer that leaves the row as it is, or the first and last one to write it.
LEMMA ToldResults ==
    ASSUME ResultsInv, IInv', NEW r \in Replay, AtWork(replays[r]),
           NEW result \in Told \ {"nothing"}, Tells(r, result), UNCHANGED batches,
           operations \in [Op -> Row], operations' \in [Op -> Row],
           \A op \in Op : operations'[op] = operations[op] \/ operations[op].status = "NONE",
           result \in Applied => operations'[Current(r)].payload = replays[r].payload
    PROVE  ResultsInv'
  <1>1. /\ \A q \in Replay : q # r => replays'[q] = replays[q]
        /\ replays'[r].told = [replays[r].told EXCEPT ![Current(r)] = result]
        /\ replays'[r].payload = replays[r].payload
        /\ replays[r].told \in [Op -> Told] /\ Current(r) \in Op
    BY Telling, CurrentIsOperation DEF ResultsInv, Continues, IInv, Typed, Request
  <1>2. \A q \in Replay : Progress(replays'[q])
    BY <1>1, ToldProgress DEF ResultsInv
  <1>3. PayloadsTrue'
    <2>1. ASSUME NEW q \in Replay, NEW op \in Op, replays'[q].told[op] \in Applied
          PROVE  operations'[op].payload = replays'[q].payload
      <3>1. CASE q = r /\ op = Current(r)
        BY <1>1, <2>1, <3>1
      <3>2. CASE ~(q = r /\ op = Current(r))
        <4>1. replays'[q].told[op] = replays[q].told[op] /\ replays'[q].payload = replays[q].payload
          BY <1>1, <3>2
        <4>2. operations[op].status = "APPLIED" /\ operations[op].payload = replays[q].payload
          BY <2>1, <4>1 DEF ResultsInv, IInv, AnswersTrue, PayloadsTrue
        <4> QED
          BY <4>1, <4>2
      <3> QED
        BY <3>1, <3>2
    <2> QED
      BY <2>1 DEF PayloadsTrue
  <1>4. BatchesTrue'
    BY <1>1 DEF ResultsInv, BatchesTrue, AtWork
  <1> QED
    BY <1>2, <1>3, <1>4 DEF ResultsInv

\* The status a batch ends with, of answers that are all in or end in a failure.
LEMMA CompletedIsApplied ==
    ASSUME ResultsInv, NEW r \in Replay, replays[r].phase = "finish",
           FinalStatus(replays[r].told) = "COMPLETED"
    PROVE  \A i \in DOMAIN replays[r].ops : replays[r].told[replays[r].ops[i]] \in Applied
  <1> DEFINE p == replays[r]
  <1>1. p \in Request /\ Progress(p)
    BY DEF ResultsInv, IInv, Typed
  <1>2. p.told \in [Op -> Told] /\ p.ops \in Seq(Op)
    BY <1>1 DEF Request, Orders
  <1>3. \A op \in Op : p.told[op] # "FAILED"
    BY <1>2 DEF FinalStatus, Range
  <1>4. \A i \in DOMAIN p.ops : p.told[p.ops[i]] # "nothing" /\ p.ops[i] \in Op
    BY <1>1, <1>2, <1>3 DEF Progress
  <1> QED
    BY <1>2, <1>3, <1>4 DEF Told, Applied

LEMMA ResultsStep ==
    ASSUME ResultsInv, IInv', [SyncNext]_pushVars
    PROVE  ResultsInv'
  <1>1. /\ replays \in [Replay -> Request] /\ replays' \in [Replay -> Request]
        /\ operations \in [Op -> Row] /\ operations' \in [Op -> Row]
        /\ DOMAIN batches = Replay
    BY DEF ResultsInv, IInv, Typed, BatchesTrue
  <1>2. CASE UNCHANGED <<operations, batches, replays, effects>>
    BY <1>2 DEF ResultsInv, PayloadsTrue, BatchesTrue
  <1>3. ASSUME NEW r \in Replay, SubmitReplay(r) PROVE ResultsInv'
    <2>1. PICK ops \in Operations, payload \in Payload, halt \in BOOLEAN :
            replays' = [replays EXCEPT ![r].phase = "start", ![r].ops = ops,
                                       ![r].payload = payload, ![r].halt = halt]
      BY <1>3 DEF SubmitReplay
    <2>2. /\ replays[r].phase = "idle" /\ replays[r].index = 1
          /\ \A op \in Op : replays[r].told[op] = "nothing"
      BY <1>3 DEF SubmitReplay, ResultsInv, IInv, Unanswered
    <2>3. /\ \A q \in Replay : q # r => replays'[q] = replays[q]
          /\ replays'[r].told = replays[r].told /\ replays'[r].ops = ops
          /\ replays'[r].phase = "start" /\ replays'[r].index = 1
      BY <1>1, <2>1, <2>2 DEF Request
    <2>4. \A i \in DOMAIN ops : ops[i] \in Op
      BY OrdersAreSequences DEF Orders
    <2>5. \A q \in Replay : Progress(replays'[q])
      BY <2>2, <2>3, <2>4 DEF ResultsInv, Progress, AtWork
    <2>6. PayloadsTrue'
      <3>1. \A op \in Op : replays'[r].told[op] \notin Applied
        BY <2>2, <2>3 DEF Applied
      <3>2. UNCHANGED operations
        BY <1>3 DEF SubmitReplay
      <3> QED
        BY <2>3, <3>1, <3>2 DEF ResultsInv, PayloadsTrue
    <2>7. BatchesTrue'
      BY <1>1, <1>3, <2>2, <2>3 DEF SubmitReplay, ResultsInv, BatchesTrue
    <2> QED
      BY <2>5, <2>6, <2>7 DEF ResultsInv
  <1>4. ASSUME NEW r \in Replay, FailReplay(r) PROVE ResultsInv'
    <2>1. /\ Alike(replays[r], replays'[r]) /\ replays'[r].phase = "error"
          /\ \A q \in Replay : q # r => replays'[q] = replays[q]
      BY <1>1, <1>4 DEF FailReplay, Request, Alike
    <2> QED
      BY <1>1, <1>4, <2>1, Silent DEF FailReplay, AtWork
  <1>5. ASSUME NEW r \in Replay, ApplyOperation(r) PROVE ResultsInv'
    <2>1. PICK outcome \in {"APPLIED", "FAILED"} :
            replays' = [replays EXCEPT ![r].phase = "complete", ![r].outcome = outcome]
      BY <1>5 DEF ApplyOperation, Outcome
    <2>2. /\ Alike(replays[r], replays'[r]) /\ replays'[r].phase = "complete"
          /\ \A q \in Replay : q # r => replays'[q] = replays[q]
      BY <1>1, <2>1 DEF Request, Alike
    <2> QED
      BY <1>1, <1>5, <2>2, Silent DEF ApplyOperation, AtWork
  <1>6. ASSUME NEW r \in Replay, FinishReplay(r) PROVE ResultsInv'
    <2>1. batches'[r] = FinalStatus(replays[r].told)
      BY <1>1, <1>6 DEF FinishReplay
    <2>2. batches'[r] = "COMPLETED" =>
            \A i \in DOMAIN replays[r].ops : replays[r].told[replays[r].ops[i]] \in Applied
      BY <1>6, <2>1, CompletedIsApplied DEF FinishReplay
    <2>3. /\ Alike(replays[r], replays'[r]) /\ replays'[r].phase = "answered"
          /\ \A q \in Replay : q # r => replays'[q] = replays[q] /\ batches'[q] = batches[q]
          /\ replays[r].phase = "finish" /\ UNCHANGED operations /\ DOMAIN batches' = Replay
      BY <1>1, <1>6 DEF FinishReplay, Request, Alike
    <2> QED
      BY <1>1, <2>2, <2>3, Silent DEF AtWork
  <1>7. ASSUME NEW r \in Replay, StartOperation(r) PROVE ResultsInv'
    <2> DEFINE row == operations[Current(r)]
    <2>1. /\ AtWork(replays[r]) /\ UNCHANGED <<operations, batches>>
          /\ replays[r].phase = "start"
      BY <1>7 DEF StartOperation, AtWork
    <2>2. CASE replays' = [replays EXCEPT ![r].phase = "apply"]
      <3>1. /\ Alike(replays[r], replays'[r]) /\ replays'[r].phase = "apply"
            /\ \A q \in Replay : q # r => replays'[q] = replays[q]
        BY <1>1, <2>2 DEF Request, Alike
      <3> QED
        BY <1>1, <2>1, <3>1, Silent DEF AtWork
    <2>3. CASE Tells(r, ExistingResult(r, row))
      <3>1. /\ ExistingResult(r, row) \in Told \ {"nothing"}
            /\ ExistingResult(r, row) \in Applied => row.payload = replays[r].payload
        BY DEF ExistingResult, Told, Applied
      <3> QED
        BY <1>1, <2>1, <2>3, <3>1, ToldResults
    <2> QED
      BY <1>7, <2>2, <2>3 DEF StartOperation
  <1>8. ASSUME NEW r \in Replay, CompleteOperation(r) PROVE ResultsInv'
    <2>1. /\ AtWork(replays[r]) /\ Holds(replays[r]) /\ UNCHANGED batches
          /\ replays[r].outcome \in {"APPLIED", "FAILED"} /\ Tells(r, replays[r].outcome)
          /\ operations' = [operations EXCEPT ![Current(r)] =
                [status |-> replays[r].outcome, payload |-> replays[r].payload]]
      BY <1>1, <1>8 DEF CompleteOperation, AtWork, Holds, Request
    <2>2. operations[Current(r)].status = "NONE" /\ Current(r) \in Op
      BY <2>1, CurrentIsOperation DEF ResultsInv, IInv, Alone
    <2>3. operations'[Current(r)].payload = replays[r].payload
      BY <1>1, <2>1, <2>2
    <2>4. \A op \in Op : operations'[op] = operations[op] \/ operations[op].status = "NONE"
      BY <1>1, <2>1, <2>2
    <2>5. replays[r].outcome \in Told \ {"nothing"}
      BY <2>1 DEF Told
    <2> QED
      BY <1>1, <2>1, <2>3, <2>4, <2>5, ToldResults
  <1> QED
    BY <1>2, <1>3, <1>4, <1>5, <1>6, <1>7, <1>8 DEF SyncNext, ReplayStep, pushVars

LEMMA ResultsInit == PushInit => ResultsInv
  <1> SUFFICES ASSUME PushInit PROVE ResultsInv
    OBVIOUS
  <1>1. \A r \in Replay : /\ replays[r].phase = "idle" /\ replays[r].ops = << >>
                          /\ batches[r] = "NONE"
                          /\ \A op \in Op : replays[r].told[op] = "nothing"
    BY DEF PushInit
  <1>2. \A r \in Replay : Progress(replays[r])
    BY <1>1 DEF Progress, AtWork
  <1>3. PayloadsTrue /\ BatchesTrue
    BY <1>1 DEF PayloadsTrue, BatchesTrue, Applied, PushInit
  <1> QED
    BY <1>2, <1>3, Initially DEF ResultsInv

\* What a device is told of an operation is what is recorded, with the payload it sent;
\* nothing follows a failure that halts, and a batch is COMPLETED only when every one
\* of its operations has been applied, however requests overlap and wherever they die
\* (pushSync/api/router.ts: handleReplay, pushSync/app/service.ts: finalizeBatch).
THEOREM ResultsStay == Spec => []ResultsAreTrue
  <1>1. PushInit => ResultsInv
    BY ResultsInit
  <1>2. ResultsInv /\ [SyncNext]_pushVars => ResultsInv'
    BY Stepping, ResultsStep DEF ResultsInv
  <1>3. ResultsInv => ResultsAreTrue
    BY ResultsFollow
  <1> QED
    BY <1>1, <1>2, <1>3, PTL DEF Spec

-----------------------------------------------------------------------------
(***************************************************************************)
(* The feed.  Numbers are given out in order, so below a number that is in *)
(* use none is unused: whatever is not committed there when a device reads *)
(* past it was open (and is remembered in overtaken) or is gone for good.  *)
(* A page holds every committed change up to its last one.                 *)
(***************************************************************************)
LEMMA NextIsGreatest ==
    ASSUME NEW start \in 0..MaxSequence, NEW page \in SUBSET Sequence
    PROVE  /\ NextCursor(start, page) \in {start} \cup page
           /\ \A s \in page : s <= NextCursor(start, page)
  <1>1. /\ {start} \cup page \in SUBSET Nat /\ MaxSequence \in Nat
        /\ \A x \in {start} \cup page : x <= MaxSequence
    BY PushAssumption DEF Sequence
  <1> QED
    BY <1>1, MaxIsGreatest DEF NextCursor

\* Whoever is among the first n has everybody before it there too.
LEMMA PageIsPrefix ==
    ASSUME NEW set \in SUBSET Sequence, NEW n \in Nat,
           NEW t \in FirstOf(set, n), NEW s \in set, s <= t
    PROVE  s \in FirstOf(set, n)
  <1> DEFINE Upto(x) == {y \in set : y <= x}
  <1>1. IsFiniteSet(Sequence)
    BY FS_Interval, PushAssumption DEF Sequence
  <1>2. IsFiniteSet(Upto(t)) /\ Upto(s) \subseteq Upto(t)
    <2>1. set \subseteq Int /\ t \in Int /\ s \in Int
      BY DEF Sequence, FirstOf
    <2> HIDE DEF Sequence
    <2>2. \A y \in set : y <= s => y <= t
      BY <2>1
    <2>3. Upto(s) \subseteq Upto(t)
      BY <2>2
    <2> QED
      BY <1>1, <2>3, FS_Subset
  <1>3. IsFiniteSet(Upto(s)) /\ Cardinality(Upto(s)) <= Cardinality(Upto(t))
    BY <1>2, FS_Subset
  <1>4. Cardinality(Upto(t)) <= n
    BY DEF FirstOf
  <1>5. Cardinality(Upto(s)) \in Nat /\ Cardinality(Upto(t)) \in Nat
    BY <1>2, <1>3, FS_CardinalityType
  <1>6. Cardinality(Upto(s)) <= n
    BY <1>3, <1>4, <1>5
  <1> QED
    BY <1>6 DEF FirstOf

\* What one may say of a cursor: it lies behind numbers that are given out, and what was
\* open there is remembered, what is committed is had.
Passed(d, cursor, has) ==
    \A s \in Sequence : s <= cursor =>
        /\ changes[s] # Unused
        /\ changes[s].status = "open" => s \in overtaken[d]
        /\ changes[s].status = "committed" => s \in has \cup overtaken[d]

InUse == \A s, t \in Sequence : t < s /\ changes[s] # Unused => changes[t] # Unused

FeedInv ==
    /\ PullTypeOK /\ InUse
    /\ \A d \in Device \ Named :
        /\ Passed(d, cursors[d], received[d])
        /\ Passed(d, answers[d].next, received[d] \cup answers[d].page)

LEMMA FeedFollows == FeedInv => NoChangeSkipped
  BY DEF FeedInv, Passed, NoChangeSkipped

LEMMA FeedInit == PushInit => FeedInv
  <1> SUFFICES ASSUME PullInit PROVE FeedInv
    BY DEF PushInit
  <1>1. MaxSequence \in Nat
    BY PushAssumption
  <1>2. PullTypeOK
    BY <1>1 DEF PullInit, PullTypeOK, NoAnswer, NoCursor, ChangeRow, Unused
  <1>3. InUse
    BY DEF PullInit, InUse
  <1>4. \A d \in Device : ~\E s \in Sequence : s <= cursors[d] \/ s <= answers[d].next
    BY <1>1 DEF PullInit, NoAnswer, NoCursor, Sequence
  <1> QED
    BY <1>2, <1>3, <1>4 DEF FeedInv, Passed

-----------------------------------------------------------------------------
\* A row of the feed goes from unused to open to one of its ends.
LEMMA RowsAdvance ==
    ASSUME FeedInv, PullTypeOK', InUse',
           UNCHANGED <<cursors, received, answers, overtaken>>,
           \A s \in Sequence :
               \/ changes'[s] = changes[s] \/ changes[s] = Unused
               \/ changes[s].status = "open" /\ changes'[s] # Unused
                                             /\ changes'[s].status # "open"
    PROVE  FeedInv'
  <1>1. ASSUME NEW d \in Device, NEW cursor, NEW has, Passed(d, cursor, has)
        PROVE  \A s \in Sequence : s <= cursor =>
                    /\ changes'[s] # Unused
                    /\ changes'[s].status = "open" => s \in overtaken[d]
                    /\ changes'[s].status = "committed" => s \in has \cup overtaken[d]
    BY <1>1 DEF Passed
  <1> QED
    BY <1>1 DEF FeedInv, Passed

LEMMA Appending ==
    ASSUME FeedInv, NEW w \in Replay, AppendChange(w)
    PROVE  FeedInv'
  <1> DEFINE new == Min(Free)
  <1>1. MaxSequence \in Nat /\ Free # {} /\ Free \subseteq Sequence /\ Sequence \in SUBSET Nat
    BY PushAssumption DEF AppendChange, Free, Sequence
  <1>2. new \in Free /\ \A s \in Free : new <= s
    BY <1>1, MinIsLeast
  <1> HIDE DEF new
  <1>3. /\ changes \in [Sequence -> ChangeRow]
        /\ changes' = [changes EXCEPT ![new] = [status |-> "open", by |-> {w}]]
        /\ UNCHANGED <<checkpoints, cursors, received, answers, overtaken>>
    BY DEF AppendChange, FeedInv, PullTypeOK, new
  <1>4. [status |-> "open", by |-> {w}] \in ChangeRow /\ [status |-> "open", by |-> {w}] # Unused
    BY DEF ChangeRow, Unused
  <1>5. changes' \in [Sequence -> ChangeRow] /\ new \in Sequence /\ changes'[new] # Unused
        /\ \A s \in Sequence : s # new => changes'[s] = changes[s]
    BY <1>1, <1>2, <1>3, <1>4
  <1>6. PullTypeOK'
    BY <1>3, <1>5 DEF FeedInv, PullTypeOK
  <1>7. InUse'
    <2> SUFFICES ASSUME NEW s \in Sequence, NEW t \in Sequence, t < s, changes'[s] # Unused
                 PROVE  changes'[t] # Unused
      BY DEF InUse
    <2>1. s \in Nat /\ t \in Nat /\ new \in Nat
      BY <1>1, <1>5
    <2>2. CASE s = new
      BY <1>2, <1>5, <2>1, <2>2 DEF Free
    <2>3. CASE s # new
      BY <1>5, <2>3 DEF FeedInv, InUse
    <2> QED
      BY <2>2, <2>3
  <1>8. changes[new] = Unused
    BY <1>2 DEF Free
  <1> QED
    BY <1>3, <1>5, <1>6, <1>7, <1>8, RowsAdvance

LEMMA Ending ==
    ASSUME FeedInv, NEW w \in Replay, NEW status \in {"committed", "gone"}, EndChanges(w, status)
    PROVE  FeedInv'
  <1>1. /\ changes \in [Sequence -> ChangeRow]
        /\ changes' = [s \in Sequence |->
                        IF changes[s].status = "open" /\ changes[s].by = {w}
                        THEN [changes[s] EXCEPT !.status = status] ELSE changes[s]]
        /\ UNCHANGED <<checkpoints, cursors, received, answers, overtaken>>
    BY DEF EndChanges, FeedInv, PullTypeOK
  <1>2. ASSUME NEW s \in Sequence
        PROVE  /\ changes'[s] \in ChangeRow
               /\ \/ changes'[s] = changes[s]
                  \/ /\ changes[s].status = "open" /\ changes[s] # Unused
                     /\ changes'[s] # Unused /\ changes'[s].status # "open"
    <2>1. CASE changes[s].status = "open" /\ changes[s].by = {w}
      <3>1. changes'[s] = [changes[s] EXCEPT !.status = status]
        BY <1>1, <2>1
      <3>2. changes[s] \in [status : {"open", "committed", "gone"}, by : {{x} : x \in Replay}]
        BY <1>1, <2>1 DEF ChangeRow, Unused
      <3>3. changes'[s] = [status |-> status, by |-> changes[s].by]
        BY <3>1, <3>2
      <3> QED
        BY <2>1, <3>2, <3>3 DEF ChangeRow, Unused
    <2>2. CASE ~(changes[s].status = "open" /\ changes[s].by = {w})
      BY <1>1, <2>2
    <2> QED
      BY <2>1, <2>2
  <1>3. PullTypeOK'
    BY <1>1, <1>2 DEF FeedInv, PullTypeOK
  <1>4. InUse'
    BY <1>2 DEF FeedInv, InUse
  <1> QED
    BY <1>1, <1>2, <1>3, <1>4, RowsAdvance

-----------------------------------------------------------------------------
\* A device reads a page: all that is committed up to its last change is in it.
LEMMA Pulling ==
    ASSUME FeedInv, NEW d \in Device, Pull(d)
    PROVE  FeedInv'
  <1> DEFINE start == StartOf(d)
             page == FirstOf(After(start), PageSize)
             next == NextCursor(start, page)
             passedBy == {s \in Sequence : s <= next /\ changes[s].status = "open"}
  <1>1. MaxSequence \in Nat /\ PageSize \in Nat /\ PullTypeOK /\ InUse
    BY PushAssumption DEF FeedInv
  <1>2. /\ answers' = [answers EXCEPT ![d] = [page |-> page, next |-> next]]
        /\ checkpoints' = [c \in Named |-> IF c = d THEN next ELSE checkpoints[c]]
        /\ overtaken' = [overtaken EXCEPT ![d] = @ \cup passedBy]
        /\ UNCHANGED <<changes, cursors, received>>
    BY DEF Pull
  <1>3. start \in 0..MaxSequence
    BY <1>1 DEF StartOf, PullTypeOK, NoCursor
  <1>4. After(start) \in SUBSET Sequence /\ page \subseteq After(start)
    BY DEF After, FirstOf
  <1> HIDE DEF start
  <1>5. /\ next \in {start} \cup page /\ \A s \in page : s <= next
        /\ next \in 0..MaxSequence
    <2>1. next \in {start} \cup page /\ \A s \in page : s <= next
      BY <1>3, <1>4, NextIsGreatest
    <2>2. page \subseteq 0..MaxSequence
      BY <1>1, <1>4 DEF Sequence
    <2> QED
      BY <1>3, <2>1, <2>2
  <1>6. ASSUME NEW s \in Sequence, s <= next, ~(s <= start)
        PROVE  /\ changes[s] # Unused
               /\ changes[s].status = "committed" => s \in page
    <2>1. s \in Nat /\ start \in Nat /\ next \in page /\ next \in After(start)
      BY <1>1, <1>3, <1>4, <1>5, <1>6 DEF Sequence
    <2>2. changes[next].status = "committed" /\ next \in Sequence
      BY <2>1 DEF After
    <2>3. changes[next] # Unused /\ next \in Nat
      BY <1>1, <2>2 DEF Unused, Sequence
    <2>4. changes[s] # Unused
      BY <1>1, <1>6, <2>1, <2>2, <2>3 DEF InUse
    <2>5. changes[s].status = "committed" => s \in After(start)
      BY <1>3, <1>6, <2>1 DEF After
    <2>6. changes[s].status = "committed" => s \in page
      BY <1>1, <1>4, <1>6, <2>1, <2>5, PageIsPrefix
    <2> QED
      BY <2>4, <2>6
  <1> HIDE DEF page, next, passedBy
  <1>7. overtaken \in [Device -> SUBSET Sequence] /\ answers \in [Device ->
            [page : SUBSET Sequence, next : {NoCursor} \cup 0..MaxSequence]]
    BY <1>1 DEF PullTypeOK
  <1>8. passedBy \subseteq Sequence
    BY DEF passedBy
  <1>9. /\ answers'[d] = [page |-> page, next |-> next]
        /\ overtaken'[d] = overtaken[d] \cup passedBy
        /\ \A e \in Device : e # d => answers'[e] = answers[e] /\ overtaken'[e] = overtaken[e]
    BY <1>2, <1>7
  <1>10. PullTypeOK'
    <2>1. answers' \in [Device -> [page : SUBSET Sequence, next : {NoCursor} \cup 0..MaxSequence]]
      BY <1>2, <1>4, <1>5, <1>7
    <2>2. overtaken' \in [Device -> SUBSET Sequence]
      BY <1>2, <1>7, <1>8
    <2>3. checkpoints' \in [Named -> 0..MaxSequence]
      BY <1>1, <1>2, <1>5 DEF PullTypeOK
    <2> QED
      BY <1>1, <1>2, <2>1, <2>2, <2>3 DEF PullTypeOK
  <1>11. InUse'
    BY <1>1, <1>2 DEF InUse
  <1>12. ASSUME NEW e \in Device \ Named
         PROVE  /\ Passed(e, cursors[e], received[e])'
                /\ Passed(e, answers[e].next, received[e] \cup answers[e].page)'
    <2>1. /\ Passed(e, cursors[e], received[e])
          /\ Passed(e, answers[e].next, received[e] \cup answers[e].page)
      BY DEF FeedInv
    <2>2. CASE e # d
      BY <1>2, <1>9, <2>1, <2>2 DEF Passed
    <2>3. CASE e = d
      <3>1. Passed(d, cursors[d], received[d])'
        BY <1>2, <1>9, <2>1, <2>3 DEF Passed
      <3>2. ASSUME NEW s \in Sequence, s <= start
            PROVE  s <= cursors[d]
        <4>1. start = IF cursors[d] # NoCursor THEN cursors[d] ELSE 0
          BY <2>3 DEF start, StartOf
        <4> QED
          BY <1>1, <3>2, <4>1 DEF Sequence
      <3>3. ASSUME NEW s \in Sequence, s <= next
            PROVE  /\ changes[s] # Unused
                   /\ changes[s].status = "open" => s \in overtaken[d] \cup passedBy
                   /\ changes[s].status = "committed" =>
                          s \in (received[d] \cup page) \cup (overtaken[d] \cup passedBy)
        <4>1. CASE s <= start
          BY <2>1, <2>3, <3>2, <4>1 DEF Passed
        <4>2. CASE ~(s <= start)
          BY <1>6, <3>3, <4>2 DEF passedBy
        <4> QED
          BY <4>1, <4>2
      <3> QED
        BY <1>2, <1>9, <2>3, <3>1, <3>3 DEF Passed
    <2> QED
      BY <2>2, <2>3
  <1> QED
    BY <1>10, <1>11, <1>12 DEF FeedInv

\* The device takes the page in, or loses it, or forgets what it had.
LEMMA Taking ==
    ASSUME FeedInv, NEW d \in Device, Receive(d) \/ LoseAnswer(d) \/ Reset(d)
    PROVE  FeedInv'
  <1>1. /\ cursors \in [Device -> {NoCursor} \cup 0..MaxSequence]
        /\ received \in [Device -> SUBSET Sequence]
        /\ answers \in [Device -> [page : SUBSET Sequence, next : {NoCursor} \cup 0..MaxSequence]]
        /\ UNCHANGED <<changes, checkpoints, overtaken>>
    BY DEF FeedInv, PullTypeOK, Receive, LoseAnswer, Reset
  <1>2. /\ NoAnswer \in [page : SUBSET Sequence, next : {NoCursor} \cup 0..MaxSequence]
        /\ NoAnswer.next = NoCursor
    BY DEF NoAnswer
  <1>3. \A s \in Sequence : ~(s <= NoCursor)
    BY PushAssumption DEF Sequence, NoCursor
  <1>4. /\ cursors'[d] \in {cursors[d], NoCursor, answers[d].next}
        /\ \/ cursors'[d] = cursors[d] /\ received'[d] = received[d]
           \/ cursors'[d] = NoCursor
           \/ cursors'[d] = answers[d].next /\ received'[d] = received[d] \cup answers[d].page
        /\ answers'[d] = NoAnswer
        /\ \A e \in Device : e # d => /\ cursors'[e] = cursors[e] /\ received'[e] = received[e]
                                      /\ answers'[e] = answers[e]
    BY <1>1 DEF Receive, LoseAnswer, Reset
  <1>5. PullTypeOK'
    <2>1. CASE Receive(d)
      BY <1>1, <1>2, <2>1 DEF FeedInv, PullTypeOK, Receive
    <2>2. CASE LoseAnswer(d)
      BY <1>1, <1>2, <2>2 DEF FeedInv, PullTypeOK, LoseAnswer
    <2>3. CASE Reset(d)
      BY <1>1, <1>2, <2>3 DEF FeedInv, PullTypeOK, Reset
    <2> QED
      BY <2>1, <2>2, <2>3
  <1>6. ASSUME NEW e \in Device \ Named
        PROVE  /\ Passed(e, cursors[e], received[e])'
               /\ Passed(e, answers[e].next, received[e] \cup answers[e].page)'
    <2>1. /\ Passed(e, cursors[e], received[e])
          /\ Passed(e, answers[e].next, received[e] \cup answers[e].page)
      BY DEF FeedInv
    <2>2. CASE e # d
      BY <1>1, <1>4, <2>1, <2>2 DEF Passed
    <2>3. CASE e = d
      <3>1. Passed(d, answers[d].next, received[d] \cup answers[d].page)'
        BY <1>2, <1>3, <1>4 DEF Passed
      <3>2. Passed(d, cursors[d], received[d])'
        BY <1>1, <1>3, <1>4, <2>1, <2>3 DEF Passed
      <3> QED
        BY <2>3, <3>1, <3>2
    <2> QED
      BY <2>2, <2>3
  <1> QED
    BY <1>1, <1>5, <1>6 DEF FeedInv, InUse

\* What the handlers do to the feed.
LEMMA FeedSteps ==
    ASSUME [SyncNext]_pushVars
    PROVE  \/ UNCHANGED feed
           \/ DeviceStep
           \/ \E r \in Replay : AppendChange(r) \/ CommitChanges(r) \/ RollbackChanges(r)
  BY DEF SyncNext, ReplayStep, pushVars, SubmitReplay, StartOperation, ApplyOperation,
         CompleteOperation, FailReplay, FinishReplay

LEMMA FeedStep ==
    ASSUME FeedInv, [SyncNext]_pushVars
    PROVE  FeedInv'
  <1>1. CASE UNCHANGED feed
    BY <1>1 DEF feed, FeedInv, PullTypeOK, InUse, Passed
  <1>2. CASE DeviceStep
    BY <1>2, Pulling, Taking DEF DeviceStep
  <1>3. ASSUME NEW r \in Replay, AppendChange(r) \/ CommitChanges(r) \/ RollbackChanges(r)
        PROVE  FeedInv'
    BY <1>3, Appending, Ending DEF CommitChanges, RollbackChanges
  <1> QED
    BY <1>1, <1>2, <1>3, FeedSteps

\* Of what was committed up to its cursor, a device that keeps its own cursor lacks only
\* what was not committed when it read past it, whatever answers are lost and however
\* often it starts again (pullSync/app/service.ts, sync/infra/repository.ts).
THEOREM CursorsStay == Spec => []NoChangeSkipped
  <1>1. PushInit => FeedInv
    BY FeedInit
  <1>2. FeedInv /\ [SyncNext]_pushVars => FeedInv'
    BY FeedStep
  <1>3. FeedInv => NoChangeSkipped
    BY FeedFollows
  <1> QED
    BY <1>1, <1>2, <1>3, PTL DEF Spec
=============================================================================
