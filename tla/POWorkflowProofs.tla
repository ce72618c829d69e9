-------------------------- MODULE POWorkflowProofs --------------------------
(***************************************************************************)
(* Theorems of POWorkflow for any number of requests at work at a time and *)
(* any number of shipments.                                                *)
(***************************************************************************)
EXTENDS POWorkflow, SequenceTheorems, TLAPS

---------------------------------------------------------------------------
(* Requests: starting one and ending one.                                  *)

LEMMA StartKeepsHolders ==
    ASSUME TypeOK, NEW r \in Requests, NEW op \in Ops, NEW u \in Roles,
           NEW t \in Statuses, NEW a \in 0 .. MaxShipments + 2,
           Start(r, op, u, t, a), op \notin {"received", "closing"},
           op = "file" => LoopFree
    PROVE  req' \in [Requests -> Request] /\ OneHolder'
<1>1. req' \in [Requests -> Request]
  BY DEF Start, TypeOK, Request
<1>2. OneHolder'
  BY DEF Start, TypeOK, Request, OneHolder, LoopFree
<1>. QED
  BY <1>1, <1>2

LEMMA FinishKeepsHolders ==
    ASSUME TypeOK, NEW r \in Requests, Finish(r)
    PROVE  req' \in [Requests -> Request] /\ OneHolder'
<1>1. Idle \in Request
  BY WorkflowAssumption DEF Idle, Request, Ops, Roles, Statuses
<1>2. req' \in [Requests -> Request]
  BY <1>1 DEF Finish, TypeOK
<1>3. OneHolder'
  BY DEF Finish, TypeOK, OneHolder, Idle
<1>. QED
  BY <1>2, <1>3

LEMMA WriteType ==
    ASSUME TypeOK, NEW r \in Requests, NEW t \in Statuses, Write(r, t)
    PROVE  status' \in Statuses /\ passed' \subseteq Gates
BY DEF TypeOK, Write

LEMMA InitType == Init => TypeOK
<1>. SUFFICES ASSUME Init PROVE TypeOK
  OBVIOUS
<1>1. Idle \in Request
  BY WorkflowAssumption DEF Idle, Request, Ops, Roles, Statuses
<1>2. <<>> \in Seq(BOOLEAN) /\ Len(<<>>) <= MaxShipments
  BY EmptySeq, WorkflowAssumption
<1>3. OneHolder
  BY DEF Init, OneHolder, Idle
<1>. QED
  BY <1>1, <1>2, <1>3 DEF Init, TypeOK, Statuses, Gates, Created, Duplicated, Adopted

LEMMA TypeStep == TypeOK /\ [Next]_vars => TypeOK'
<1>. SUFFICES ASSUME TypeOK, [Next]_vars PROVE TypeOK'
  OBVIOUS
<1>. USE WorkflowAssumption
<1>1. CASE \E r \in Requests, t \in Statuses : StartMove(r, t)
  BY <1>1, StartKeepsHolders DEF StartMove, Ops, Roles, TypeOK
<1>2. CASE \E r \in Requests, u \in Roles : StartUpload(r, u)
  BY <1>2, StartKeepsHolders DEF StartUpload, Ops, Roles, Statuses, TypeOK
<1>3. CASE \E r \in Requests, u \in Roles : StartFile(r, u)
  BY <1>3, StartKeepsHolders DEF StartFile, Ops, Roles, Statuses, TypeOK
<1>4. CASE \E r \in Requests, u \in Roles, n \in 1 .. 2 : StartShip(r, u, n)
  <2>1. PICK r \in Requests, u \in Roles, n \in 1 .. 2 : StartShip(r, u, n)
    BY <1>4
  <2>2. n \in 0 .. MaxShipments + 2
    OBVIOUS
  <2>. QED
    BY <2>1, <2>2, StartKeepsHolders DEF StartShip, Ops, Roles, Statuses, TypeOK
<1>5. CASE \E r \in Requests, u \in Roles, s \in 1 .. MaxShipments : StartReceive(r, u, s)
  <2>1. PICK r \in Requests, u \in Roles, s \in 1 .. MaxShipments : StartReceive(r, u, s)
    BY <1>5
  <2>2. s \in 0 .. MaxShipments + 2
    OBVIOUS
  <2>. QED
    BY <2>1, <2>2, StartKeepsHolders DEF StartReceive, Ops, Roles, Statuses, TypeOK
<1>6. CASE \E r \in Requests : StartCatchUp(r)
  BY <1>6, StartKeepsHolders DEF StartCatchUp, Ops, Roles, Statuses, TypeOK
<1>7. CASE \E r \in Requests : Move(r)
  <2>1. PICK r \in Requests : Move(r)
    BY <1>7
  <2>2. req[r].to \in Statuses
    BY DEF TypeOK, Request
  <2>. QED
    BY <2>1, <2>2, WriteType, FinishKeepsHolders DEF Move, TypeOK
<1>8. CASE \E r \in Requests : SaveUpload(r) \/ SaveFile(r) \/ CatchUp(r)
  <2>1. PICK r \in Requests : SaveUpload(r) \/ SaveFile(r) \/ CatchUp(r)
    BY <1>8
  <2>2. "pi_received" \in Statuses /\ "received" \in Statuses
    BY DEF Statuses
  <2>3. status' \in Statuses /\ passed' \subseteq Gates
    BY <2>1, <2>2, WriteType DEF SaveUpload, SaveFile, CatchUp
  <2>4. req' \in [Requests -> Request] /\ OneHolder'
    BY <2>1, FinishKeepsHolders DEF SaveUpload, SaveFile, CatchUp
  <2>. QED
    BY <2>1, <2>3, <2>4 DEF SaveUpload, SaveFile, CatchUp, TypeOK
<1>9. CASE \E r \in Requests : DownloadFails(r)
  BY <1>9, FinishKeepsHolders DEF DownloadFails, TypeOK
<1>10. CASE \E r \in Requests : Ship(r)
  <2>1. PICK r \in Requests : Ship(r)
    BY <1>10
  <2>2. req[r].arg \in Nat /\ "shipped" \in Statuses
    BY DEF TypeOK, Request, Statuses
  <2>3. [i \in 1 .. req[r].arg |-> FALSE] \in Seq(BOOLEAN)
    <3>1. [i \in 1 .. req[r].arg |-> FALSE] \in [1 .. req[r].arg -> BOOLEAN]
      OBVIOUS
    <3>. QED
      BY <2>2, <3>1, SeqDef
  <2>4. Len([i \in 1 .. req[r].arg |-> FALSE]) = req[r].arg
    BY <2>2
  <2>5. shipments' \in Seq(BOOLEAN) /\ Len(shipments') <= MaxShipments
    BY <2>1, <2>2, <2>3, <2>4, ConcatProperties DEF Ship, TypeOK
  <2>. QED
    BY <2>1, <2>2, <2>5, WriteType, FinishKeepsHolders DEF Ship, TypeOK
<1>11. CASE \E r \in Requests : ReadShipments(r)
  <2>1. PICK r \in Requests : ReadShipments(r)
    BY <1>11
  <2>2. req' \in [Requests -> Request]
    BY <2>1 DEF ReadShipments, TypeOK, Request, Ops
  <2>3. OneHolder'
    <3>1. \A p \in Requests \ {r} : req'[p] = req[p]
      BY <2>1 DEF ReadShipments, TypeOK
    <3>2. req'[r].op \in {"received", "closing"} /\ req'[r].arg = req[r].arg
      BY <2>1 DEF ReadShipments, TypeOK, Request
    <3>3. \A p \in Requests : req[p].op \in {"received", "closing"} => req[p].arg # req[r].arg
      BY <2>1 DEF ReadShipments, RowFree, Receivers
    <3>. QED
      BY <3>1, <3>2, <3>3 DEF OneHolder, TypeOK
  <2>. QED
    BY <2>1, <2>2, <2>3 DEF ReadShipments, TypeOK
<1>12. CASE \E r \in Requests : Receive(r)
  <2>1. PICK r \in Requests : Receive(r)
    BY <1>12
  <2>2. "received" \in Statuses
    BY DEF Statuses
  <2>3. shipments' \in Seq(BOOLEAN) /\ Len(shipments') <= MaxShipments
    <3>1. shipments \in [1 .. Len(shipments) -> BOOLEAN] /\ Len(shipments) \in Nat
      BY LenProperties DEF TypeOK
    <3>2. shipments' \in [1 .. Len(shipments) -> BOOLEAN]
      BY <2>1, <3>1 DEF Receive
    <3>3. shipments' \in Seq(BOOLEAN)
      BY <3>1, <3>2, SeqDef
    <3>4. Len(shipments') = Len(shipments)
      BY <3>1, <3>2, <3>3, LenProperties
    <3>. QED
      BY <3>3, <3>4 DEF TypeOK
  <2>4. status' \in Statuses /\ passed' \subseteq Gates /\ overlapped' \in BOOLEAN
    BY <2>1, <2>2, WriteType DEF Receive, TypeOK
  <2>. QED
    BY <2>1, <2>3, <2>4, FinishKeepsHolders DEF Receive, TypeOK
<1>13. CASE \E u \in Roles, t \in Statuses : BotMove(u, t)
  BY <1>13 DEF BotMove, TypeOK, OneHolder, Gates
<1>14. CASE \E u \in Roles : AskForPI(u) \/ DropPending(u)
  BY <1>14 DEF AskForPI, DropPending, TypeOK, OneHolder
<1>15. CASE Crash
  <2>1. Idle \in Request
    BY DEF Idle, Request, Ops, Roles, Statuses
  <2>. QED
    BY <1>15, <2>1 DEF Crash, TypeOK, OneHolder, Idle
<1>16. CASE UNCHANGED vars
  BY <1>16 DEF vars, TypeOK, OneHolder
<1>. QED
  BY <1>1, <1>2, <1>3, <1>4, <1>5, <1>6, <1>7, <1>8, <1>9, <1>10, <1>11, <1>12,
     <1>13, <1>14, <1>15, <1>16 DEF Next

\* The workflow's states are well typed, and no two requests hold the loop or
\* one shipment's row (TypeOK), whatever the number of requests.
THEOREM WorkflowTypeCorrect == Spec => []TypeOK
<1>. QED
  BY InitType, TypeStep, PTL DEF Spec

---------------------------------------------------------------------------
(* Gates.                                                                  *)

\* Both modules name the same gates.
LEMMA SameGates == Life!Gates = Gates
<1>1. \A g \in Gates : \E t \in Life!Statuses : g \in Life!Gate(t)
  BY DEF Gates, Life!Statuses, Life!Gate
<1>2. \A t \in Life!Statuses : Life!Gate(t) \subseteq Gates
  BY DEF Gates, Life!Statuses, Life!Gate
<1>. QED
  BY <1>1, <1>2 DEF Life!Gates

\* Where allowed_move takes an order, its gates were passed.
LEMMA MovesPassGates ==
    ASSUME TypeOK, OrderRests, NEW u \in Roles, NEW t \in Statuses,
           Allowed(u, status, t)
    PROVE  Life!Gate(t) \subseteq passed
<1>1. CASE t = status \/ t = "cancelled"
  BY <1>1 DEF OrderRests, Life!GatesPassed, Life!Gate
<1>2. CASE t \notin Closed /\ u \in Movers(status, t)
  <2>1. \A g \in passed : Life!Gate(g) \subseteq passed
    BY DEF OrderRests, Life!GatesPassed
  <2>2. Life!Gate(status) \subseteq passed
    BY DEF OrderRests, Life!GatesPassed
  <2>3. \/ Life!Gate(t) \subseteq Life!Gate(status)
        \/ Life!Gate(t) = {status} /\ status \in Gates
        \/ \E g \in Life!Gate(status) : Life!Gate(t) \subseteq Life!Gate(g)
    BY <1>2 DEF Movers, Life!Gate, Gates, TypeOK, Statuses
  <2>. QED
    BY <2>1, <2>2, <2>3 DEF OrderRests
<1>. QED
  BY <1>1, <1>2 DEF Allowed

\* A stage entered with its gates passed keeps the order at rest.
LEMMA EnterKeepsGates ==
    ASSUME TypeOK, OrderRests, NEW t \in Statuses, Life!Gate(t) \subseteq passed,
           status' = t, passed' = passed \cup ({t} \cap Gates)
    PROVE  OrderRests' /\ passed \subseteq passed' /\ Life!Enter(t)
<1>1. Life!Enter(t)
  BY SameGates DEF Life!Enter
<1>2. \A g \in passed' \cup {status'} : Life!Gate(g) \subseteq passed'
  BY DEF OrderRests, Life!GatesPassed
<1>. QED
  BY <1>1, <1>2 DEF OrderRests, Life!GatesPassed

LEMMA WriteKeepsGates ==
    ASSUME TypeOK, OrderRests, NEW r \in Requests, NEW t \in Statuses, Write(r, t),
           Life!Gate(t) \subseteq passed
    PROVE  /\ OrderRests'
           /\ passed \subseteq passed'
           /\ (\E g \in Statuses : Life!Enter(g)) \/ UNCHANGED <<status, passed>>
<1>1. CASE status' = t /\ passed' = passed \cup ({t} \cap Gates)
  BY <1>1, EnterKeepsGates
<1>2. CASE UNCHANGED <<status, passed>>
  BY <1>2 DEF OrderRests, Life!GatesPassed
<1>. QED
  BY <1>1, <1>2 DEF Write

LEMMA StartRests ==
    ASSUME TypeOK, RequestsRest, NEW r \in Requests, NEW op \in Ops, NEW u \in Roles,
           NEW t \in Statuses, NEW a \in 0 .. MaxShipments + 2, Start(r, op, u, t, a),
           Life!Gate(t) \subseteq passed, passed' = passed,
           op \in {"pi", "file"} => t = "pi_received",
           op = "ship" => t = "shipped" /\ status \in {"pi_approved", "production"},
           op \in {"receive", "catchup"} => t = "received",
           op \notin {"received", "closing"}
    PROVE  RequestsRest'
<1>1. req'[r] = [op |-> op, by |-> u, seen |-> status, to |-> t, arg |-> a]
  BY DEF Start, TypeOK
<1>2. \A p \in Requests \ {r} : req'[p] = req[p]
  BY DEF Start, TypeOK
<1>. QED
  BY <1>1, <1>2 DEF RequestsRest

LEMMA FinishRests ==
    ASSUME TypeOK, RequestsRest, NEW r \in Requests, Finish(r), passed \subseteq passed'
    PROVE  RequestsRest'
<1>1. Life!Gate("draft") = {}
  BY DEF Life!Gate
<1>2. \A p \in Requests : req'[p] = IF p = r THEN Idle ELSE req[p]
  BY DEF Finish, TypeOK
<1>. QED
  BY <1>1, <1>2 DEF RequestsRest, Idle

\* The order enters a stage as OrderLife lets it, or stays.
Entered == (\E g \in Statuses : Life!Enter(g)) \/ UNCHANGED <<status, passed>>

\* A request starts or ends, and the order stays where it is.
LEMMA Quiet ==
    ASSUME Rests, RequestsRest', UNCHANGED <<status, passed, shipments, pending>>
    PROVE  Rests' /\ Entered
BY DEF Rests, OrderRests, Life!GatesPassed, Entered

LEMMA StepRests ==
    ASSUME TypeOK, Rests, [Next]_vars
    PROVE  Rests' /\ Entered
<1>. USE WorkflowAssumption
<1>g. /\ "pi_received" \in Statuses /\ Life!Gate("pi_received") = {"design_approved"}
      /\ "shipped" \in Statuses /\ Life!Gate("shipped") = {"pi_approved"}
      /\ "received" \in Statuses /\ Life!Gate("received") = {"shipped"}
  BY DEF Statuses, Life!Gate
<1>s. status \in Gates => status \in passed
  BY DEF Rests, OrderRests
<1>1. CASE \E r \in Requests, t \in Statuses : StartMove(r, t)
  <2>1. PICK r \in Requests, t \in Statuses : StartMove(r, t)
    BY <1>1
  <2>2. Life!Gate(t) \subseteq passed
    BY <2>1, MovesPassGates DEF StartMove, Rests
  <2>3. RequestsRest'
    BY <2>1, <2>2, StartRests DEF StartMove, Rests, Ops, Roles
  <2>. QED
    BY <2>1, <2>3, Quiet DEF StartMove
<1>2. CASE \E r \in Requests, u \in Roles : StartUpload(r, u)
  <2>1. PICK r \in Requests, u \in Roles : StartUpload(r, u)
    BY <1>2
  <2>2. "design_approved" \in passed
    BY <2>1, <1>s DEF StartUpload, Gates
  <2>3. RequestsRest'
    BY <2>1, <2>2, <1>g, StartRests DEF StartUpload, Rests, Ops, Roles
  <2>. QED
    BY <2>1, <2>3, Quiet DEF StartUpload
<1>3. CASE \E r \in Requests, u \in Roles : StartFile(r, u)
  <2>1. PICK r \in Requests, u \in Roles : StartFile(r, u)
    BY <1>3
  <2>2. "design_approved" \in passed
    BY <2>1 DEF StartFile, Rests
  <2>3. RequestsRest'
    BY <2>1, <2>2, <1>g, StartRests DEF StartFile, Rests, Ops, Roles
  <2>. QED
    BY <2>1, <2>3, Quiet DEF StartFile
<1>4. CASE \E r \in Requests, u \in Roles, n \in 1 .. 2 : StartShip(r, u, n)
  <2>1. PICK r \in Requests, u \in Roles, n \in 1 .. 2 : StartShip(r, u, n)
    BY <1>4
  <2>2. "pi_approved" \in passed
    <3>1. CASE status = "pi_approved"
      BY <3>1, <1>s DEF Gates
    <3>2. CASE status = "production"
      BY <3>2 DEF Rests, OrderRests, Life!GatesPassed, Life!Gate
    <3>. QED
      BY <2>1, <3>1, <3>2 DEF StartShip
  <2>3. n \in 0 .. MaxShipments + 2
    OBVIOUS
  <2>4. RequestsRest'
    BY <2>1, <2>2, <2>3, <1>g, StartRests DEF StartShip, Rests, Ops, Roles
  <2>. QED
    BY <2>1, <2>4, Quiet DEF StartShip
<1>5. CASE \E r \in Requests, u \in Roles, s \in 1 .. MaxShipments : StartReceive(r, u, s)
  <2>1. PICK r \in Requests, u \in Roles, s \in 1 .. MaxShipments : StartReceive(r, u, s)
    BY <1>5
  <2>2. "shipped" \in passed
    BY <2>1, EmptySeq DEF StartReceive, Rests
  <2>3. s \in 0 .. MaxShipments + 2
    OBVIOUS
  <2>4. RequestsRest'
    BY <2>1, <2>2, <2>3, <1>g, StartRests DEF StartReceive, Rests, Ops, Roles
  <2>. QED
    BY <2>1, <2>4, Quiet DEF StartReceive
<1>6. CASE \E r \in Requests : StartCatchUp(r)
  <2>1. PICK r \in Requests : StartCatchUp(r)
    BY <1>6
  <2>2. "shipped" \in passed
    BY <2>1, <1>s DEF StartCatchUp, Gates
  <2>3. RequestsRest'
    BY <2>1, <2>2, <1>g, StartRests DEF StartCatchUp, Rests, Ops, Roles
  <2>. QED
    BY <2>1, <2>3, Quiet DEF StartCatchUp
<1>7. CASE \E r \in Requests : Move(r) \/ SaveUpload(r) \/ SaveFile(r) \/ CatchUp(r)
  <2>1. PICK r \in Requests : Move(r) \/ SaveUpload(r) \/ SaveFile(r) \/ CatchUp(r)
    BY <1>7
  <2>2. req[r].to \in Statuses /\ Life!Gate(req[r].to) \subseteq passed
    BY DEF TypeOK, Request, Rests, RequestsRest
  <2>3. Write(r, req[r].to) /\ Finish(r)
    BY <2>1 DEF Move, SaveUpload, SaveFile, CatchUp, Rests, RequestsRest
  <2>4. OrderRests' /\ passed \subseteq passed' /\ Entered
    BY <2>2, <2>3, WriteKeepsGates DEF Rests, Entered
  <2>5. RequestsRest'
    BY <2>3, <2>4, FinishRests DEF Rests
  <2>6. pending' \subseteq pending /\ shipments' = shipments
    BY <2>1 DEF Move, SaveUpload, SaveFile, CatchUp
  <2>. QED
    BY <2>4, <2>5, <2>6 DEF Rests
<1>8. CASE \E r \in Requests : DownloadFails(r)
  BY <1>8, FinishRests, Quiet DEF DownloadFails, Rests
<1>9. CASE \E r \in Requests : Ship(r)
  <2>1. PICK r \in Requests : Ship(r)
    BY <1>9
  <2>2. "pi_approved" \in passed
    BY <2>1, <1>g DEF Ship, Rests, RequestsRest
  <2>3. OrderRests' /\ passed \subseteq passed' /\ Entered
    BY <2>1, <2>2, <1>g, WriteKeepsGates DEF Ship, Rests, Entered
  <2>4. RequestsRest'
    BY <2>1, <2>3, FinishRests DEF Ship, Rests
  <2>5. "shipped" \in passed'
    <3>1. req[r].seen # "shipped"
      BY <2>1 DEF Ship, Rests, RequestsRest
    <3>. QED
      BY <2>1, <3>1 DEF Ship, Write, Gates
  <2>. QED
    BY <2>1, <2>3, <2>4, <2>5 DEF Ship, Rests
<1>10. CASE \E r \in Requests : ReadShipments(r)
  <2>1. PICK r \in Requests : ReadShipments(r)
    BY <1>10
  <2>2. \A p \in Requests : req'[p].to = req[p].to
    BY <2>1 DEF ReadShipments, TypeOK, Request
  <2>3. \A p \in Requests \ {r} : req'[p].op = req[p].op
    BY <2>1 DEF ReadShipments, TypeOK, Request
  <2>4. req[r].op = "receive" /\ req'[r].op \in {"closing", "received"}
    BY <2>1 DEF ReadShipments, TypeOK, Request
  <2>5. RequestsRest'
    BY <2>1, <2>2, <2>3, <2>4 DEF ReadShipments, Rests, RequestsRest
  <2>. QED
    BY <2>1, <2>5, Quiet DEF ReadShipments
<1>11. CASE \E r \in Requests : Receive(r)
  <2>1. PICK r \in Requests : Receive(r)
    BY <1>11
  <2>2. "shipped" \in passed
    BY <2>1, <1>g DEF Receive, Receivers, Rests, RequestsRest
  <2>3. OrderRests' /\ passed \subseteq passed' /\ Entered
    BY <2>1, <2>2, <1>g, WriteKeepsGates
       DEF Receive, Rests, Entered, OrderRests, Life!GatesPassed
  <2>4. RequestsRest'
    BY <2>1, <2>3, FinishRests DEF Receive, Rests
  <2>. QED
    BY <2>1, <2>2, <2>3, <2>4 DEF Receive, Rests
<1>12. CASE \E u \in Roles, t \in Statuses : BotMove(u, t)
  <2>1. PICK u \in Roles, t \in Statuses : BotMove(u, t)
    BY <1>12
  <2>2. Life!Gate(t) \subseteq passed
    BY <2>1, MovesPassGates DEF BotMove, Rests
  <2>3. OrderRests' /\ passed \subseteq passed' /\ Entered
    BY <2>1, <2>2, EnterKeepsGates DEF BotMove, Rests, Entered
  <2>. QED
    BY <2>1, <2>3 DEF BotMove, Rests, RequestsRest
<1>13. CASE \E u \in Roles : AskForPI(u) \/ DropPending(u)
  <2>1. pending' # {} => "design_approved" \in passed
    BY <1>13, <1>s DEF AskForPI, AwaitsPI, DropPending, Rests, Gates
  <2>2. UNCHANGED <<status, passed, shipments, req>>
    BY <1>13 DEF AskForPI, DropPending
  <2>. QED
    BY <2>1, <2>2 DEF Rests, OrderRests, Life!GatesPassed, RequestsRest, Entered
<1>14. CASE Crash
  <2>1. RequestsRest'
    BY <1>14 DEF Crash, RequestsRest, Idle, Life!Gate
  <2>. QED
    BY <1>14, <2>1, Quiet DEF Crash
<1>15. CASE UNCHANGED vars
  BY <1>15, Quiet DEF vars, RequestsRest, Rests
<1>. QED
  BY <1>1, <1>2, <1>3, <1>4, <1>5, <1>6, <1>7, <1>8, <1>9, <1>10, <1>11, <1>12,
     <1>13, <1>14, <1>15 DEF Next

LEMMA InitRests == Init => Rests /\ Life!Init
<1>. SUFFICES ASSUME Init PROVE Rests /\ Life!Init
  OBVIOUS
<1>1. CASE status = "shipped"
  BY <1>1, SameGates
     DEF Init, Adopted, Rests, OrderRests, RequestsRest, Idle, Life!GatesPassed, Life!Gate,
         Life!Init, Gates
<1>2. CASE status \in {"draft", "design_review"}
  BY <1>2
     DEF Init, Adopted, Rests, OrderRests, RequestsRest, Idle, Life!GatesPassed, Life!Gate,
         Life!Init, Gates
<1>. QED
  BY <1>1, <1>2 DEF Init, Created, Duplicated, Adopted

\* However requests overlap, uploads come late and writes are unconditional,
\* the order goes through its life as OrderLife has it: no stage before the
\* stages it rests on (allowed_move and the routes that bypass it).
THEOREM WorkflowImplementsOrderLife == Spec => ImplementsOrderLife
<1>1. Init => TypeOK /\ Rests /\ Life!Init
  BY InitType, InitRests
<1>2. TypeOK /\ Rests /\ [Next]_vars => (TypeOK /\ Rests)' /\ [Life!Next]_<<status, passed>>
  BY TypeStep, StepRests DEF Entered, Life!Next, Life!Statuses, Statuses
<1>. QED
  BY <1>1, <1>2, PTL DEF Spec, ImplementsOrderLife, Life!Spec

\* The gates of the stage an order is in were passed, and theirs before them:
\* nothing is made or shipped without an approved PI, no PI is taken in
\* without approved artwork.
THEOREM GatesAlwaysPassed == Spec => []Life!GatesPassed
<1>1. Init => TypeOK /\ Rests
  BY InitType, InitRests
<1>2. TypeOK /\ Rests /\ [Next]_vars => (TypeOK /\ Rests)'
  BY TypeStep, StepRests
<1>3. Rests => Life!GatesPassed
  BY DEF Rests, OrderRests
<1>. QED
  BY <1>1, <1>2, <1>3, PTL DEF Spec

---------------------------------------------------------------------------
(* Closed orders.                                                          *)

LEMMA FinishesAs ==
    ASSUME TypeOK, NEW r \in Requests, Finish(r)
    PROVE  \A p \in Requests : req'[p] = IF p = r THEN Idle ELSE req[p]
BY DEF Finish, TypeOK

\* Shipments are added and settled, never taken away.
LEMMA ShipmentsStay == TypeOK /\ [Next]_vars => DOMAIN shipments \subseteq DOMAIN shipments'
<1>. SUFFICES ASSUME TypeOK, [Next]_vars PROVE DOMAIN shipments \subseteq DOMAIN shipments'
  OBVIOUS
<1>1. CASE \E r \in Requests : Ship(r)
  <2>1. PICK r \in Requests : Ship(r)
    BY <1>1
  <2>2. req[r].arg \in Nat
    BY DEF TypeOK, Request
  <2>3. [i \in 1 .. req[r].arg |-> FALSE] \in Seq(BOOLEAN)
    <3>1. [i \in 1 .. req[r].arg |-> FALSE] \in [1 .. req[r].arg -> BOOLEAN]
      OBVIOUS
    <3>. QED
      BY <2>2, <3>1, SeqDef
  <2>4. Len(shipments') = Len(shipments) + Len([i \in 1 .. req[r].arg |-> FALSE])
    BY <2>1, <2>3, ConcatProperties DEF Ship, TypeOK
  <2>5. shipments' \in Seq(BOOLEAN)
    BY <2>1, <2>3, ConcatProperties DEF Ship, TypeOK
  <2>. QED
    BY <2>2, <2>3, <2>4, <2>5, LenProperties DEF TypeOK
<1>2. CASE \E r \in Requests : Receive(r)
  BY <1>2 DEF Receive, TypeOK
<1>3. CASE UNCHANGED shipments
  BY <1>3
<1>. QED
  BY <1>1, <1>2, <1>3 DEF Next, vars, StartMove, StartUpload, StartFile, StartShip, StartReceive,
     Move, SaveUpload, SaveFile, DownloadFails, ReadShipments, StartCatchUp, CatchUp, BotMove,
     AskForPI, DropPending, Crash

LEMMA KnowStep == TypeOK /\ RequestsKnow /\ [Next]_vars => RequestsKnow'
<1>. SUFFICES ASSUME TypeOK, RequestsKnow, [Next]_vars PROVE RequestsKnow'
  OBVIOUS
<1>s. DOMAIN shipments \subseteq DOMAIN shipments'
  BY ShipmentsStay
<1>. USE WorkflowAssumption
<1>1. CASE \E r \in Requests, t \in Statuses : StartMove(r, t)
  <2>1. PICK r \in Requests, t \in Statuses : StartMove(r, t)
    BY <1>1
  <2>2. status \notin Closed
    BY <2>1 DEF StartMove, Allowed
  <2>3. \A p \in Requests \ {r} : req'[p] = req[p]
    BY <2>1 DEF StartMove, Start, TypeOK
  <2>4. req'[r].op = "move" /\ req'[r].seen = status
    BY <2>1 DEF StartMove, Start, TypeOK
  <2>. QED
    BY <1>s, <2>2, <2>3, <2>4 DEF RequestsKnow
<1>2. CASE \E r \in Requests, u \in Roles : StartUpload(r, u) \/ StartFile(r, u)
  <2>1. PICK r \in Requests, u \in Roles : StartUpload(r, u) \/ StartFile(r, u)
    BY <1>2
  <2>2. \A p \in Requests \ {r} : req'[p] = req[p]
    BY <2>1 DEF StartUpload, StartFile, Start, TypeOK
  <2>3. req'[r].op = "file" \/ (req'[r].op = "pi" /\ req'[r].seen = "design_approved")
    BY <2>1 DEF StartUpload, StartFile, Start, TypeOK
  <2>. QED
    BY <1>s, <2>2, <2>3 DEF RequestsKnow, Closed
<1>3. CASE \E r \in Requests, u \in Roles, n \in 1 .. 2 : StartShip(r, u, n)
  <2>1. PICK r \in Requests, u \in Roles, n \in 1 .. 2 : StartShip(r, u, n)
    BY <1>3
  <2>2. \A p \in Requests \ {r} : req'[p] = req[p]
    BY <2>1 DEF StartShip, Start, TypeOK
  <2>3. req'[r].op = "ship" /\ req'[r].seen \in {"pi_approved", "production"}
    BY <2>1 DEF StartShip, Start, TypeOK
  <2>. QED
    BY <1>s, <2>2, <2>3 DEF RequestsKnow, Closed
<1>4. CASE \E r \in Requests, u \in Roles, s \in 1 .. MaxShipments : StartReceive(r, u, s)
  <2>1. PICK r \in Requests, u \in Roles, s \in 1 .. MaxShipments : StartReceive(r, u, s)
    BY <1>4
  <2>2. \A p \in Requests \ {r} : req'[p] = req[p]
    BY <2>1 DEF StartReceive, Start, TypeOK
  <2>3. req'[r].op = "receive" /\ req'[r].arg \in DOMAIN shipments
    BY <2>1 DEF StartReceive, Start, TypeOK
  <2>. QED
    BY <1>s, <2>2, <2>3 DEF RequestsKnow
<1>5. CASE \E r \in Requests : StartCatchUp(r)
  <2>1. PICK r \in Requests : StartCatchUp(r)
    BY <1>5
  <2>2. \A p \in Requests \ {r} : req'[p] = req[p]
    BY <2>1 DEF StartCatchUp, Start, TypeOK
  <2>3. req'[r].op = "catchup" /\ req'[r].seen = "shipped"
    BY <2>1 DEF StartCatchUp, Start, TypeOK
  <2>. QED
    BY <1>s, <2>2, <2>3 DEF RequestsKnow
<1>6. CASE \E r \in Requests : Finish(r)
  <2>1. PICK r \in Requests : Finish(r)
    BY <1>6
  <2>. QED
    BY <1>s, <2>1, FinishesAs DEF RequestsKnow, Idle
<1>7. CASE \E r \in Requests : ReadShipments(r)
  <2>1. PICK r \in Requests : ReadShipments(r)
    BY <1>7
  <2>2. \A p \in Requests \ {r} : req'[p] = req[p]
    BY <2>1 DEF ReadShipments, TypeOK
  <2>3. req'[r].op \in {"received", "closing"} /\ req'[r].arg = req[r].arg
    BY <2>1 DEF ReadShipments, TypeOK, Request
  <2>4. req[r].op = "receive"
    BY <2>1 DEF ReadShipments
  <2>. QED
    BY <1>s, <2>2, <2>3, <2>4 DEF RequestsKnow
<1>8. CASE UNCHANGED req
  BY <1>s, <1>8 DEF RequestsKnow
<1>9. CASE Crash
  BY <1>9 DEF Crash, RequestsKnow, Idle
<1>. QED
  BY <1>1, <1>2, <1>3, <1>4, <1>5, <1>6, <1>7, <1>8, <1>9
     DEF Next, vars, Move, SaveUpload, SaveFile, DownloadFails, Ship, Receive, CatchUp, BotMove,
         AskForPI, DropPending

\* A request that starts on what the order is now.
LEMMA StartInTurn ==
    ASSUME TypeOK, ReceiptsInTurn, NEW r \in Requests,
           \A p \in Requests \ {r} : req'[p] = req[p],
           req'[r].seen = status, req'[r].op \notin {"received", "closing"},
           UNCHANGED <<status, shipments, overlapped>>
    PROVE  ReceiptsInTurn'
<1>1. Receivers' \subseteq Receivers
  BY DEF Receivers
<1>2. SettledOrderIsClosed'
  BY DEF ReceiptsInTurn, SettledOrderIsClosed, Settled
<1>3. ASSUME ~overlapped'
      PROVE  /\ \A p \in Requests : req'[p].seen = "received" => status' = "received"
             /\ \A p \in Requests :
                  req'[p].op = "received" =>
                    \E i \in DOMAIN shipments' : i # req'[p].arg /\ ~shipments'[i]
  BY <1>3 DEF ReceiptsInTurn
<1>. QED
  BY <1>1, <1>2, <1>3 DEF ReceiptsInTurn

\* A request that writes and ends, leaving the shipments alone.
LEMMA WriteInTurn ==
    ASSUME TypeOK, ReceiptsInTurn, NEW r \in Requests, NEW t \in Statuses, Write(r, t),
           t = req[r].to, Finish(r), UNCHANGED shipments,
           ~overlapped' => ~overlapped /\ ~Overtaken(r),
           ~overlapped' /\ req[r].seen = "received" => t = "received"
    PROVE  ReceiptsInTurn'
<1>1. \A p \in Requests : req'[p] = IF p = r THEN Idle ELSE req[p]
  BY FinishesAs
<1>2. ASSUME ~overlapped', status = "received"
      PROVE  status' = "received"
  BY <1>2 DEF Write, Overtaken
<1>3. SettledOrderIsClosed'
  BY <1>2 DEF ReceiptsInTurn, SettledOrderIsClosed, Settled
<1>4. ASSUME ~overlapped'
      PROVE  /\ \A p \in Requests : req'[p].seen = "received" => status' = "received"
             /\ \A p, q \in Receivers' : p = q
             /\ \A p \in Requests :
                  req'[p].op = "received" =>
                    \E i \in DOMAIN shipments' : i # req'[p].arg /\ ~shipments'[i]
  BY <1>1, <1>2, <1>4 DEF ReceiptsInTurn, Receivers, Idle
<1>. QED
  BY <1>3, <1>4 DEF ReceiptsInTurn

LEMMA ShipInTurn ==
    ASSUME TypeOK, ReceiptsInTurn, RequestsRest, NEW r \in Requests, Ship(r)
    PROVE  ReceiptsInTurn'
<1>. DEFINE new == [i \in 1 .. req[r].arg |-> FALSE]
<1>1. req[r].arg \in Nat /\ req[r].to = "shipped"
      /\ req[r].seen \in {"pi_approved", "production"}
  BY DEF TypeOK, Request, RequestsRest, Ship
<1>2. new \in Seq(BOOLEAN) /\ Len(new) = req[r].arg
  <2>1. new \in [1 .. req[r].arg -> BOOLEAN]
    OBVIOUS
  <2>2. new \in Seq(BOOLEAN)
    <3>1. req[r].arg \in Nat
      BY <1>1
    <3>. QED
      BY <2>1, <3>1, SeqDef
  <2>3. Len(new) = req[r].arg
    BY <1>1
  <2>. QED
    BY <2>2, <2>3
<1>3. /\ Len(shipments') = Len(shipments) + req[r].arg
      /\ \A i \in 1 .. Len(shipments) : shipments'[i] = shipments[i]
      /\ \A i \in 1 .. req[r].arg : shipments'[Len(shipments) + i] = FALSE
      /\ DOMAIN shipments' = 1 .. Len(shipments) + req[r].arg
      /\ DOMAIN shipments = 1 .. Len(shipments) /\ Len(shipments) \in Nat
  <2>1. shipments' = shipments \o new
    BY DEF Ship
  <2>. QED
    BY <1>1, <1>2, <2>1, ConcatProperties, LenProperties DEF TypeOK
<1>4. \A p \in Requests : req'[p] = IF p = r THEN Idle ELSE req[p]
  BY FinishesAs DEF Ship
<1>5. ASSUME ~overlapped', status = "received"
      PROVE  FALSE
  BY <1>1, <1>5 DEF Ship, Overtaken
<1>6. SettledOrderIsClosed'
  <2>1. SUFFICES ASSUME ~overlapped', Settled' PROVE FALSE
    BY DEF SettledOrderIsClosed
  <2>2. CASE req[r].arg = 0
    <3>1. DOMAIN shipments' = DOMAIN shipments
      BY <1>3, <2>2
    <3>2. Settled
      BY <1>3, <2>1, <2>2, <3>1, EmptySeq, LenProperties DEF Settled, TypeOK
    <3>3. status = "received"
      BY <2>1, <3>2 DEF ReceiptsInTurn, SettledOrderIsClosed, Ship
    <3>. QED
      BY <2>1, <3>3, <1>5
  <2>3. CASE req[r].arg > 0
    <3>1. shipments'[Len(shipments) + 1] = FALSE /\ Len(shipments) + 1 \in DOMAIN shipments'
      BY <1>1, <1>3, <2>3
    <3>. QED
      BY <2>1, <3>1 DEF Settled
  <2>. QED
    BY <1>1, <2>2, <2>3
<1>7. ASSUME ~overlapped'
      PROVE  /\ \A p \in Requests : req'[p].seen = "received" => status' = "received"
             /\ \A p, q \in Receivers' : p = q
             /\ \A p \in Requests :
                  req'[p].op = "received" =>
                    \E i \in DOMAIN shipments' : i # req'[p].arg /\ ~shipments'[i]
  <2>1. ~overlapped
    BY <1>7 DEF Ship
  <2>2. \A p \in Requests : req'[p].seen # "received"
    BY <1>4, <1>5, <1>7, <2>1 DEF ReceiptsInTurn, Idle
  <2>3. \A p, q \in Receivers' : p = q
    BY <1>4, <2>1 DEF ReceiptsInTurn, Receivers, Idle
  <2>4. ASSUME NEW p \in Requests, req'[p].op = "received"
        PROVE  \E i \in DOMAIN shipments' : i # req'[p].arg /\ ~shipments'[i]
    <3>1. req'[p] = req[p]
      BY <1>4, <2>4 DEF Idle
    <3>2. PICK i \in DOMAIN shipments : i # req[p].arg /\ ~shipments[i]
      BY <2>1, <2>4, <3>1 DEF ReceiptsInTurn
    <3>. QED
      BY <1>1, <1>3, <3>1, <3>2
  <2>. QED
    BY <2>2, <2>3, <2>4
<1>. QED
  BY <1>6, <1>7 DEF ReceiptsInTurn

LEMMA FlushInTurn ==
    ASSUME TypeOK, ReceiptsInTurn, NEW r \in Requests, ReadShipments(r)
    PROVE  ReceiptsInTurn'
<1>1. \A p \in Requests \ {r} : req'[p] = req[p]
  BY DEF ReadShipments, TypeOK
<1>2. /\ req'[r].arg = req[r].arg /\ req'[r].seen = req[r].seen
      /\ req'[r].op = IF \A i \in DOMAIN shipments : i = req[r].arg \/ shipments[i]
                      THEN "closing" ELSE "received"
  BY DEF ReadShipments, TypeOK, Request
<1>3. SettledOrderIsClosed'
  BY DEF ReadShipments, ReceiptsInTurn, SettledOrderIsClosed, Settled
<1>4. ASSUME ~overlapped'
      PROVE  /\ \A p \in Requests : req'[p].seen = "received" => status' = "received"
             /\ \A p, q \in Receivers' : p = q
             /\ \A p \in Requests :
                  req'[p].op = "received" =>
                    \E i \in DOMAIN shipments' : i # req'[p].arg /\ ~shipments'[i]
  <2>1. ~overlapped /\ Receivers = {} /\ status' = status /\ shipments' = shipments
    BY <1>4 DEF ReadShipments
  <2>2. Receivers' \subseteq {r}
    BY <1>1, <2>1 DEF Receivers
  <2>3. \A p \in Requests : req'[p].seen = req[p].seen
    BY <1>1, <1>2
  <2>4. req'[r].op = "received" => \E i \in DOMAIN shipments : i # req[r].arg /\ ~shipments[i]
    BY <1>2
  <2>5. \A p \in Requests \ {r} : req'[p].op # "received"
    BY <1>1, <2>1 DEF Receivers
  <2>. QED
    BY <1>2, <2>1, <2>2, <2>3, <2>4, <2>5 DEF ReceiptsInTurn
<1>. QED
  BY <1>3, <1>4 DEF ReceiptsInTurn

LEMMA ReceiveInTurn ==
    ASSUME TypeOK, ReceiptsInTurn, RequestsRest, NEW r \in Requests, Receive(r)
    PROVE  ReceiptsInTurn'
<1>1. \A p \in Requests : req'[p] = IF p = r THEN Idle ELSE req[p]
  BY FinishesAs DEF Receive
<1>2. /\ req[r].to = "received" /\ req[r].op \in {"received", "closing"}
      /\ overlapped => overlapped'
  BY DEF Receive, Receivers, RequestsRest
<1>3. /\ DOMAIN shipments' = DOMAIN shipments
      /\ \A i \in DOMAIN shipments : i # req[r].arg => shipments'[i] = shipments[i]
  BY DEF Receive
<1>4. ASSUME ~overlapped', status = "received" \/ req[r].op = "closing"
      PROVE  status' = "received"
  BY <1>2, <1>4 DEF Receive, Closes, Write, Overtaken, ReceiptsInTurn
<1>5. SettledOrderIsClosed'
  <2>1. SUFFICES ASSUME ~overlapped', Settled' PROVE status' = "received"
    BY DEF SettledOrderIsClosed
  <2>2. CASE req[r].op = "received"
    BY <1>2, <1>3, <2>1, <2>2 DEF ReceiptsInTurn, Settled
  <2>. QED
    BY <1>2, <1>4, <2>1, <2>2
<1>6. ASSUME ~overlapped'
      PROVE  /\ \A p \in Requests : req'[p].seen = "received" => status' = "received"
             /\ Receivers' = {}
  BY <1>1, <1>2, <1>4, <1>6 DEF ReceiptsInTurn, Receivers, Receive, Idle
<1>7. ASSUME ~overlapped', NEW p \in Requests
      PROVE  req'[p].op # "received"
  BY <1>6, <1>7 DEF Receivers
<1>. QED
  BY <1>5, <1>6, <1>7 DEF ReceiptsInTurn

LEMMA InTurnStep ==
    TypeOK /\ Rests /\ RequestsKnow /\ ReceiptsInTurn /\ [Next]_vars => ReceiptsInTurn'
<1>. SUFFICES ASSUME TypeOK, Rests, RequestsKnow, ReceiptsInTurn, [Next]_vars
              PROVE  ReceiptsInTurn'
  OBVIOUS
<1>r. RequestsRest
  BY DEF Rests
<1>1. CASE \E r \in Requests, t \in Statuses : StartMove(r, t)
  BY <1>1, StartInTurn DEF StartMove, Start, TypeOK
<1>2. CASE \E r \in Requests, u \in Roles : StartUpload(r, u) \/ StartFile(r, u)
  BY <1>2, StartInTurn DEF StartUpload, StartFile, Start, TypeOK
<1>3. CASE \E r \in Requests, u \in Roles, n \in 1 .. 2 : StartShip(r, u, n)
  BY <1>3, StartInTurn DEF StartShip, Start, TypeOK
<1>4. CASE \E r \in Requests, u \in Roles, s \in 1 .. MaxShipments : StartReceive(r, u, s)
  BY <1>4, StartInTurn DEF StartReceive, Start, TypeOK
<1>5. CASE \E r \in Requests : StartCatchUp(r)
  BY <1>5, StartInTurn DEF StartCatchUp, Start, TypeOK
<1>6. CASE \E r \in Requests : Move(r) \/ SaveUpload(r)
  <2>1. PICK r \in Requests : Move(r) \/ SaveUpload(r)
    BY <1>6
  <2>2. req[r].to \in Statuses /\ Write(r, req[r].to) /\ req[r].seen # "received"
    BY <1>r, <2>1 DEF Move, SaveUpload, TypeOK, Request, RequestsRest, RequestsKnow, Closed
  <2>. QED
    BY <2>1, <2>2, WriteInTurn DEF Move, SaveUpload
<1>7. CASE \E r \in Requests : SaveFile(r)
  <2>1. PICK r \in Requests : SaveFile(r)
    BY <1>7
  <2>2. req[r].to \in Statuses /\ Write(r, req[r].to)
    BY <1>r, <2>1 DEF SaveFile, TypeOK, Request, RequestsRest
  <2>3. ~overlapped' => req[r].seen # "received"
    BY <2>1 DEF SaveFile
  <2>. QED
    BY <2>1, <2>2, <2>3, WriteInTurn DEF SaveFile
<1>8. CASE \E r \in Requests : CatchUp(r)
  <2>1. PICK r \in Requests : CatchUp(r)
    BY <1>8
  <2>2. req[r].to \in Statuses /\ req[r].to = "received" /\ Write(r, req[r].to)
    BY <1>r, <2>1 DEF CatchUp, TypeOK, Request, RequestsRest
  <2>. QED
    BY <2>1, <2>2, WriteInTurn DEF CatchUp
<1>9. CASE \E r \in Requests : DownloadFails(r)
  <2>1. PICK r \in Requests : DownloadFails(r)
    BY <1>9
  <2>2. \A p \in Requests : req'[p] = IF p = r THEN Idle ELSE req[p]
    BY <2>1, FinishesAs DEF DownloadFails
  <2>3. UNCHANGED <<status, shipments, overlapped>>
    BY <2>1 DEF DownloadFails
  <2>. QED
    BY <2>2, <2>3 DEF ReceiptsInTurn, SettledOrderIsClosed, Settled, Receivers, Idle
<1>10. CASE \E r \in Requests : Ship(r)
  BY <1>r, <1>10, ShipInTurn
<1>11. CASE \E r \in Requests : ReadShipments(r)
  BY <1>11, FlushInTurn
<1>12. CASE \E r \in Requests : Receive(r)
  BY <1>r, <1>12, ReceiveInTurn
<1>13. CASE \E u \in Roles, t \in Statuses : BotMove(u, t)
  <2>1. status \notin Closed /\ UNCHANGED <<shipments, overlapped, req>>
    BY <1>13 DEF BotMove, Allowed
  <2>. QED
    BY <2>1 DEF ReceiptsInTurn, SettledOrderIsClosed, Settled, Receivers, Closed
<1>14. CASE UNCHANGED <<status, shipments, req, overlapped>>
  BY <1>14 DEF ReceiptsInTurn, SettledOrderIsClosed, Settled, Receivers
<1>15. CASE Crash
  BY <1>15 DEF Crash, ReceiptsInTurn, SettledOrderIsClosed, Settled, Receivers, Idle
<1>. QED
  BY <1>1, <1>2, <1>3, <1>4, <1>5, <1>6, <1>7, <1>8, <1>9, <1>10, <1>11, <1>12, <1>13,
     <1>14, <1>15 DEF Next, vars, AskForPI, DropPending

\* All that holds of the workflow in every state.
Order == TypeOK /\ Rests /\ RequestsKnow /\ ReceiptsInTurn

LEMMA InitOrder == Init => Order
<1>1. Init => RequestsKnow
  BY DEF Init, RequestsKnow, Idle
<1>2. Init => ReceiptsInTurn
  BY DEF Init, ReceiptsInTurn, SettledOrderIsClosed, Settled, Receivers, Idle
<1>. QED
  BY <1>1, <1>2, InitType, InitRests DEF Order

LEMMA OrderStep == Order /\ [Next]_vars => Order'
BY TypeStep, StepRests, KnowStep, InTurnStep DEF Order

\* The order is received with its last shipment, in whatever order shipments
\* are received, added and read, unless requests overlapped (receive_shipment).
THEOREM SettledOrdersAreClosed == Spec => []SettledOrderIsClosed
<1>1. Order => SettledOrderIsClosed
  BY DEF Order, ReceiptsInTurn
<1>. QED
  BY <1>1, InitOrder, OrderStep, PTL DEF Spec

\* A request that writes where nothing is overtaken leaves a closed order
\* closed, but for a receipt.
LEMMA ClosedStep ==
    ASSUME Order, [Next]_vars, ~overlapped', status \in Closed
    PROVE  status' = status \/ (status' = "received" /\ shipments # <<>>)
<1>. USE DEF Order
<1>r. RequestsRest
  BY DEF Rests
<1>1. CASE \E r \in Requests : Move(r) \/ SaveUpload(r)
  <2>1. PICK r \in Requests : Move(r) \/ SaveUpload(r)
    BY <1>1
  <2>2. req[r].seen \notin Closed /\ Write(r, req[r].to) /\ ~Overtaken(r)
    BY <1>r, <2>1 DEF Move, SaveUpload, RequestsRest, RequestsKnow
  <2>. QED
    BY <2>2 DEF Write, Overtaken
<1>2. CASE \E r \in Requests : SaveFile(r)
  <2>1. PICK r \in Requests : SaveFile(r)
    BY <1>2
  <2>2. req[r].seen = "design_approved" /\ Write(r, req[r].to) /\ ~Overtaken(r)
    BY <1>r, <2>1 DEF SaveFile, RequestsRest
  <2>. QED
    BY <2>2 DEF Write, Overtaken, Closed
<1>3. CASE \E r \in Requests : CatchUp(r)
  <2>1. PICK r \in Requests : CatchUp(r)
    BY <1>3
  <2>2. /\ req[r].seen = "shipped" /\ req[r].to = "received"
        /\ Write(r, req[r].to) /\ ~Overtaken(r)
    BY <1>r, <2>1 DEF CatchUp, RequestsRest, RequestsKnow
  <2>. QED
    BY <2>2 DEF Write, Overtaken, Closed
<1>4. CASE \E r \in Requests : Ship(r)
  <2>1. PICK r \in Requests : Ship(r)
    BY <1>4
  <2>2. /\ req[r].seen \in {"pi_approved", "production"}
        /\ req[r].to = "shipped" /\ Write(r, req[r].to) /\ ~Overtaken(r)
    BY <1>r, <2>1 DEF Ship, RequestsRest
  <2>. QED
    BY <2>2 DEF Write, Overtaken, Closed
<1>5. CASE \E r \in Requests : Receive(r)
  <2>1. PICK r \in Requests : Receive(r)
    BY <1>5
  <2>2. shipments # <<>>
    BY <2>1, EmptySeq DEF Receive, Receivers, RequestsKnow
  <2>. QED
    BY <2>1, <2>2 DEF Receive, Write
<1>6. CASE \E u \in Roles, t \in Statuses : BotMove(u, t)
  BY <1>6 DEF BotMove, Allowed
<1>7. CASE UNCHANGED status
  BY <1>7
<1>. QED
  BY <1>1, <1>2, <1>3, <1>4, <1>5, <1>6, <1>7
     DEF Next, vars, StartMove, StartUpload, StartFile, StartShip, StartReceive, DownloadFails,
         ReadShipments, StartCatchUp, AskForPI, DropPending, Crash

\* A closed order stays closed, and a cancelled one is received only with a
\* shipment, as long as no request was overtaken (_CLOSED in allowed_move).
THEOREM ClosedOrdersStayClosed == Spec => ClosedUnlessReceived
<1>1. Order /\ [Next]_vars =>
        [~overlapped' /\ status \in Closed =>
           status' = status \/ (status' = "received" /\ shipments # <<>>)]_vars
  BY ClosedStep
<1>. QED
  BY <1>1, InitOrder, OrderStep, PTL DEF Spec, ClosedUnlessReceived
=============================================================================
