------------------------- MODULE ActionExecutionProofs -------------------------
(***************************************************************************)
(* What holds of POST /actions/execute for every set of decisions, keys,   *)
(* clients, routes and concurrent calls.  RetryExecutesOnce is inductive   *)
(* once actions is known to be a sequence: it follows from the one commit, *)
(* whatever the checks before it read.  With the type invariant alone the  *)
(* endpoint implements ActionLedger, which says the rest.                  *)
(***************************************************************************)
EXTENDS ActionExecution, TLAPS

(* An append keeps the rows and adds one.                                  *)
LEMMA AppendRow ==
  ASSUME NEW S, actions \in Seq(S), NEW row \in S, actions' = Append(actions, row)
  PROVE  /\ Len(actions) + 1 \in Nat /\ Len(actions) + 1 \notin Rows
         /\ Rows' = Rows \cup {Len(actions) + 1}
         /\ \A i \in Rows : actions'[i] = actions[i]
         /\ actions'[Len(actions) + 1] = row
<1>1. Len(actions') = Len(actions) + 1 /\ Len(actions) \in Nat
  OBVIOUS
<1> QED
  BY <1>1 DEF Rows

(* Only an append to actions can break RetryExecutesOnce, and only a new   *)
(* id is appended.                                                         *)
LEMMA AppendNewId ==
  ASSUME NEW S, actions \in Seq(S), NEW row \in S,
         RetryExecutesOnce, \A i \in Rows : actions[i].id # row.id,
         actions' = Append(actions, row)
  PROVE  RetryExecutesOnce'
<1> SUFFICES ASSUME NEW i \in Rows', NEW j \in Rows', actions'[i].id = actions'[j].id
             PROVE  i = j
  BY DEF RetryExecutesOnce
<1> PICK n : n = Len(actions) + 1
  OBVIOUS
<1>1. /\ Rows' = Rows \cup {n} /\ n \notin Rows
      /\ \A k \in Rows : actions'[k] = actions[k]
      /\ actions'[n] = row
  BY AppendRow
<1>2. CASE i \in Rows /\ j \in Rows
  BY <1>1, <1>2 DEF RetryExecutesOnce
<1>3. CASE i = n /\ j \in Rows
  BY <1>1, <1>3
<1>4. CASE i \in Rows /\ j = n
  BY <1>1, <1>4
<1>5. CASE i = n /\ j = n
  BY <1>5
<1> QED
  BY <1>1, <1>2, <1>3, <1>4, <1>5

-----------------------------------------------------------------------------
(* The fields of an open request, by the step it has reached.              *)
LEMMA CallFields ==
  ASSUME TypeOK, NEW p \in Calls
  PROVE  /\ call[p].step \in {"check", "execute", "record", "commit"}
              => /\ call[p].command \in Command
                 /\ call[p].seen \in Status
                 /\ call[p] = [step |-> call[p].step, command |-> call[p].command,
                               seen |-> call[p].seen]
         /\ call[p].step = "save"
              => call[p].decision \in Decisions /\ call[p].seen \in Status
         /\ call[p].step = "patch"
              => /\ call[p].route \in Routes \cup {Keep}
                 /\ call[p].delivered \in BOOLEAN \cup {Keep}
<1>1. call[p] \in {Idle}
       \cup [step : {"check", "execute", "record", "commit"}, command : Command,
             seen : Status]
       \cup [step : {"save"}, decision : Decisions, seen : Status]
       \cup [step : {"patch"}, route : Routes \cup {Keep},
             delivered : BOOLEAN \cup {Keep}]
  BY DEF TypeOK
<1>2. Idle.step = "idle"
  BY DEF Idle
<1> QED
  BY <1>1, <1>2

(* A handler that moves on to its next step, and one that answers.         *)
LEMMA CallTyped ==
  ASSUME TypeOK, NEW p \in Calls
  PROVE  /\ Answer(p) => TypeOK!6'
         /\ \A step \in {"execute", "record", "commit"} :
              call[p].step \in {"check", "execute", "record", "commit"}
                /\ Goto(p, step) => TypeOK!6'
<1>1. Answer(p) => TypeOK!6'
  BY DEF TypeOK, Answer
<1>2. ASSUME NEW step \in {"execute", "record", "commit"}, Goto(p, step),
             call[p].step \in {"check", "execute", "record", "commit"}
      PROVE  TypeOK!6'
  BY <1>2, CallFields DEF TypeOK, Goto
<1> QED
  BY <1>1, <1>2

(* Type correctness is inductive: one step per handler.                    *)
LEMMA TypeStep == TypeOK /\ [Next]_vars => TypeOK'
<1> SUFFICES ASSUME TypeOK, [Next]_vars PROVE TypeOK'
  OBVIOUS
<1>1. ASSUME NEW p \in Calls, Receive(p) PROVE TypeOK'
  <2>1. PICK c \in Command : call' = [call EXCEPT ![p] =
            [step |-> "check", command |-> c, seen |-> status[c.decision]]]
    BY <1>1 DEF Receive
  <2>2. status[c.decision] \in Status
    BY DEF TypeOK, Command
  <2>3. TypeOK!6'
    BY <2>1, <2>2 DEF TypeOK
  <2> QED
    BY <1>1, <2>3 DEF Receive, TypeOK, tables
<1>2. ASSUME NEW p \in Calls, CheckIdempotency(p) PROVE TypeOK'
  BY <1>2, CallTyped DEF CheckIdempotency, TypeOK, tables
<1>3. ASSUME NEW p \in Calls, Execute(p) PROVE TypeOK'
  BY <1>3, CallTyped DEF Execute, TypeOK, tables
<1>4. ASSUME NEW p \in Calls, RecordCheck(p) PROVE TypeOK'
  <2>1. TypeOK!6'
    BY <1>4, CallTyped DEF RecordCheck
  <2>2. route' \in Routes \cup {InitialRoute}
    BY <1>4, CallFields DEF RecordCheck, TypeOK, Command
  <2> QED
    BY <1>4, <2>1, <2>2 DEF RecordCheck, TypeOK
<1>5. ASSUME NEW p \in Calls, Commit(p) PROVE TypeOK'
  <2>1. TypeOK!6'
    BY <1>5, CallTyped DEF Commit
  <2>2. call[p].command \in Command
    BY <1>5, CallFields DEF Commit
  <2>3. route' \in Routes \cup {InitialRoute}
    BY <1>5, <2>2 DEF Commit, TypeOK, Command
  <2>4. status' \in [Decisions -> Status]
    <3>1. call[p].command.decision \in Decisions
      BY <2>2 DEF Command
    <3>2. PICK s : /\ s \in {status[call[p].command.decision], "EXECUTED"}
                   /\ \/ status' = [status EXCEPT ![call[p].command.decision] = s]
                      \/ UNCHANGED status
      BY <1>5 DEF Commit
    <3> QED
      BY <3>1, <3>2 DEF TypeOK, Status, LifecycleStatus
  <2>5. actions' \in Seq({Row(c) : c \in Command})
    <3>1. Row(call[p].command) \in {Row(c) : c \in Command}
      BY <2>2
    <3>2. actions' = actions \/ actions' = Append(actions, Row(call[p].command))
      BY <1>5 DEF Commit
    <3>3. actions \in Seq({Row(c) : c \in Command})
      BY DEF TypeOK
    <3> HIDE DEF Row, Command
    <3> QED
      BY <3>1, <3>2, <3>3
  <2> QED
    BY <1>5, <2>1, <2>3, <2>4, <2>5 DEF Commit, TypeOK
<1>6. ASSUME NEW p \in Calls, BeginSaveDecision(p) PROVE TypeOK'
  BY <1>6 DEF BeginSaveDecision, TypeOK, tables
<1>7. ASSUME NEW p \in Calls, CommitSaveDecision(p) PROVE TypeOK'
  <2>1. TypeOK!6'
    BY <1>7, CallTyped DEF CommitSaveDecision
  <2>2. status' \in [Decisions -> Status]
    BY <1>7 DEF CommitSaveDecision, TypeOK, Status
  <2> QED
    BY <1>7, <2>1, <2>2 DEF CommitSaveDecision, TypeOK
<1>8. ASSUME NEW p \in Calls, RollBack(p) PROVE TypeOK'
  BY <1>8, CallTyped DEF RollBack, TypeOK, tables
<1>9. ASSUME NEW d \in Decisions, UpdateRecommendation(d) PROVE TypeOK'
  BY <1>9 DEF UpdateRecommendation, TypeOK, Status, LifecycleStatus
<1>10. ASSUME NEW d \in Decisions, CreateApproval(d) PROVE TypeOK'
  <2>1. PICK decision \in ApprovalDecision :
          /\ approvals' = [approvals EXCEPT ![d] = Append(@, decision)]
          /\ status' = [status EXCEPT ![d] = StatusAfter[decision]]
    BY <1>10 DEF CreateApproval
  <2>2. StatusAfter[decision] \in Status
    BY DEF StatusAfter, ApprovalDecision, Status, LifecycleStatus
  <2>3. Append(approvals[d], decision) \in Seq(ApprovalDecision)
    BY DEF TypeOK
  <2> QED
    BY <1>10, <2>1, <2>2, <2>3 DEF CreateApproval, TypeOK
<1>11. ASSUME NEW p \in Calls, BeginUpdateShipment(p) PROVE TypeOK'
  BY <1>11 DEF BeginUpdateShipment, TypeOK, tables
<1>12. ASSUME NEW p \in Calls, CommitUpdateShipment(p) PROVE TypeOK'
  <2>1. TypeOK!6'
    BY <1>12, CallTyped DEF CommitUpdateShipment
  <2>2. route' \in Routes \cup {InitialRoute}
    BY <1>12, CallFields DEF CommitUpdateShipment, TypeOK
  <2>3. delivered' \in BOOLEAN
    <3>1. CASE call[p].delivered = Keep
      BY <1>12, <3>1 DEF CommitUpdateShipment, TypeOK
    <3>2. CASE call[p].delivered # Keep
      BY <1>12, <3>2, CallFields DEF CommitUpdateShipment
    <3> QED
      BY <3>1, <3>2
  <2> QED
    BY <1>12, <2>1, <2>2, <2>3 DEF CommitUpdateShipment, TypeOK
<1>13. CASE UNCHANGED vars
  BY <1>13 DEF vars, TypeOK
<1> QED
  BY <1>1, <1>2, <1>3, <1>4, <1>5, <1>6, <1>7, <1>8, <1>9, <1>10, <1>11, <1>12,
     <1>13 DEF Next

(* Every row, route and open request has its type, for every set of        *)
(* decisions, keys, clients, routes and concurrent calls.                  *)
THEOREM TypeCorrect == Spec => []TypeOK
<1>1. Init => TypeOK
  <2>1. \A S : <<>> \in Seq(S)
    OBVIOUS
  <2>2. Init => TypeOK!3
    BY <2>1 DEF Init
  <2>3. Init => TypeOK!1 /\ TypeOK!2 /\ TypeOK!4 /\ TypeOK!5 /\ TypeOK!6
    BY <2>1 DEF Init, Status
  <2> QED
    BY <2>2, <2>3 DEF TypeOK
<1> QED
  BY <1>1, TypeStep, PTL DEF Spec

-----------------------------------------------------------------------------
(* What the commit does to the tables, if it writes at all.                *)
Recorded(c) ==
  /\ c \in Command
  /\ \A i \in Rows : actions[i].id # ActionId(c)
  /\ actions' = Append(actions, Row(c))
  /\ route' = c.route

(* A recorded action is found in the table, with its route.                *)
LEMMA RecordedRow ==
  ASSUME TypeOK, NEW c, Recorded(c)
  PROVE  \E i \in Rows' : actions'[i].route = route'
<1>1. Row(c).route = c.route
  BY DEF Row
<1>2. actions \in Seq({Row(k) : k \in Command})
  BY DEF TypeOK
<1>3. Row(c) \in {Row(k) : k \in Command}
  BY DEF Recorded
<1>4. /\ Len(actions) + 1 \in Rows'
      /\ actions'[Len(actions) + 1] = Row(c)
  BY <1>2, <1>3, AppendRow DEF Recorded
<1> QED
  BY <1>1, <1>4 DEF Recorded

(* A commit writes one new row, or nothing.                                *)
LEMMA CommitStep ==
  ASSUME TypeOK, NEW p \in Calls, Commit(p)
  PROVE  UNCHANGED <<actions, route>> \/ \E c : Recorded(c)
<1>1. call[p].command \in Command
  BY CallFields DEF Commit
<1> QED
  BY <1>1 DEF Commit, Recorded

(* A replay may move the shipment, but only to the route of the action     *)
(* that it replays.                                                        *)
LEMMA RecordCheckStep ==
  ASSUME NEW p \in Calls, RecordCheck(p)
  PROVE  /\ UNCHANGED actions
         /\ UNCHANGED route \/ \E i \in Rows : actions[i].route = route'
<1>1. CASE Existing(call[p].command) = {}
  BY <1>1 DEF RecordCheck
<1>2. CASE Existing(call[p].command) # {}
  <2>1. PICK i \in Existing(call[p].command) :
          route' = IF Replays(i, call[p].command) THEN call[p].command.route ELSE route
    BY <1>2 DEF RecordCheck
  <2>2. i \in Rows
    BY <2>1 DEF Existing
  <2>3. Replays(i, call[p].command) => actions[i].route = call[p].command.route
    BY DEF Replays, Fingerprint
  <2> QED
    BY <2>1, <2>2, <2>3 DEF RecordCheck
<1> QED
  BY <1>1, <1>2

(* A retry never carries an action out twice, however many calls run next  *)
(* to each other: the commit refuses a row whose id is taken.              *)
THEOREM RetrySafety == Spec => []RetryExecutesOnce
<1>1. Init => RetryExecutesOnce
  BY DEF Init, RetryExecutesOnce, Rows
<1>2. TypeOK /\ RetryExecutesOnce /\ [Next]_vars => RetryExecutesOnce'
  <2> SUFFICES ASSUME TypeOK, RetryExecutesOnce, [Next]_vars
               PROVE  RetryExecutesOnce'
    OBVIOUS
  <2>1. CASE UNCHANGED actions
    BY <2>1 DEF RetryExecutesOnce, Rows
  <2>2. ASSUME NEW c, Recorded(c) PROVE RetryExecutesOnce'
    <3>1. Row(c).id = ActionId(c)
      BY DEF Row
    <3>2. actions \in Seq({Row(k) : k \in Command})
      BY DEF TypeOK
    <3>3. Row(c) \in {Row(k) : k \in Command}
      BY <2>2 DEF Recorded
    <3> QED
      BY <2>2, <3>1, <3>2, <3>3, AppendNewId DEF Recorded
  <2>3. ASSUME NEW p \in Calls, Commit(p) PROVE RetryExecutesOnce'
    BY <2>1, <2>2, <2>3, CommitStep
  <2> QED
    BY <2>1, <2>3 DEF Next, vars, tables, Receive, CheckIdempotency, Execute,
       RecordCheck, BeginSaveDecision, CommitSaveDecision, BeginUpdateShipment,
       CommitUpdateShipment, RollBack, UpdateRecommendation, CreateApproval
<1> QED
  BY <1>1, <1>2, TypeCorrect, PTL DEF Spec

(* The agent never moves the shipment to a route that no recorded action   *)
(* asked for, for any number of concurrent, failing and repeated calls.    *)
THEOREM RouteSafety == Spec => RouteExplained
<1>1. ASSUME TypeOK, [Next]_vars, NEW q \in Calls, Answers(q), route' # route
      PROVE  \E i \in Rows' : actions'[i].route = route'
  <2>1. ASSUME NEW p \in Calls, CommitUpdateShipment(p) PROVE FALSE
    <3>1. q # p
      BY <1>1, <2>1 DEF CommitUpdateShipment, Answers
    <3>2. call'[q] = call[q]
      BY <2>1, <3>1 DEF CommitUpdateShipment, Answer, TypeOK
    <3>3. Idle.step = "idle"
      BY DEF Idle
    <3> QED
      BY <1>1, <3>2, <3>3 DEF Answers
  <2>2. ASSUME NEW p \in Calls, Commit(p)
        PROVE  \E i \in Rows' : actions'[i].route = route'
    BY <1>1, <2>2, CommitStep, RecordedRow
  <2>3. ASSUME NEW p \in Calls, RecordCheck(p)
        PROVE  \E i \in Rows' : actions'[i].route = route'
    BY <1>1, <2>3, RecordCheckStep DEF Rows
  <2> QED
    BY <1>1, <2>1, <2>2, <2>3 DEF Next, vars, tables, Receive, CheckIdempotency,
       Execute, BeginSaveDecision, CommitSaveDecision, BeginUpdateShipment,
       RollBack, UpdateRecommendation, CreateApproval
<1>2. TypeOK /\ [Next]_vars => [AgentExplainsRoute]_vars
  BY <1>1 DEF AgentExplainsRoute
<1> QED
  BY <1>2, TypeCorrect, PTL DEF Spec, RouteExplained

-----------------------------------------------------------------------------
(* The endpoint implements ActionLedger. *)

requests == [p \in Calls |-> RequestOf(call[p])]
approved == {d \in Decisions : Approved(d)}

(* What a request is in ActionLedger, by the step it has reached.          *)
LEMMA RequestFields ==
  ASSUME TypeOK, NEW p \in Calls
  PROVE  /\ call[p].step \in {"check", "execute", "record", "commit"}
              => requests[p] = AL!Action(Row(call[p].command))
         /\ call[p] = Idle \/ call[p].step = "save" => requests[p] = AL!None
         /\ call[p].step = "patch"
              => requests[p] = IF call[p].route = Keep THEN AL!None
                               ELSE AL!Plan(call[p].route)
<1>1. Idle.step = "idle"
  BY DEF Idle
<1> QED
  BY <1>1 DEF requests, RequestOf, AL!Action, AL!Plan, AL!None

(* An answer closes the request; a step of a handler leaves it as it is.   *)
LEMMA RequestSteps ==
  ASSUME TypeOK, NEW p \in Calls
  PROVE  /\ Answer(p) => requests' = [requests EXCEPT ![p] = AL!None]
         /\ \A step \in {"execute", "record", "commit"} :
              call[p].step \in {"check", "execute", "record", "commit"}
                /\ Goto(p, step) => requests' = requests
<1>1. RequestOf(Idle) = AL!None
  BY DEF RequestOf, Idle, AL!None
<1>2. call \in [Calls -> {call[q] : q \in Calls}]
  BY DEF TypeOK
<1>3. Answer(p) => requests' = [requests EXCEPT ![p] = AL!None]
  BY <1>1, <1>2 DEF requests, Answer
<1>4. ASSUME NEW step \in {"execute", "record", "commit"}, Goto(p, step),
             call[p].step \in {"check", "execute", "record", "commit"}
      PROVE  requests' = requests
  <2>1. RequestOf(call'[p]) = RequestOf(call[p])
    BY <1>2, <1>4 DEF Goto, RequestOf
  <2> QED
    BY <1>2, <1>4, <2>1 DEF Goto, requests
<1> QED
  BY <1>3, <1>4

(* What may be requested only changes with the rows of a decision.         *)
LEMMA ApprovedChange ==
  ASSUME TypeOK, NEW d \in Decisions,
         \A e \in Decisions \ {d} : status'[e] = status[e] /\ approvals'[e] = approvals[e]
  PROVE  approved' \in {approved \cup {d}, approved \ {d}}
<1>1. \A e \in Decisions \ {d} : Approved(e)' <=> Approved(e)
  BY DEF Approved
<1> QED
  BY <1>1 DEF approved

(* Once the decision is executed, only its signatures can keep it approved. *)
LEMMA ApprovedOnceExecuted ==
  ASSUME TypeOK, NEW d \in Decisions, UNCHANGED approvals,
         status' = [status EXCEPT ![d] = "EXECUTED"]
  PROVE  approved' \in {approved, approved \ {d}}
<1>1. \A e \in Decisions \ {d} : Approved(e)' <=> Approved(e)
  BY DEF Approved, TypeOK
<1>2. Approved(d)' => Approved(d)
  BY DEF Approved, TypeOK
<1> QED
  BY <1>1, <1>2 DEF approved

(* A call that is answered with the tables as they were has withdrawn its  *)
(* request, if it had one.                                                 *)
LEMMA AnsweredOnly ==
  ASSUME TypeOK, NEW p \in Calls, Answer(p), UNCHANGED <<approved, actions, route>>
  PROVE  AL!Withdraw(p) \/ UNCHANGED <<approved, actions, route, requests>>
<1>1. requests' = [requests EXCEPT ![p] = AL!None]
  BY RequestSteps
<1>2. CASE requests[p] = AL!None
  BY <1>1, <1>2 DEF requests
<1>3. CASE requests[p] # AL!None
  BY <1>1, <1>3 DEF AL!Withdraw, AL!Close, AL!Open, requests, approved
<1> QED
  BY <1>2, <1>3

(* The commit of a new row carries the requested action out.               *)
LEMMA CommitCarriesOut ==
  ASSUME TypeOK, NEW p \in Calls, Commit(p)
  PROVE  AL!CarryOut(p) \/ AL!Withdraw(p)
<1> DEFINE c == call[p].command
<1>1. /\ c \in Command /\ requests[p] = AL!Action(Row(c)) /\ c.decision \in Decisions
      /\ requests' = [requests EXCEPT ![p] = AL!None]
  BY CallFields, RequestFields, RequestSteps DEF Commit, Command
<1>2. CASE \E i \in Rows : actions[i].id = ActionId(c)
  <2>1. UNCHANGED <<approved, actions, route>>
    BY <1>2 DEF Commit, approved, Approved
  <2>2. requests[p] # AL!None
    BY <1>1 DEF AL!Action, AL!None
  <2> QED
    BY <1>1, <2>1, <2>2 DEF AL!Withdraw, AL!Close, AL!Open, requests, approved
<1>3. CASE ~ \E i \in Rows : actions[i].id = ActionId(c)
  <2>1. /\ actions' = Append(actions, Row(c)) /\ route' = c.route
        /\ UNCHANGED approvals
        /\ \/ UNCHANGED status
           \/ status' = [status EXCEPT ![c.decision] = "EXECUTED"]
    BY <1>1, <1>3 DEF Commit, TypeOK
  <2>2. approved' \in {approved, approved \ {c.decision}}
    BY <1>1, <2>1, ApprovedOnceExecuted DEF approved, Approved
  <2>3. /\ Row(c) \in {Row(k) : k \in Command} /\ Row(c).id = ActionId(c)
        /\ Row(c).route = c.route /\ Row(c).decision = c.decision
    BY <1>1 DEF Row
  <2>4. DOMAIN actions = Rows
    BY DEF Rows, TypeOK
  <2>5. \A i \in DOMAIN actions : actions[i].id # Row(c).id
    BY <1>3, <2>3, <2>4
  <2> HIDE DEF c
  <2> QED
    BY <1>1, <2>1, <2>2, <2>3, <2>5 DEF AL!CarryOut, AL!Close, AL!Open, requests, approved
<1> QED
  BY <1>2, <1>3

(* The second idempotency check lets the request through, answers it from  *)
(* the action on record or refuses it.                                     *)
LEMMA RecordCheckAnswers ==
  ASSUME TypeOK, NEW p \in Calls, RecordCheck(p)
  PROVE  \/ AL!Repeat(p) \/ AL!Withdraw(p)
         \/ UNCHANGED <<approved, actions, route, requests>>
<1> DEFINE c == call[p].command
<1>1. c \in Command /\ requests[p] = AL!Action(Row(c))
  BY CallFields, RequestFields DEF RecordCheck
<1>2. UNCHANGED <<approved, actions>>
  BY DEF RecordCheck, approved, Approved
<1>3. CASE Existing(c) = {}
  BY <1>2, <1>3, RequestSteps DEF RecordCheck
<1>4. CASE Existing(c) # {}
  <2>1. PICK i \in Existing(c) :
          Answer(p) /\ route' = IF Replays(i, c) THEN c.route ELSE route
    BY <1>4 DEF RecordCheck
  <2>2. CASE ~Replays(i, c)
    BY <1>2, <2>1, <2>2, AnsweredOnly
  <2>3. CASE Replays(i, c)
    <3>1. /\ i \in DOMAIN actions
          /\ actions[i].id = ActionId(c) \/ actions[i].key = c.key
      BY DEF Existing, Rows, TypeOK
    <3>2. actions[i].decision = c.decision /\ actions[i].route = c.route
      BY <2>3 DEF Replays, Fingerprint
    <3>3. /\ Row(c) \in {Row(k) : k \in Command} /\ Row(c).id = ActionId(c)
          /\ Row(c).key = c.key
          /\ Row(c).route = c.route /\ Row(c).decision = c.decision
      BY <1>1 DEF Row
    <3>4. requests' = [requests EXCEPT ![p] = AL!None] /\ route' = c.route
      BY <2>1, <2>3, RequestSteps
    <3> HIDE DEF c
    <3>5. AL!Repeat(p)
      BY <1>1, <1>2, <3>1, <3>2, <3>3, <3>4
         DEF AL!Repeat, AL!Close, AL!Open, requests, approved
    <3> QED
      BY <3>5
  <2> QED
    BY <2>2, <2>3
<1> QED
  BY <1>3, <1>4

(* POST /actions/execute, the decision agent, the sign-offs and the PATCH  *)
(* of a shipment together implement ActionLedger: every step accepts,      *)
(* carries out, repeats or drops one request, reviews one decision, or     *)
(* stutters.                                                               *)
THEOREM Refinement == Spec => RefinesLedger
<1>1. Init => AL!Init
  <2>1. RequestOf(Idle) = AL!None
    BY DEF RequestOf, Idle, AL!None
  <2> QED
    BY <2>1 DEF Init, AL!Init, Approved
<1>2. TypeOK /\ [Next]_vars
        => AL!Next \/ UNCHANGED <<approved, actions, route, requests>>
  <2> SUFFICES ASSUME TypeOK, [Next]_vars
               PROVE  AL!Next \/ UNCHANGED <<approved, actions, route, requests>>
    OBVIOUS
  <2>1. UNCHANGED <<status, approvals>> => UNCHANGED approved
    BY DEF approved, Approved
  <2>2. ASSUME NEW p \in Calls, Receive(p) PROVE AL!Accept(p)
    <3>1. PICK c \in Command :
            /\ Approved(c.decision)
            /\ call' = [call EXCEPT ![p] =
                 [step |-> "check", command |-> c, seen |-> status[c.decision]]]
      BY <2>2 DEF Receive
    <3>2. /\ Row(c) \in {Row(k) : k \in Command}
          /\ Row(c).decision = c.decision /\ c.decision \in Decisions
      BY DEF Row, Command
    <3>3. requests' = [requests EXCEPT ![p] = AL!Action(Row(c))]
      BY <3>1 DEF requests, RequestOf, AL!Action, TypeOK
    <3>4. requests[p] = AL!None /\ UNCHANGED <<approved, actions, route>>
      BY <2>1, <2>2, RequestFields DEF Receive, tables
    <3> QED
      BY <3>1, <3>2, <3>3, <3>4 DEF AL!Accept, AL!Open, requests, approved
  <2>3. ASSUME NEW p \in Calls, CheckIdempotency(p) \/ Execute(p) \/ RollBack(p)
        PROVE  AL!Withdraw(p) \/ UNCHANGED <<approved, actions, route, requests>>
    <3>1. UNCHANGED <<approved, actions, route>>
      BY <2>1, <2>3 DEF CheckIdempotency, Execute, RollBack, tables
    <3>2. Answer(p) \/ UNCHANGED requests
      BY <2>3, RequestSteps DEF CheckIdempotency, Execute, RollBack
    <3> QED
      BY <3>1, <3>2, AnsweredOnly
  <2>4. ASSUME NEW p \in Calls, BeginSaveDecision(p)
        PROVE  UNCHANGED <<approved, actions, route, requests>>
    <3>1. UNCHANGED <<approved, actions, route>> /\ requests[p] = AL!None
      BY <2>1, <2>4, RequestFields DEF BeginSaveDecision, tables
    <3>2. requests' = [requests EXCEPT ![p] = AL!None]
      <4>1. PICK d \in Decisions : call' = [call EXCEPT ![p] =
              [step |-> "save", decision |-> d, seen |-> status[d]]]
        BY <2>4 DEF BeginSaveDecision
      <4> QED
        BY <4>1 DEF requests, RequestOf, AL!None, TypeOK
    <3> QED
      BY <3>1, <3>2 DEF requests
  <2>5. ASSUME NEW p \in Calls, CommitSaveDecision(p)
        PROVE  AL!Review(call[p].decision) /\ call[p].decision \in Decisions
    <3>1. call[p].decision \in Decisions /\ requests[p] = AL!None
      BY <2>5, CallFields, RequestFields DEF CommitSaveDecision
    <3>2. approved' \in {approved \cup {call[p].decision}, approved \ {call[p].decision}}
      BY <2>5, <3>1, ApprovedChange DEF CommitSaveDecision, TypeOK
    <3>3. requests' = requests
      BY <2>5, <3>1, RequestSteps DEF CommitSaveDecision, requests
    <3> QED
      BY <2>5, <3>1, <3>2, <3>3 DEF CommitSaveDecision, AL!Review, requests, approved
  <2>6. ASSUME NEW p \in Calls, BeginUpdateShipment(p)
        PROVE  AL!Accept(p) \/ UNCHANGED <<approved, actions, route, requests>>
    <3>1. UNCHANGED <<approved, actions, route>> /\ requests[p] = AL!None
      BY <2>1, <2>6, RequestFields DEF BeginUpdateShipment, tables
    <3>2. PICK r \in Routes \cup {Keep}, s \in BOOLEAN \cup {Keep} :
            call' = [call EXCEPT ![p] = [step |-> "patch", route |-> r, delivered |-> s]]
      BY <2>6 DEF BeginUpdateShipment
    <3>3. requests' = [requests EXCEPT ![p] = IF r = Keep THEN AL!None ELSE AL!Plan(r)]
      BY <3>2 DEF requests, RequestOf, AL!None, AL!Plan, TypeOK
    <3>4. CASE r = Keep
      BY <3>1, <3>3, <3>4 DEF requests
    <3>5. CASE r # Keep
      BY <3>1, <3>3, <3>5 DEF AL!Accept, AL!Open, requests, approved
    <3> QED
      BY <3>4, <3>5
  <2>7. ASSUME NEW p \in Calls, CommitUpdateShipment(p)
        PROVE  AL!Follow(p) \/ UNCHANGED <<approved, actions, route, requests>>
    <3>1. /\ call[p].route \in Routes \cup {Keep}
          /\ requests[p] = IF call[p].route = Keep THEN AL!None ELSE AL!Plan(call[p].route)
          /\ requests' = [requests EXCEPT ![p] = AL!None]
          /\ UNCHANGED <<approved, actions>>
      BY <2>1, <2>7, CallFields, RequestFields, RequestSteps DEF CommitUpdateShipment
    <3>2. CASE call[p].route = Keep
      BY <2>7, <3>1, <3>2 DEF CommitUpdateShipment, requests
    <3>3. CASE call[p].route # Keep
      BY <2>7, <3>1, <3>3
         DEF CommitUpdateShipment, AL!Follow, AL!Close, AL!Open, requests, approved
    <3> QED
      BY <3>2, <3>3
  <2>8. ASSUME NEW d \in Decisions, UpdateRecommendation(d) \/ CreateApproval(d)
        PROVE  AL!Review(d)
    <3>1. approved' \in {approved \cup {d}, approved \ {d}}
      <4>1. \A e \in Decisions \ {d} : status'[e] = status[e] /\ approvals'[e] = approvals[e]
        BY <2>8 DEF UpdateRecommendation, CreateApproval, TypeOK
      <4> QED
        BY <4>1, ApprovedChange
    <3>2. UNCHANGED <<actions, route, requests>>
      BY <2>8 DEF UpdateRecommendation, CreateApproval, requests
    <3> QED
      BY <3>1, <3>2 DEF AL!Review, requests, approved
  <2>9. CASE UNCHANGED vars
    BY <2>1, <2>9 DEF vars, requests
  <2> QED
    BY <2>2, <2>3, <2>4, <2>5, <2>6, <2>7, <2>8, <2>9, CommitCarriesOut,
       RecordCheckAnswers DEF Next, AL!Next
<1>3. TypeOK /\ [Next]_vars => [AL!Next]_(AL!vars)
  BY <1>2 DEF AL!vars, requests, approved
<1> QED
  BY <1>1, <1>3, TypeCorrect, PTL DEF Spec, RefinesLedger, AL!Spec
=============================================================================
