--------------------------- MODULE VitConnect_proofs ---------------------------
(***************************************************************************)
(* Proofs about VitConnect, for any flows, handlers, providers and bounds. *)
(***************************************************************************)
EXTENDS VitConnect, FiniteSetTheorems, TLAPS

USE EnvironmentAssumption, TypesAssumption, TokensAssumption, KeysAssumption, BoundsAssumption

Flow(h) == request[h].op = "callback"
Check(h) == request[h].op = "refresh"
Stored(r) == rows[r] # NoRow

(***************************************************************************)
(* Where a flow is: pending, with one callback, or in one row.  What is    *)
(* known of its provider is the same at each of them.                      *)
(***************************************************************************)
FlowInv ==
    /\ \A s \in Tokens : states[s] # Absent =>
          /\ \A h \in Handlers : ~ (Flow(h) /\ request[h].state = s)
          /\ \A r \in Ids : ~ (Stored(r) /\ rows[r].state = s)
          /\ given[s] # NoFlow => states[s].provider = given[s]
    /\ \A h \in Handlers : Flow(h) =>
          /\ request[h].started = given[request[h].state]
          /\ \A g \in Handlers : Flow(g) /\ request[g].state = request[h].state => g = h
          /\ \A r \in Ids : ~ (Stored(r) /\ rows[r].state = request[h].state)
    /\ \A r \in Ids : Stored(r) /\ rows[r].state # NoFlow =>
          /\ rows[r].type = given[rows[r].state] /\ rows[r].type # NoFlow
          /\ \A q \in Ids : Stored(q) /\ rows[q].state = rows[r].state => q = r

(***************************************************************************)
(* What a health check has loaded: the row as it is, but for what another  *)
(* check that overlaps, or a disconnect, has written since.                *)
(***************************************************************************)
CheckInv ==
    \A h \in Handlers : Check(h) =>
        LET r == request[h].row  seen == request[h].seen IN
        /\ Stored(r)
        /\ seen.key = rows[r].key /\ seen.type = rows[r].type
        /\ seen.health # rows[r].health => rows[r].checked = epoch
        /\ r \notin overlapped =>
              /\ rows[r].active => seen = rows[r]
              /\ \A g \in Handlers : Check(g) /\ request[g].row = r => g = h

(***************************************************************************)
(* Facts about records of the unions a row and a request are taken from.   *)
(***************************************************************************)
LEMMA RowKinds ==
    ASSUME NEW x \in Row \cup {NoRow}
    PROVE  x # NoRow => x \in Row
OBVIOUS

\* An empty place of the table is no connection.
LEMMA NoRowIsNone == NoRow \notin Row
BY DEF NoRow, Row, Types, OAuthTypes

\* The kinds of handlers in progress are told apart by their operation.
LEMMA RequestKinds ==
    ASSUME NEW x \in Request \cup {Idle}
    PROVE  /\ x.op = "callback" => x \in [op : {"callback"}, type : OAuthTypes, state : Tokens, started : OAuthTypes]
           /\ x.op = "wizard" => x \in [op : {"wizard"}, type : OtherTypes]
           /\ x.op = "refresh" => x \in [op : {"refresh"}, row : Ids, seen : Row]
           /\ x \in Request => x # Idle
BY DEF Request, Idle

\* The columns Insert sets are columns of a row.
LEMMA NewRowIsRow ==
    ASSUME TypeOK, NEW type \in Types, NEW s \in Tokens \cup {NoFlow}
    PROVE  NewRow(type, s) \in Row
BY DEF TypeOK, NewRow, Row, Unknown

\* What a health check may find has the types of the columns it is written to.
LEMMA OutcomeKinds ==
    ASSUME NEW row \in Row, NEW found \in Outcomes(row)
    PROVE  /\ found.status \in {"connected", "expired", "error", "disconnected"}
           /\ found.health \in {0, 90, 98}
BY DEF Outcomes, Row

\* What the end of a health check makes of a row is a row, column by column.
LEMMA UpdatedIsRow ==
    ASSUME TypeOK, NEW row \in Row, NEW seen \in Row, NEW found \in Outcomes(seen)
    PROVE  LET new == Updated(row, seen, found) IN
           /\ new \in Row
           /\ new.checked = epoch
           /\ new.status = IF found.status # seen.status THEN found.status ELSE row.status
           /\ new.health = IF found.health # seen.health THEN found.health ELSE row.health
           /\ \A col \in {"type", "key", "active", "state"} : new[col] = row[col]
<1> DEFINE status == IF found.status # seen.status THEN found.status ELSE row.status
           health == IF found.health # seen.health THEN found.health ELSE row.health
<1>1. status \in {"connected", "expired", "error", "disconnected"}
  BY OutcomeKinds DEF Row
<1>2. health \in {Unknown, 0, 90, 98}
  BY OutcomeKinds DEF Row
<1>3. epoch \in -1 .. MaxRestarts
  BY DEF TypeOK
<1>4. Updated(row, seen, found)
        = [row EXCEPT !.status = status, !.health = health, !.checked = epoch]
  BY DEF Updated
<1> HIDE DEF status, health
<1>5. [row EXCEPT !.status = status, !.health = health, !.checked = epoch] \in Row
  BY <1>1, <1>2, <1>3 DEF Row
<1> QED BY <1>4, <1>5 DEF Row, status, health

\* What an Insert does to the table.
LEMMA InsertIsOne ==
    ASSUME TypeOK, NEW row \in Row, Insert(row)
    PROVE  \E r \in Ids : /\ ~ Stored(r)
                          /\ rows' = [rows EXCEPT ![r] = row]
                          /\ rows' \in [Ids -> Row \cup {NoRow}]
BY DEF TypeOK, Insert, Stored

\* What the end of a health check does to the table.
LEMMA CheckIsOne ==
    ASSUME TypeOK, CheckInv, NEW h \in Handlers, RefreshAnswered(h)
    PROVE  LET r == request[h].row  seen == request[h].seen IN
           /\ Check(h) /\ r \in Ids /\ seen \in Row /\ rows[r] \in Row
           /\ \E found \in Outcomes(seen) :
                 /\ rows' = [rows EXCEPT ![r] = Updated(rows[r], seen, found)]
                 /\ rows' \in [Ids -> Row \cup {NoRow}]
<1>1. request[h] \in [op : {"refresh"}, row : Ids, seen : Row]
  BY RequestKinds DEF TypeOK, RefreshAnswered
<1> DEFINE r == request[h].row
           seen == request[h].seen
<1>2. Check(h) /\ r \in Ids /\ seen \in Row
  BY <1>1 DEF Check
<1>3. rows[r] \in Row
  BY <1>2, RowKinds DEF TypeOK, CheckInv, Stored
<1>4. PICK found \in Outcomes(seen) : rows' = [rows EXCEPT ![r] = Updated(rows[r], seen, found)]
  BY DEF RefreshAnswered
<1>5. Updated(rows[r], seen, found) \in Row
  BY <1>2, <1>3, UpdatedIsRow
<1>6. rows' \in [Ids -> Row \cup {NoRow}]
  BY <1>2, <1>4, <1>5 DEF TypeOK
<1> QED BY <1>2, <1>3, <1>4, <1>6

\* Types are preserved; what a request belongs to comes from FlowInv and CheckInv.
LEMMA TypeStep == TypeOK /\ FlowInv /\ CheckInv /\ [Next]_vars => TypeOK'
<1> SUFFICES ASSUME TypeOK, FlowInv, CheckInv, [Next]_vars PROVE TypeOK'
  OBVIOUS
<1>1. ASSUME NEW s \in Tokens, NEW p \in Types, OAuthStart(s, p) PROVE TypeOK'
  BY <1>1 DEF TypeOK, OAuthStart, MakeState, process
<1>2. ASSUME NEW s \in Tokens, NEW r \in Ids, Reconnect(s, r) PROVE TypeOK'
  <2>1. rows[r] \in Row
    BY <1>2, RowKinds DEF TypeOK, Reconnect
  <2>2. rows[r].type \in Types
    BY <2>1 DEF Row
  <2> QED BY <1>1, <1>2, <2>2 DEF Reconnect
<1>3. ASSUME NEW h \in Handlers, NEW p \in OAuthTypes, NEW s \in Tokens, CallbackBegin(h, p, s)
      PROVE  TypeOK'
  <2>1. CASE Fresh(s)
    <3>1. given[s] \in OAuthTypes /\ states[s].provider = given[s]
      BY <1>3, <2>1 DEF TypeOK, FlowInv, CallbackBegin, Fresh
    <3>2. request'[h] \in Request
      BY <1>3, <2>1, <3>1 DEF TypeOK, CallbackBegin, Request
    <3>3. request' \in [Handlers -> Request \cup {Idle}]
      BY <1>3, <2>1, <3>2 DEF TypeOK, CallbackBegin
    <3> QED BY <1>3, <3>3 DEF TypeOK, CallbackBegin, ConsumeState, process
  <2>2. CASE ~ Fresh(s)
    BY <1>3, <2>2 DEF TypeOK, CallbackBegin, ConsumeState, process
  <2> QED BY <2>1, <2>2
<1>4. ASSUME NEW h \in Handlers, CallbackAnswered(h) PROVE TypeOK'
  <2>1. request[h] \in [op : {"callback"}, type : OAuthTypes, state : Tokens, started : OAuthTypes]
    BY <1>4, RequestKinds DEF TypeOK, CallbackAnswered
  <2>2. NewRow(request[h].type, request[h].state) \in Row
    BY <2>1, NewRowIsRow DEF Types
  <2>3. rows' \in [Ids -> Row \cup {NoRow}]
    <3>1. CASE UNCHANGED rows
      BY <3>1 DEF TypeOK
    <3>2. CASE Insert(NewRow(request[h].type, request[h].state))
      BY <3>2, <2>2, InsertIsOne
    <3> QED BY <1>4, <3>1, <3>2 DEF CallbackAnswered
  <2>4. request' \in [Handlers -> Request \cup {Idle}]
    BY <1>4 DEF TypeOK, CallbackAnswered, Return
  <2> QED BY <1>4, <2>3, <2>4 DEF TypeOK, CallbackAnswered, process
<1>5. ASSUME NEW h \in Handlers, NEW p \in OtherTypes, WizardBegin(h, p) PROVE TypeOK'
  BY <1>5 DEF TypeOK, WizardBegin, process, Request
<1>6. ASSUME NEW h \in Handlers, WizardAnswered(h) PROVE TypeOK'
  <2>1. request[h] \in [op : {"wizard"}, type : OtherTypes]
    BY <1>6, RequestKinds DEF TypeOK, WizardAnswered
  <2>2. NewRow(request[h].type, NoFlow) \in Row
    BY <2>1, NewRowIsRow DEF Types
  <2>3. rows' \in [Ids -> Row \cup {NoRow}]
    <3>1. CASE UNCHANGED rows
      BY <3>1 DEF TypeOK
    <3>2. CASE Insert(NewRow(request[h].type, NoFlow))
      BY <3>2, <2>2, InsertIsOne
    <3> QED BY <1>6, <3>1, <3>2 DEF WizardAnswered
  <2>4. request' \in [Handlers -> Request \cup {Idle}]
    BY <1>6 DEF TypeOK, WizardAnswered, Return
  <2> QED BY <1>6, <2>3, <2>4 DEF TypeOK, WizardAnswered, process
<1>7. ASSUME NEW h \in Handlers, NEW r \in Ids, RefreshBegin(h, r) PROVE TypeOK'
  <2>1. rows[r] \in Row
    BY <1>7, RowKinds DEF TypeOK, RefreshBegin
  <2>2. request'[h] \in Request
    BY <1>7, <2>1 DEF TypeOK, RefreshBegin, Request
  <2>3. request' \in [Handlers -> Request \cup {Idle}]
    BY <1>7, <2>2 DEF TypeOK, RefreshBegin
  <2> QED BY <1>7, <2>3 DEF TypeOK, RefreshBegin, process
<1>8. ASSUME NEW h \in Handlers, RefreshAnswered(h) PROVE TypeOK'
  <2>1. rows' \in [Ids -> Row \cup {NoRow}]
    BY <1>8, CheckIsOne
  <2>2. request' \in [Handlers -> Request \cup {Idle}]
    BY <1>8 DEF TypeOK, RefreshAnswered, Return
  <2> QED BY <1>8, <2>1, <2>2 DEF TypeOK, RefreshAnswered, process
<1>9. ASSUME NEW h \in Handlers, CommitFails(h) PROVE TypeOK'
  BY <1>9 DEF TypeOK, CommitFails, Return, process
<1>10. ASSUME NEW r \in Ids, Disconnect(r) PROVE TypeOK'
  <2>1. rows[r] \in Row
    BY <1>10, RowKinds DEF TypeOK, Disconnect
  <2>2. [rows[r] EXCEPT !.active = FALSE, !.status = "disconnected"] \in Row
    BY <2>1 DEF Row
  <2>3. rows' = [rows EXCEPT ![r] = [rows[r] EXCEPT !.active = FALSE, !.status = "disconnected"]]
    BY <1>10 DEF Disconnect
  <2>4. rows' \in [Ids -> Row \cup {NoRow}]
    BY <2>2, <2>3 DEF TypeOK
  <2> QED BY <1>10, <2>4 DEF TypeOK, Disconnect, process
<1>11. CASE Tick
  BY <1>11 DEF TypeOK, Tick
<1>12. CASE Restart
  BY <1>12 DEF TypeOK, Restart, ProcessKeys, Keys
<1>13. CASE UNCHANGED vars
  BY <1>13 DEF TypeOK, vars, process
<1> QED
  BY <1>1, <1>2, <1>3, <1>4, <1>5, <1>6, <1>7, <1>8, <1>9, <1>10, <1>11, <1>12, <1>13 DEF Next

------------------------------------------------------------------------------
\* A callback goes on to store a connection only if the code was exchanged.
LEMMA NotRaised ==
    ASSUME NEW p \in OAuthTypes, NEW a \in Answers, ~ Raises(p, a)
    PROVE  a["exchange"] = "ok"
BY DEF OAuthTypes, Raises, GoogleRaises, MicrosoftRaises, DropboxRaises

\* The flows of a table whose rows keep their type and their flow.
SameFlows ==
    \A r \in Ids : /\ Stored(r)' <=> Stored(r)
                   /\ Stored(r) => rows'[r].type = rows[r].type /\ rows'[r].state = rows[r].state

\* Every step keeps a flow in one place, and its provider with it.
LEMMA FlowStep == TypeOK /\ FlowInv /\ CheckInv /\ [Next]_vars => FlowInv'
<1> SUFFICES ASSUME TypeOK, FlowInv, CheckInv, [Next]_vars PROVE FlowInv'
  OBVIOUS
<1>a. ASSUME NEW h \in Handlers, Flow(h)
      PROVE  request[h] \in [op : {"callback"}, type : OAuthTypes, state : Tokens, started : OAuthTypes]
  BY <1>a, RequestKinds DEF TypeOK, Flow
<1>b. ASSUME NEW s \in Tokens, NEW p \in Types, OAuthStart(s, p) PROVE FlowInv'
  <2>1. \A h \in Handlers : ~ (Flow(h) /\ request[h].state = s)
    BY <1>a, <1>b DEF FlowInv, OAuthStart, NoFlow, OAuthTypes
  <2>2. \A r \in Ids : ~ (Stored(r) /\ rows[r].state = s)
    BY <1>b DEF FlowInv, OAuthStart, NoFlow
  <2>3. given' \in [Tokens -> OAuthTypes \cup {NoFlow}]
    BY <1>b DEF TypeOK, OAuthStart
  <2>4. given'[s] # NoFlow => states'[s].provider = given'[s]
    BY <1>b DEF TypeOK, OAuthStart, MakeState
  <2>5. \A q \in Tokens \ {s} : given'[q] = given[q] /\ states'[q] = states[q]
    BY <1>b DEF TypeOK, OAuthStart, MakeState
  <2>6. \A r \in Ids : Stored(r) => rows[r] \in Row
    BY RowKinds DEF TypeOK, Stored
  <2>7. \A r \in Ids : Stored(r) /\ rows[r].state # NoFlow => rows[r].state \in Tokens
    BY <2>6 DEF Row
  <2> QED BY <1>a, <1>b, <2>1, <2>2, <2>4, <2>5, <2>7 DEF FlowInv, OAuthStart, Flow, Stored
<1>c. ASSUME NEW h \in Handlers, NEW p \in OAuthTypes, NEW s \in Tokens, CallbackBegin(h, p, s)
      PROVE  FlowInv'
  <2>1. \A q \in Tokens : states'[q] = IF q = s THEN Absent ELSE states[q]
    BY <1>c DEF TypeOK, CallbackBegin, ConsumeState
  <2>2. CASE Fresh(s)
    <3>1. states[s] # Absent /\ given[s] # NoFlow
      BY <1>c, <2>2 DEF CallbackBegin, Fresh
    <3>2. \A g \in Handlers : request'[g] =
             IF g = h THEN [op |-> "callback", type |-> p, state |-> s,
                            started |-> states[s].provider]
             ELSE request[g]
      BY <1>c, <2>2 DEF TypeOK, CallbackBegin
    <3> QED BY <1>a, <1>c, <2>1, <3>1, <3>2 DEF FlowInv, CallbackBegin, Flow, Stored
  <2>3. CASE ~ Fresh(s)
    BY <1>a, <1>c, <2>1, <2>3 DEF FlowInv, CallbackBegin, Flow, Stored
  <2> QED BY <2>2, <2>3
<1>d. ASSUME NEW h \in Handlers, Return(h), UNCHANGED <<states, given>>, SameFlows PROVE FlowInv'
  <2>1. \A g \in Handlers : request'[g] = IF g = h THEN Idle ELSE request[g]
    BY <1>d DEF TypeOK, Return
  <2> QED BY <1>a, <1>d, <2>1 DEF FlowInv, SameFlows, Flow, Stored, Idle
<1>e. ASSUME NEW h \in Handlers, CallbackAnswered(h) PROVE FlowInv'
  <2> DEFINE x == request[h]
  <2>1. Flow(h) /\ Return(h) /\ UNCHANGED <<states, given>>
    BY <1>e DEF CallbackAnswered, Flow
  <2>2. x.type \in OAuthTypes /\ x.state \in Tokens
    BY <1>a, <2>1
  <2>3. CASE UNCHANGED rows
    BY <1>d, <2>1, <2>3 DEF SameFlows, Stored
  <2>4. CASE rows' # rows
    <3>1. x.started = x.type /\ Insert(NewRow(x.type, x.state))
      BY <1>e, <2>2, <2>4, NotRaised DEF CallbackAnswered, Exchanges, Redirect
    <3>2. NewRow(x.type, x.state) \in Row
      BY <2>2, NewRowIsRow DEF Types
    <3>3. PICK r \in Ids : ~ Stored(r) /\ rows' = [rows EXCEPT ![r] = NewRow(x.type, x.state)]
      BY <3>1, <3>2, InsertIsOne
    <3>4. \A q \in Ids : rows'[q] = IF q = r THEN NewRow(x.type, x.state) ELSE rows[q]
      BY <3>3 DEF TypeOK
    <3>5. rows'[r].type = x.type /\ rows'[r].state = x.state
      BY <3>4 DEF NewRow
    <3>6. x.type = given[x.state] /\ x.type # NoFlow
      BY <2>1, <2>2, <3>1 DEF FlowInv, OAuthTypes, NoFlow
    <3>7. \A g \in Handlers : request'[g] = IF g = h THEN Idle ELSE request[g]
      BY <2>1 DEF TypeOK, Return
    <3>8. states[x.state] = Absent
      BY <2>1, <2>2 DEF FlowInv
    <3>9. \A q \in Ids : ~ (Stored(q) /\ rows[q].state = x.state)
      BY <2>1 DEF FlowInv
    <3>10. \A g \in Handlers : Flow(g) /\ request[g].state = x.state => g = h
      BY <2>1 DEF FlowInv
    <3>11. \A g \in Handlers : Flow(g)' => Flow(g) /\ g # h /\ request'[g] = request[g]
      BY <3>7 DEF Flow, Idle
    <3>12. \A q \in Ids : Stored(q)' /\ q # r => Stored(q) /\ rows'[q] = rows[q]
      BY <3>4 DEF Stored
    <3> HIDE DEF x
    <3>13. \A s \in Tokens : states'[s] # Absent =>
              /\ \A g \in Handlers : ~ (Flow(g)' /\ request'[g].state = s)
              /\ \A q \in Ids : ~ (Stored(q)' /\ rows'[q].state = s)
              /\ given'[s] # NoFlow => states'[s].provider = given'[s]
      BY <2>1, <3>5, <3>8, <3>11, <3>12 DEF FlowInv
    <3>14. \A g \in Handlers : Flow(g)' =>
              /\ request'[g].started = given'[request'[g].state]
              /\ \A k \in Handlers : Flow(k)' /\ request'[k].state = request'[g].state => k = g
              /\ \A q \in Ids : ~ (Stored(q)' /\ rows'[q].state = request'[g].state)
      BY <2>1, <3>5, <3>10, <3>11, <3>12 DEF FlowInv
    <3>15. \A q \in Ids : Stored(q)' /\ rows'[q].state # NoFlow =>
              /\ rows'[q].type = given'[rows'[q].state] /\ rows'[q].type # NoFlow
              /\ \A k \in Ids : Stored(k)' /\ rows'[k].state = rows'[q].state => k = q
      BY <2>1, <3>5, <3>6, <3>9, <3>12 DEF FlowInv
    <3> QED BY <3>13, <3>14, <3>15 DEF FlowInv, Flow, Stored
  <2> QED BY <2>3, <2>4
<1>f. ASSUME NEW h \in Handlers, WizardAnswered(h) PROVE FlowInv'
  <2> DEFINE x == request[h]
  <2>1. ~ Flow(h) /\ Return(h) /\ UNCHANGED <<states, given>>
    BY <1>f DEF WizardAnswered, Flow
  <2>2. x.type \in OtherTypes
    BY <1>f, RequestKinds DEF TypeOK, WizardAnswered
  <2>3. CASE UNCHANGED rows
    BY <1>d, <2>1, <2>3 DEF SameFlows, Stored
  <2>4. CASE rows' # rows
    <3>1. NewRow(x.type, NoFlow) \in Row /\ Insert(NewRow(x.type, NoFlow))
      BY <1>f, <2>2, <2>4, NewRowIsRow DEF WizardAnswered, Types
    <3>2. PICK r \in Ids : ~ Stored(r) /\ rows' = [rows EXCEPT ![r] = NewRow(x.type, NoFlow)]
      BY <3>1, InsertIsOne
    <3>3. \A q \in Ids : rows'[q] = IF q = r THEN NewRow(x.type, NoFlow) ELSE rows[q]
      BY <3>2 DEF TypeOK
    <3>4. rows'[r].state = NoFlow
      BY <3>3 DEF NewRow
    <3>5. \A g \in Handlers : request'[g] = IF g = h THEN Idle ELSE request[g]
      BY <2>1 DEF TypeOK, Return
    <3>6. \A g \in Handlers : Flow(g)' => Flow(g) /\ request'[g] = request[g]
      BY <3>5 DEF Flow, Idle
    <3>7. \A q \in Ids : Stored(q)' /\ q # r => Stored(q) /\ rows'[q] = rows[q]
      BY <3>3 DEF Stored
    <3>8. \A g \in Handlers : Flow(g) => request[g].state # NoFlow
      BY <1>a DEF NoFlow
    <3>9. NoFlow \notin Tokens
      BY DEF NoFlow
    <3> HIDE DEF x
    <3> QED BY <2>1, <3>4, <3>6, <3>7, <3>8, <3>9 DEF FlowInv, Flow, Stored
  <2> QED BY <2>3, <2>4
<1>g. ASSUME NEW h \in Handlers, NEW new, UNCHANGED <<states, rows, given>>,
             request' = [request EXCEPT ![h] = new], new.op # "callback"
      PROVE  FlowInv'
  <2>1. \A g \in Handlers : request'[g] = IF g = h THEN new ELSE request[g]
    BY <1>g DEF TypeOK
  <2>2. \A g \in Handlers : Flow(g)' => Flow(g) /\ request'[g] = request[g]
    BY <1>g, <2>1 DEF Flow
  <2> QED BY <1>g, <2>2 DEF FlowInv, Flow, Stored
<1>h. ASSUME SameFlows, UNCHANGED <<states, request, given>> PROVE FlowInv'
  BY <1>a, <1>h DEF FlowInv, SameFlows, Flow, Stored
<1>1. ASSUME NEW s \in Tokens, NEW r \in Ids, Reconnect(s, r) PROVE FlowInv'
  <2>1. rows[r].type \in Types
    BY <1>1, RowKinds DEF TypeOK, Reconnect, Row
  <2> QED BY <1>1, <1>b, <2>1 DEF Reconnect
<1>2. ASSUME NEW h \in Handlers, NEW p \in OtherTypes, WizardBegin(h, p) PROVE FlowInv'
  <2> DEFINE new == [op |-> "wizard", type |-> p]
  <2>1. new.op # "callback" /\ request' = [request EXCEPT ![h] = new]
    BY <1>2 DEF WizardBegin
  <2> HIDE DEF new
  <2> QED BY <1>2, <1>g, <2>1 DEF WizardBegin
<1>3. ASSUME NEW h \in Handlers, NEW r \in Ids, RefreshBegin(h, r) PROVE FlowInv'
  <2> DEFINE new == [op |-> "refresh", row |-> r, seen |-> rows[r]]
  <2>1. new.op # "callback" /\ request' = [request EXCEPT ![h] = new]
    BY <1>3 DEF RefreshBegin
  <2> HIDE DEF new
  <2> QED BY <1>3, <1>g, <2>1 DEF RefreshBegin
<1>4. ASSUME NEW h \in Handlers, RefreshAnswered(h) PROVE FlowInv'
  <2> DEFINE r == request[h].row
             seen == request[h].seen
  <2>1. r \in Ids /\ seen \in Row /\ rows[r] \in Row
    BY <1>4, CheckIsOne
  <2>2. PICK found \in Outcomes(seen) : rows' = [rows EXCEPT ![r] = Updated(rows[r], seen, found)]
    BY <1>4, CheckIsOne
  <2> DEFINE new == Updated(rows[r], seen, found)
  <2>3. new \in Row /\ new.type = rows[r].type /\ new.state = rows[r].state
    BY <2>1, UpdatedIsRow
  <2>4. \A q \in Ids : rows'[q] = IF q = r THEN new ELSE rows[q]
    BY <2>1, <2>2 DEF TypeOK
  <2>5. new # NoRow /\ rows[r] # NoRow
    BY <2>1, <2>3, NoRowIsNone
  <2> HIDE DEF new, r
  <2>6. SameFlows
    BY <2>3, <2>4, <2>5 DEF SameFlows, Stored
  <2> QED BY <1>4, <1>d, <2>6 DEF RefreshAnswered
<1>5. ASSUME NEW h \in Handlers, CommitFails(h) PROVE FlowInv'
  BY <1>5, <1>d DEF CommitFails, SameFlows, Stored
<1>6. ASSUME NEW r \in Ids, Disconnect(r) PROVE FlowInv'
  <2> DEFINE new == [rows[r] EXCEPT !.active = FALSE, !.status = "disconnected"]
  <2>1. rows[r] \in Row
    BY <1>6, RowKinds DEF TypeOK, Disconnect
  <2>2. new \in Row /\ new.type = rows[r].type /\ new.state = rows[r].state
    BY <2>1 DEF Row
  <2>3. \A q \in Ids : rows'[q] = IF q = r THEN new ELSE rows[q]
    BY <1>6 DEF TypeOK, Disconnect
  <2>4. new # NoRow /\ rows[r] # NoRow
    BY <2>1, <2>2, NoRowIsNone
  <2> HIDE DEF new
  <2>5. SameFlows
    BY <2>2, <2>3, <2>4 DEF SameFlows, Stored
  <2> QED BY <1>6, <1>h, <2>5 DEF Disconnect
<1>7. CASE Tick
  BY <1>7, <1>h DEF Tick, SameFlows, Stored
<1>8. CASE Restart
  <2>1. \A s \in Tokens : states'[s] = Absent
    BY <1>8 DEF Restart
  <2>2. \A h \in Handlers : ~ Flow(h)'
    BY <1>8 DEF Restart, Flow, Idle
  <2> QED BY <1>8, <2>1, <2>2 DEF FlowInv, Restart, Flow, Stored
<1>9. CASE UNCHANGED vars
  BY <1>9, <1>h DEF vars, SameFlows, Stored
<1> QED
  BY <1>b, <1>c, <1>e, <1>f, <1>1, <1>2, <1>3, <1>4, <1>5, <1>6, <1>7, <1>8, <1>9 DEF Next

------------------------------------------------------------------------------
\* No connection was checked by a process to come.
CheckedInv == \A r \in Ids : Stored(r) => rows[r].checked <= epoch

\* The invariant of stored connections and their health.
HealthInv == CheckedInv /\ CheckInv /\ HealthyIsReadable /\ HealthMatchesStatus

\* What a check finds is consistent, and it finds no health without the key.
LEMMA OutcomeIsHonest ==
    ASSUME NEW seen \in Row, NEW found \in Outcomes(seen)
    PROVE  /\ found.health > 0 => Readable(seen)
           /\ found.health = 0 => Failed(found)
           /\ seen.type \in AskedTypes /\ Failed(found) => found.health = 0
<1>1. CASE ~ Readable(seen)
  BY <1>1 DEF Outcomes, Failed
<1>2. CASE Readable(seen) /\ seen.type \in AskedTypes
  BY <1>2 DEF Outcomes, Failed, AskedTypes
<1>3. CASE Readable(seen) /\ seen.type \notin AskedTypes
  <2>1. found = [status |-> seen.status, health |-> 90]
    BY <1>3 DEF Outcomes, AskedTypes
  <2> QED BY <1>3, <2>1
<1> QED BY <1>1, <1>2, <1>3

\* Steps that leave the table alone and begin no check.
LEMMA HealthQuiet ==
    ASSUME TypeOK, HealthInv, UNCHANGED <<rows, epoch, key, overlapped>>,
           \A h \in Handlers : Check(h)' => Check(h) /\ request'[h] = request[h]
    PROVE  HealthInv'
<1>1. CheckedInv'
  BY DEF HealthInv, CheckedInv, Stored
<1>2. CheckInv'
  BY DEF HealthInv, CheckInv, Stored
<1>3. HealthyIsReadable' /\ HealthMatchesStatus'
  BY DEF HealthInv, HealthyIsReadable, HealthMatchesStatus, Failed, Readable
<1> QED BY <1>1, <1>2, <1>3 DEF HealthInv

\* A connection is stored.
LEMMA HealthInsert ==
    ASSUME TypeOK, HealthInv, NEW type \in Types, NEW s \in Tokens \cup {NoFlow},
           Insert(NewRow(type, s)), UNCHANGED <<epoch, key, overlapped>>,
           \A h \in Handlers : Check(h)' => Check(h) /\ request'[h] = request[h]
    PROVE  HealthInv'
<1> DEFINE new == NewRow(type, s)
<1>1. PICK n \in Ids : ~ Stored(n) /\ rows' = [rows EXCEPT ![n] = new]
  BY NewRowIsRow, InsertIsOne
<1>2. \A q \in Ids : rows'[q] = IF q = n THEN new ELSE rows[q]
  BY <1>1 DEF TypeOK
<1>3. /\ new.key = key /\ new.checked = -1 /\ new.status = "connected"
      /\ new.health = -1 /\ new.active
  BY DEF NewRow, Unknown
<1>4. epoch \in Nat
  BY DEF TypeOK
<1>5. \A q \in Ids : q # n => (Stored(q)' <=> Stored(q)) /\ rows'[q] = rows[q]
  BY <1>2 DEF Stored
<1>6. \A h \in Handlers : Check(h) => request[h].row \in Ids /\ request[h].row # n
  BY <1>1, RequestKinds DEF TypeOK, Check, HealthInv, CheckInv
<1> HIDE DEF new
<1>7. rows'[n] = new
  BY <1>2
<1>8. CheckedInv'
  BY <1>3, <1>4, <1>5, <1>7 DEF HealthInv, CheckedInv, Stored
<1>9. CheckInv'
  BY <1>5, <1>6 DEF HealthInv, CheckInv, Stored
<1>10. HealthyIsReadable'
  BY <1>3, <1>4, <1>5, <1>7 DEF HealthInv, HealthyIsReadable, Readable, Stored
<1>11. HealthMatchesStatus'
  BY <1>3, <1>5, <1>7 DEF HealthInv, HealthMatchesStatus, Failed, Stored
<1> QED BY <1>8, <1>9, <1>10, <1>11 DEF HealthInv

\* A check loads the row.
LEMMA HealthCheckBegins ==
    ASSUME TypeOK, HealthInv, NEW h \in Handlers, NEW r \in Ids, RefreshBegin(h, r)
    PROVE  HealthInv'
<1>1. \A g \in Handlers : request'[g] = IF g = h THEN [op |-> "refresh", row |-> r, seen |-> rows[r]]
                                        ELSE request[g]
  BY DEF TypeOK, RefreshBegin
<1>2. request'[h].op = "refresh" /\ request'[h].row = r /\ request'[h].seen = rows[r]
  BY <1>1
<1>3. ~ Check(h) /\ Stored(r) /\ rows[r].active /\ UNCHANGED <<rows, epoch, key>>
  BY DEF RefreshBegin, Check, Idle, Stored, process
<1>4. \A g \in Handlers \ {h} : (Check(g)' <=> Check(g)) /\ request'[g] = request[g]
  BY <1>1 DEF Check
<1>5. overlapped \subseteq overlapped' /\ (Refreshing(r) => r \in overlapped')
  BY DEF RefreshBegin
<1>6. r \notin overlapped' => \A g \in Handlers : ~ (Check(g) /\ request[g].row = r)
  BY <1>5 DEF Refreshing, Check
<1>7. CheckedInv'
  BY <1>3 DEF HealthInv, CheckedInv, Stored
<1>8. CheckInv'
  <2>1. \A g \in Handlers : Check(g)' /\ g # h =>
          LET q == request[g].row  seen == request[g].seen IN
          /\ Check(g) /\ request'[g] = request[g]
          /\ rows[q] # NoRow
          /\ seen.key = rows[q].key /\ seen.type = rows[q].type
          /\ seen.health # rows[q].health => rows[q].checked = epoch
          /\ q \notin overlapped => (rows[q].active => seen = rows[q])
    BY <1>4 DEF HealthInv, CheckInv, Stored
  <2>2. \A g, k \in Handlers : Check(g)' /\ Check(k)' /\ request'[g].row = request'[k].row
                               /\ request'[g].row \notin overlapped' => k = g
    <3>1. ASSUME NEW g \in Handlers \ {h}, NEW k \in Handlers \ {h}, Check(g)', Check(k)',
                 request'[g].row = request'[k].row, request'[g].row \notin overlapped'
          PROVE  k = g
      <4>1. Check(g) /\ Check(k) /\ request[g].row = request[k].row /\ request[g].row \notin overlapped
        BY <3>1, <1>4, <1>5
      <4> QED BY <4>1 DEF HealthInv, CheckInv
    <3>2. ASSUME NEW g \in Handlers \ {h}, Check(g)', request'[g].row = r, r \notin overlapped'
          PROVE  FALSE
      BY <3>2, <1>4, <1>6
    <3> QED BY <1>2, <3>1, <3>2
  <2>3. \A g \in Handlers : Check(g)' =>
          LET q == request'[g].row  seen == request'[g].seen IN
          /\ rows[q] # NoRow
          /\ seen.key = rows[q].key /\ seen.type = rows[q].type
          /\ seen.health # rows[q].health => rows[q].checked = epoch
          /\ q \notin overlapped' => (rows[q].active => seen = rows[q])
    <3>1. Check(h)' => LET q == request'[h].row  seen == request'[h].seen IN
          rows[q] # NoRow /\ seen = rows[q]
      BY <1>2, <1>3 DEF Stored
    <3> QED BY <1>5, <2>1, <3>1
  <2> QED BY <1>3, <2>2, <2>3 DEF CheckInv, Stored
<1>9. HealthyIsReadable' /\ HealthMatchesStatus'
  BY <1>3, <1>5 DEF HealthInv, HealthyIsReadable, HealthMatchesStatus, Failed, Readable
<1> QED BY <1>7, <1>8, <1>9 DEF HealthInv

\* A check writes what it has found.
LEMMA HealthCheckEnds ==
    ASSUME TypeOK, HealthInv, NEW h \in Handlers, RefreshAnswered(h)
    PROVE  HealthInv'
<1> DEFINE r == request[h].row
           seen == request[h].seen
<1>1. Check(h) /\ r \in Ids /\ seen \in Row /\ rows[r] \in Row
  BY CheckIsOne DEF HealthInv
<1>2. PICK found \in Outcomes(seen) : rows' = [rows EXCEPT ![r] = Updated(rows[r], seen, found)]
  BY CheckIsOne DEF HealthInv
<1> DEFINE new == Updated(rows[r], seen, found)
           old == rows[r]
<1>3. /\ new \in Row /\ new.checked = epoch
      /\ new.status = IF found.status # seen.status THEN found.status ELSE old.status
      /\ new.health = IF found.health # seen.health THEN found.health ELSE old.health
      /\ new.type = old.type /\ new.key = old.key /\ new.active = old.active
  BY <1>1, UpdatedIsRow
<1>4. new # NoRow /\ old # NoRow
  BY <1>1, <1>3, NoRowIsNone
<1>5. \A q \in Ids : rows'[q] = IF q = r THEN new ELSE rows[q]
  BY <1>1, <1>2 DEF TypeOK
<1>6. UNCHANGED <<epoch, key, overlapped>>
  BY DEF RefreshAnswered, process
<1>7. \A g \in Handlers : Check(g)' => Check(g) /\ g # h /\ request'[g] = request[g]
  BY DEF TypeOK, RefreshAnswered, Return, Check, Idle
<1>8. /\ seen.key = old.key /\ seen.type = old.type
      /\ seen.health # old.health => old.checked = epoch
      /\ r \notin overlapped /\ old.active => seen = old
      /\ \A g \in Handlers : Check(g) /\ request[g].row = r /\ g # h => r \in overlapped
  BY <1>1 DEF HealthInv, CheckInv
<1>9. /\ found.health > 0 => Readable(seen)
      /\ found.health = 0 => Failed(found)
      /\ seen.type \in AskedTypes /\ Failed(found) => found.health = 0
  BY <1>1, OutcomeIsHonest
<1>10. Readable(seen) <=> Readable(old)
  BY <1>8 DEF Readable
<1>11. old.health > 0 /\ old.checked = epoch => Readable(old)
  BY <1>1, <1>4 DEF HealthInv, HealthyIsReadable
<1>12. epoch \in Nat
  BY DEF TypeOK
<1>a. \A q \in Ids : q # r => rows'[q] = rows[q]
  BY <1>5
<1>b. rows'[r] = new
  BY <1>1, <1>5
<1> HIDE DEF new, old, seen, r
<1>13. CheckedInv'
  BY <1>3, <1>6, <1>12, <1>a, <1>b DEF HealthInv, CheckedInv, Stored
<1>14. CheckInv'
  <2>1. \A g \in Handlers : Check(g)' =>
          LET q == request[g].row  its == request[g].seen IN
          /\ Check(g) /\ request'[g] = request[g] /\ g # h
          /\ rows[q] # NoRow
          /\ its.key = rows[q].key /\ its.type = rows[q].type
          /\ its.health # rows[q].health => rows[q].checked = epoch
          /\ q \notin overlapped => (rows[q].active => its = rows[q])
    BY <1>7 DEF HealthInv, CheckInv, Stored
  <2>2. \A g, k \in Handlers : Check(g)' /\ Check(k)' /\ request'[g].row = request'[k].row
                               /\ request'[g].row \notin overlapped => k = g
    BY <1>7 DEF HealthInv, CheckInv
  <2>3. \A g \in Handlers : Check(g) => request[g].row \in Ids
    BY RequestKinds DEF TypeOK, Check
  <2>4. \A g \in Handlers : Check(g)' =>
          LET q == request'[g].row  its == request'[g].seen IN
          /\ rows'[q] # NoRow
          /\ its.key = rows'[q].key /\ its.type = rows'[q].type
          /\ its.health # rows'[q].health => rows'[q].checked = epoch
          /\ q \notin overlapped => (rows'[q].active => its = rows'[q])
    <3> SUFFICES ASSUME NEW g \in Handlers, Check(g)'
                 PROVE  LET q == request[g].row  its == request[g].seen IN
                        /\ rows'[q] # NoRow
                        /\ its.key = rows'[q].key /\ its.type = rows'[q].type
                        /\ its.health # rows'[q].health => rows'[q].checked = epoch
                        /\ q \notin overlapped => (rows'[q].active => its = rows'[q])
      BY <2>1
    <3>1. CASE request[g].row = r
      BY <1>3, <1>4, <1>8, <1>b, <2>1, <3>1 DEF old
    <3>2. CASE request[g].row # r
      BY <1>a, <2>1, <2>3, <3>2
    <3> QED BY <3>1, <3>2
  <2> QED BY <1>6, <2>2, <2>4 DEF CheckInv, Stored
<1>15. HealthyIsReadable'
  <2>1. Readable(new) <=> Readable(old)
    BY <1>3 DEF Readable
  <2>2. new.health > 0 => Readable(new)
    BY <1>3, <1>8, <1>9, <1>10, <1>11, <2>1
  <2>3. \A row : Readable(row)' <=> Readable(row)
    BY <1>6 DEF Readable
  <2> QED BY <1>6, <1>a, <1>b, <2>2, <2>3 DEF HealthInv, HealthyIsReadable
<1>16. HealthMatchesStatus'
  <2>1. r \notin overlapped /\ new.active =>
          /\ new.health = 0 => Failed(new)
          /\ new.type \in AskedTypes /\ Failed(new) => new.health = 0
    BY <1>3, <1>8, <1>9 DEF Failed
  <2> QED BY <1>6, <1>a, <1>b, <2>1 DEF HealthInv, HealthMatchesStatus, Failed
<1> QED BY <1>13, <1>14, <1>15, <1>16 DEF HealthInv

\* A connection is given up, a check of it notwithstanding.
LEMMA HealthDisconnect ==
    ASSUME TypeOK, HealthInv, NEW r \in Ids, Disconnect(r)
    PROVE  HealthInv'
<1> DEFINE new == [rows[r] EXCEPT !.active = FALSE, !.status = "disconnected"]
           old == rows[r]
<1>1. old \in Row
  BY RowKinds DEF TypeOK, Disconnect
<1>2. /\ new \in Row /\ new.type = old.type /\ new.key = old.key /\ new.health = old.health
      /\ new.checked = old.checked /\ ~ new.active /\ new.status = "disconnected"
  BY <1>1 DEF Row
<1>3. new # NoRow /\ old # NoRow
  BY <1>1, <1>2, NoRowIsNone
<1>4. (\A q \in Ids : q # r => rows'[q] = rows[q]) /\ rows'[r] = new
  BY DEF TypeOK, Disconnect
<1>5. UNCHANGED <<epoch, key, overlapped, request>>
  BY DEF Disconnect, process
<1>6. \A g \in Handlers : Check(g) => request[g].row \in Ids
  BY RequestKinds DEF TypeOK, Check
<1> HIDE DEF new
<1>7. CheckedInv'
  BY <1>2, <1>3, <1>4, <1>5 DEF HealthInv, CheckedInv, Stored
<1>8. CheckInv'
  BY <1>2, <1>3, <1>4, <1>5, <1>6 DEF HealthInv, CheckInv, Stored, Check
<1>9. HealthyIsReadable'
  BY <1>2, <1>3, <1>4, <1>5 DEF HealthInv, HealthyIsReadable, Readable
<1>10. HealthMatchesStatus'
  BY <1>2, <1>4, <1>5 DEF HealthInv, HealthMatchesStatus, Failed
<1> QED BY <1>7, <1>8, <1>9, <1>10 DEF HealthInv

\* A new process, with whatever key.
LEMMA HealthRestart ==
    ASSUME TypeOK, HealthInv, Restart
    PROVE  HealthInv'
<1>1. \A h \in Handlers : ~ Check(h)'
  BY DEF Restart, Check, Idle
<1>2. UNCHANGED <<rows, overlapped>> /\ epoch' = epoch + 1 /\ epoch \in Nat
  BY DEF TypeOK, Restart
<1>3. \A r \in Ids : Stored(r) => rows[r].checked \in Int
  BY RowKinds DEF TypeOK, Stored, Row
<1>4. CheckedInv'
  BY <1>2, <1>3 DEF HealthInv, CheckedInv, Stored
<1>5. CheckInv'
  BY <1>1 DEF CheckInv
<1>6. HealthyIsReadable'
  BY <1>2, <1>3 DEF HealthInv, CheckedInv, HealthyIsReadable, Stored
<1>7. HealthMatchesStatus'
  BY <1>2 DEF HealthInv, HealthMatchesStatus, Failed
<1> QED BY <1>4, <1>5, <1>6, <1>7 DEF HealthInv

\* Every step keeps what a check has loaded consistent with the row.
LEMMA HealthStep == TypeOK /\ HealthInv /\ [Next]_vars => HealthInv'
<1> SUFFICES ASSUME TypeOK, HealthInv, [Next]_vars PROVE HealthInv'
  OBVIOUS
<1> USE DEF Check
<1>a. ASSUME NEW h \in Handlers, Return(h)
      PROVE  \A g \in Handlers : Check(g)' => Check(g) /\ request'[g] = request[g]
  BY <1>a DEF TypeOK, Return, Idle
<1>1. ASSUME NEW s \in Tokens, NEW p \in Types, OAuthStart(s, p) PROVE HealthInv'
  BY <1>1, HealthQuiet DEF OAuthStart, process
<1>2. ASSUME NEW s \in Tokens, NEW r \in Ids, Reconnect(s, r) PROVE HealthInv'
  BY <1>2, HealthQuiet DEF Reconnect, OAuthStart, process
<1>3. ASSUME NEW h \in Handlers, NEW p \in OAuthTypes, NEW s \in Tokens, CallbackBegin(h, p, s)
      PROVE  HealthInv'
  <2>1. \A g \in Handlers : Check(g)' => Check(g) /\ request'[g] = request[g]
    BY <1>3 DEF TypeOK, CallbackBegin
  <2> QED BY <1>3, <2>1, HealthQuiet DEF CallbackBegin, process
<1>4. ASSUME NEW h \in Handlers, CallbackAnswered(h) PROVE HealthInv'
  <2>1. request[h].type \in Types /\ request[h].state \in Tokens
    BY <1>4, RequestKinds DEF TypeOK, CallbackAnswered, Types
  <2>2. \A g \in Handlers : Check(g)' => Check(g) /\ request'[g] = request[g]
    BY <1>4, <1>a DEF CallbackAnswered
  <2>3. UNCHANGED <<epoch, key, overlapped>>
    BY <1>4 DEF CallbackAnswered, process
  <2>4. UNCHANGED rows \/ Insert(NewRow(request[h].type, request[h].state))
    BY <1>4 DEF CallbackAnswered
  <2> QED BY <2>1, <2>2, <2>3, <2>4, HealthQuiet, HealthInsert
<1>5. ASSUME NEW h \in Handlers, NEW p \in OtherTypes, WizardBegin(h, p) PROVE HealthInv'
  <2>1. \A g \in Handlers : Check(g)' => Check(g) /\ request'[g] = request[g]
    BY <1>5 DEF TypeOK, WizardBegin
  <2> QED BY <1>5, <2>1, HealthQuiet DEF WizardBegin, process
<1>6. ASSUME NEW h \in Handlers, WizardAnswered(h) PROVE HealthInv'
  <2>1. request[h].type \in Types
    BY <1>6, RequestKinds DEF TypeOK, WizardAnswered, Types
  <2>2. \A g \in Handlers : Check(g)' => Check(g) /\ request'[g] = request[g]
    BY <1>6, <1>a DEF WizardAnswered
  <2>3. UNCHANGED <<epoch, key, overlapped>>
    BY <1>6 DEF WizardAnswered, process
  <2>4. UNCHANGED rows \/ Insert(NewRow(request[h].type, NoFlow))
    BY <1>6 DEF WizardAnswered
  <2> QED BY <2>1, <2>2, <2>3, <2>4, HealthQuiet, HealthInsert
<1>7. ASSUME NEW h \in Handlers, NEW r \in Ids, RefreshBegin(h, r) PROVE HealthInv'
  BY <1>7, HealthCheckBegins
<1>8. ASSUME NEW h \in Handlers, RefreshAnswered(h) PROVE HealthInv'
  BY <1>8, HealthCheckEnds
<1>9. ASSUME NEW h \in Handlers, CommitFails(h) PROVE HealthInv'
  BY <1>9, <1>a, HealthQuiet DEF CommitFails, process
<1>10. ASSUME NEW r \in Ids, Disconnect(r) PROVE HealthInv'
  BY <1>10, HealthDisconnect
<1>11. CASE Tick
  BY <1>11, HealthQuiet DEF Tick
<1>12. CASE Restart
  BY <1>12, HealthRestart
<1>13. CASE UNCHANGED vars
  BY <1>13, HealthQuiet DEF vars, process
<1> QED
  BY <1>1, <1>2, <1>3, <1>4, <1>5, <1>6, <1>7, <1>8, <1>9, <1>10, <1>11, <1>12, <1>13 DEF Next

------------------------------------------------------------------------------
ConnectInv == TypeOK /\ FlowInv /\ HealthInv

\* ConnectInv is inductive.
LEMMA ConnectInvariance == Spec => []ConnectInv
<1>1. Init => ConnectInv
  <2> SUFFICES ASSUME Init PROVE ConnectInv
    OBVIOUS
  <2>1. /\ \A r \in Ids : ~ Stored(r)
        /\ \A h \in Handlers : ~ Flow(h) /\ ~ Check(h)
        /\ \A s \in Tokens : states[s] = Absent
    BY DEF Init, Stored, Flow, Check, Idle
  <2>2. TypeOK
    BY DEF Init, TypeOK, ProcessKeys, Keys
  <2>3. FlowInv
    BY <2>1 DEF FlowInv
  <2>4. HealthInv
    BY <2>1 DEF HealthInv, CheckedInv, CheckInv, HealthyIsReadable, HealthMatchesStatus, Stored
  <2> QED BY <2>2, <2>3, <2>4 DEF ConnectInv
<1>2. ConnectInv /\ [Next]_vars => ConnectInv'
  BY TypeStep, FlowStep, HealthStep DEF ConnectInv, HealthInv
<1> QED BY <1>1, <1>2, PTL DEF Spec

\* Type correctness of the flows, the connections and the handlers in progress.
THEOREM TypeCorrect == Spec => []TypeOK
<1>1. ConnectInv => TypeOK
  BY DEF ConnectInv
<1> QED BY <1>1, ConnectInvariance, PTL

\* One flow stores at most one connection (_consume_state and the callbacks that
\* overlap it).
THEOREM SpentOnce == Spec => []StateSpentOnce
<1>1. ConnectInv => StateSpentOnce
  <2> SUFFICES ASSUME ConnectInv, NEW s \in Tokens
               PROVE  Cardinality({r \in Ids : rows[r] # NoRow /\ rows[r].state = s}) <= 1
    BY DEF StateSpentOnce
  <2> DEFINE own == {r \in Ids : rows[r] # NoRow /\ rows[r].state = s}
  <2>1. \A q, r \in own : q = r
    BY DEF ConnectInv, FlowInv, Stored, NoFlow
  <2>2. own = {} \/ \E r \in own : own = {r}
    BY <2>1
  <2> HIDE DEF own
  <2>3. ASSUME own = {} PROVE Cardinality(own) <= 1
    <3>1. Cardinality(own) = 0
      BY <2>3, FS_EmptySet
    <3> QED BY <3>1
  <2>4. ASSUME NEW r \in own, own = {r} PROVE Cardinality(own) <= 1
    <3>1. Cardinality(own) = 1
      BY <2>4, FS_Singleton
    <3> QED BY <3>1
  <2>5. Cardinality(own) <= 1
    BY <2>2, <2>3, <2>4
  <2> QED BY <2>5 DEF own
<1> QED BY <1>1, ConnectInvariance, PTL

\* A connection is of the provider its flow was started for (oauth_callback).
THEOREM StartedCorrect == Spec => []ProviderAsStarted
<1>1. ConnectInv => ProviderAsStarted
  BY DEF ConnectInv, FlowInv, ProviderAsStarted, Stored
<1> QED BY <1>1, ConnectInvariance, PTL

\* Unless two checks of it overlapped, an active connection without health has
\* failed its check, and one whose provider is asked and that failed has no health
\* (refresh_health), whatever keys the processes had.
THEOREM HealthCorrect == Spec => []HealthMatchesStatus
<1>1. ConnectInv => HealthMatchesStatus
  BY DEF ConnectInv, HealthInv
<1> QED BY <1>1, ConnectInvariance, PTL

\* What this process has found alive can be decrypted by it (vault.py).
THEOREM ReadableCorrect == Spec => []HealthyIsReadable
<1>1. ConnectInv => HealthyIsReadable
  BY DEF ConnectInv, HealthInv
<1> QED BY <1>1, ConnectInvariance, PTL

\* A disconnected connection stays so (disconnect_provider and the checks that had
\* loaded the row before).
THEOREM DisconnectCorrect == Spec => DisconnectFinal
<1> DEFINE Final == \A r \in Ids : rows[r] # NoRow /\ ~ rows[r].active => ~ rows'[r].active
<1>1. ConnectInv /\ [Next]_vars => [Final]_rows
  <2> SUFFICES ASSUME ConnectInv, Next, rows' # rows, NEW r \in Ids, Stored(r), ~ rows[r].active
               PROVE  ~ rows'[r].active
    BY DEF Stored, vars
  <2> USE DEF ConnectInv
  <2>a. ASSUME NEW new \in Row, Insert(new) PROVE ~ rows'[r].active
    <3>1. PICK n \in Ids : ~ Stored(n) /\ rows' = [rows EXCEPT ![n] = new]
      BY <2>a, InsertIsOne
    <3> QED BY <3>1 DEF TypeOK
  <2>1. ASSUME NEW h \in Handlers, CallbackAnswered(h) PROVE ~ rows'[r].active
    <3>1. request[h].type \in Types /\ request[h].state \in Tokens
      BY <2>1, RequestKinds DEF TypeOK, CallbackAnswered, Types
    <3>2. Insert(NewRow(request[h].type, request[h].state))
      BY <2>1 DEF CallbackAnswered
    <3> QED BY <2>a, <3>1, <3>2, NewRowIsRow
  <2>2. ASSUME NEW h \in Handlers, WizardAnswered(h) PROVE ~ rows'[r].active
    <3>1. request[h].type \in Types
      BY <2>2, RequestKinds DEF TypeOK, WizardAnswered, Types
    <3>2. Insert(NewRow(request[h].type, NoFlow))
      BY <2>2 DEF WizardAnswered
    <3> QED BY <2>a, <3>1, <3>2, NewRowIsRow
  <2>3. ASSUME NEW h \in Handlers, RefreshAnswered(h) PROVE ~ rows'[r].active
    <3> DEFINE q == request[h].row
               seen == request[h].seen
    <3>1. q \in Ids /\ seen \in Row /\ rows[q] \in Row
      BY <2>3, CheckIsOne DEF HealthInv
    <3>2. PICK found \in Outcomes(seen) : rows' = [rows EXCEPT ![q] = Updated(rows[q], seen, found)]
      BY <2>3, CheckIsOne DEF HealthInv
    <3>3. Updated(rows[q], seen, found).active = rows[q].active
      BY <3>1, UpdatedIsRow
    <3> HIDE DEF q, seen
    <3> QED BY <3>1, <3>2, <3>3 DEF TypeOK
  <2>4. ASSUME NEW q \in Ids, Disconnect(q) PROVE ~ rows'[r].active
    <3>1. rows[q] \in Row
      BY <2>4, RowKinds DEF TypeOK, Disconnect
    <3> DEFINE new == [rows[q] EXCEPT !.active = FALSE, !.status = "disconnected"]
    <3>2. ~ new.active
      BY <3>1 DEF Row
    <3>3. rows' = [rows EXCEPT ![q] = new]
      BY <2>4 DEF Disconnect
    <3> HIDE DEF new
    <3> QED BY <3>2, <3>3 DEF TypeOK
  <2>5. \/ \E h \in Handlers : CallbackAnswered(h) \/ WizardAnswered(h) \/ RefreshAnswered(h)
        \/ \E q \in Ids : Disconnect(q)
    BY DEF Next, OAuthStart, Reconnect, CallbackBegin, WizardBegin, RefreshBegin, CommitFails,
           Tick, Restart
  <2> QED BY <2>1, <2>2, <2>3, <2>4, <2>5
<1> QED BY <1>1, ConnectInvariance, PTL DEF Spec, DisconnectFinal
==============================================================================
