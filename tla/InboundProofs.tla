---------------------------- MODULE InboundProofs ----------------------------
(***************************************************************************)
(* Proofs about inbound messages, for any number of messages, handlers and *)
(* attempts and any scripts of what goes wrong.                            *)
(***************************************************************************)
EXTENDS Inbound, FiniteSetTheorems, SequenceTheorems, TLAPS

RowType == [msg : Messages, conv : Nat]
ConvType == [assigned : Assignees, session : {"none", "waiting", "done"}, welcomes : Nat]

RunType == [at : Steps, msg : Messages, conv : Nat, row : Nat, seen : Assignees,
            flow : {"none", "question", "answer"}]

Live(h) == run[h].at # "idle"

(***************************************************************************)
(* A run past its row knows which row and which conversation are its own,  *)
(* so what it links, enqueues or assigns is in the tables.                 *)
(***************************************************************************)
AfterRowSteps == {"media", "stopEvent", "end", "grant", "optIn", "defaults", "rotate", "flow",
                  "flowStart", "flowSend", "flowSave", "autoReply"}

PlacedRun(h) ==
    /\ run[h].at \in AfterRowSteps \cup {"requeue"} =>
          run[h].row \in DOMAIN rows /\ rows[run[h].row].msg = run[h].msg
    /\ run[h].at \in AfterRowSteps \cup {"record"} => run[h].conv \in DOMAIN convs
    /\ run[h].at \in AfterRowSteps => rows[run[h].row].conv = run[h].conv

Placed == InboundTypeOK /\ \A h \in Handlers : PlacedRun(h)

(* The tables are sequences, indexed by numbers.                           *)
LEMMA TableFacts ==
  ASSUME InboundTypeOK
  PROVE  /\ rows \in Seq(RowType) /\ convs \in Seq(ConvType)
         /\ DOMAIN rows = 1..Len(rows) /\ Len(rows) \in Nat
         /\ DOMAIN convs = 1..Len(convs) /\ Len(convs) \in Nat
         /\ \A r \in DOMAIN rows : r \in Nat /\ rows[r] \in RowType
         /\ \A c \in DOMAIN convs : c \in Nat /\ convs[c] \in ConvType
<1>1. rows \in Seq(RowType) /\ convs \in Seq(ConvType)
  BY DEF InboundTypeOK, RowType, ConvType
<1> HIDE DEF RowType, ConvType
<1> QED
  BY <1>1, LenProperties, ElementOfSeq

(* A handler is idle or in a run, which has a step and a message.          *)
LEMMA RunFacts ==
  ASSUME InboundTypeOK, NEW h \in Handlers, run[h].at # "idle"
  PROVE  /\ run[h] \in RunType
         /\ run[h].at \in Steps
         /\ run[h].msg \in Messages
         /\ run[h].conv \in Nat
         /\ run[h].row \in Nat
  BY DEF InboundTypeOK, Runs, RunType, NoRun

(* A run that goes on with another step is still a run of its message.     *)
LEMMA GotoType ==
  ASSUME InboundTypeOK, NEW h \in Handlers, NEW next \in Steps, Live(h), Goto(h, next)
  PROVE  run' \in [Handlers -> Runs]
<1>1. [run[h] EXCEPT !.at = next] \in Runs
  BY RunFacts DEF Live, Runs, RunType
<1> QED
  BY <1>1 DEF InboundTypeOK, Goto

LEMMA FinishType ==
  ASSUME InboundTypeOK, NEW h \in Handlers, Finish(h)
  PROVE  run' \in [Handlers -> Runs]
  BY DEF InboundTypeOK, Finish, Runs

(* The types hold at first.                                                *)
LEMMA PlacedInitially == InboundInit => Placed
<1> SUFFICES ASSUME InboundInit PROVE Placed
  OBVIOUS
<1>1. PICK s \in Scripts :
          /\ kind = s.kinds
          /\ social = s.social
          /\ troubles = s.troubles
          /\ meta = [m \in Messages |-> CASE kind[m] = "none" -> "unsent"
                                          [] m \in s.posted -> "acked"
                                          [] OTHER -> "sending"]
          /\ claimed = s.posted
          /\ copies = [m \in Messages |-> IF m \in s.posted THEN 1 ELSE 0]
  BY DEF InboundInit
<1>2. s \in [kinds : [Messages -> Kinds], social : SUBSET Messages,
             posted : SUBSET Messages, troubles : Nat]
  BY InboundAssumption
<1>3. rows \in Seq(RowType) /\ DOMAIN rows = {}
  BY DEF InboundInit
<1>4. convs \in Seq(ConvType)
  BY DEF InboundInit
<1> QED
  BY <1>1, <1>2, <1>3, <1>4 DEF InboundInit, InboundTypeOK, RowType, ConvType, Runs, Placed, PlacedRun, NoRun,
     AfterRowSteps

(* The webhook, the transport and the crash of a process.                  *)
LEMMA IngressTypes ==
  ASSUME InboundTypeOK, IngressNext \/ ProcessCrashes \/ \E h \in Handlers, m \in Messages : Deliver(h, m)
  PROVE  InboundTypeOK'
<1> USE DEF InboundTypeOK
<1>1. ASSUME NEW m \in Messages,
             \/ Receive(m) \/ ClaimAnswerLost(m) \/ Publish(m) \/ HookPublishFails(m)
             \/ Release(m) \/ ReleaseFails(m) \/ GoesStale(m)
      PROVE  InboundTypeOK'
  <2> USE DEF ingress, transport, tables, contact, inboundHistory, Trouble
  <2>1. CASE Receive(m)
    BY <2>1 DEF Receive
  <2>2. CASE Publish(m)
    BY <2>2 DEF Publish
  <2>3. CASE HookPublishFails(m)
    BY <2>3 DEF HookPublishFails
  <2>4. CASE Release(m)
    BY <2>4 DEF Release
  <2>5. CASE ReleaseFails(m)
    BY <2>5 DEF ReleaseFails
  <2>6. CASE GoesStale(m)
    BY <2>6 DEF GoesStale
  <2>7. CASE ClaimAnswerLost(m)
    BY <2>7 DEF ClaimAnswerLost
  <2> QED
    BY <1>1, <2>1, <2>2, <2>3, <2>4, <2>5, <2>6, <2>7
<1>2. ASSUME NEW h \in Handlers, NEW m \in Messages, Deliver(h, m) PROVE InboundTypeOK'
  <2>1. [at |-> "lookup", msg |-> m, conv |-> 0, row |-> 0, seen |-> "nobody", flow |-> "none"]
           \in Runs
    BY DEF Runs, Steps, Assignees
  <2> QED
    BY <1>2, <2>1 DEF Deliver, ingress, tables, contact
<1>3. CASE ProcessCrashes
  <2> DEFINE Held(m) == {h \in Handlers : run[h].at # "idle" /\ run[h].msg = m}
  <2>1. \A m \in Messages : Cardinality(Held(m)) \in Nat
    <3>1. IsFiniteSet(Handlers)
      BY FS_Interval, InboundAssumption DEF Handlers
    <3>2. \A m \in Messages : IsFiniteSet(Held(m))
      BY <3>1, FS_Subset
    <3> QED
      BY <3>2, FS_CardinalityType
  <2>2. copies' = [m \in Messages |-> copies[m] + Cardinality(Held(m))]
    BY <1>3 DEF ProcessCrashes
  <2> HIDE DEF Held
  <2>3. copies' \in [Messages -> Nat]
    BY <2>1, <2>2
  <2>4. run' \in [Handlers -> Runs] /\ hook' \in [Messages -> {"none", "publish", "release"}]
    BY <1>3 DEF ProcessCrashes, Runs
  <2>5. excused' \subseteq Messages /\ troubles' \in Nat
    BY <1>3 DEF ProcessCrashes, Trouble
  <2>6. UNCHANGED <<kind, social, meta, claimed, failedRuns, tables, contact,
                    applied, overlapped, answers, flowFaults>>
    BY <1>3 DEF ProcessCrashes
  <2> QED
    BY <2>3, <2>4, <2>5, <2>6 DEF tables, contact
<1> QED
  BY <1>1, <1>2, <1>3 DEF IngressNext

(* What the other handlers know stays true while the tables only grow.     *)
LEMMA OthersPlaced ==
  ASSUME Placed, NEW h \in Handlers,
         \A g \in Handlers \ {h} : run'[g] = run[g],
         DOMAIN rows \subseteq DOMAIN rows', \A r \in DOMAIN rows : rows'[r] = rows[r],
         DOMAIN convs \subseteq DOMAIN convs',
         InboundTypeOK', PlacedRun(h)'
  PROVE  Placed'
  BY DEF Placed, PlacedRun

(* Changing one conversation leaves the table a table.                     *)
LEMMA ConversationChanged ==
  ASSUME InboundTypeOK, NEW c \in DOMAIN convs, NEW new \in ConvType
  PROVE  /\ [convs EXCEPT ![c] = new] \in Seq(ConvType)
         /\ DOMAIN [convs EXCEPT ![c] = new] = DOMAIN convs
<1>1. convs \in Seq(ConvType) /\ c \in 1..Len(convs)
  BY TableFacts
<1> HIDE DEF ConvType
<1> QED
  BY <1>1, ExceptSeq

(* The steps of a run, and those that fail.                                *)
LEMMA RunPlaced ==
  ASSUME Placed, NEW h \in Handlers, RunStep(h) \/ RunThrows(h) \/ RunSwallows(h)
  PROVE  Placed'
<1>0. Live(h) /\ InboundTypeOK /\ PlacedRun(h)
  BY DEF RunStep, RunThrows, RunSwallows, Throwing, AfterSwallowed, Lookup, Requeue, Revoke, OptOut,
         FindConversation, MakeConversation, Record, EnqueueMedia, EndRun, Grant, OptIn,
         RunDefaults, Rotate, EnterFlow, StartSession, FlowSend, FlowSave, AutoReply, At, Live,
         Placed
<1>1. /\ run[h].at \in Steps /\ Msg(h) \in Messages /\ Msg(h) = run[h].msg
      /\ run[h].conv \in Nat /\ run[h].row \in Nat
      /\ run[h] \in RunType /\ RunType \subseteq Runs
      /\ run \in [Handlers -> Runs] /\ NoRun \in Runs
  BY <1>0, RunFacts DEF Live, Msg, Runs, RunType, InboundTypeOK
<1>2. ASSUME run' = [run EXCEPT ![h] = NoRun],
             UNCHANGED <<rows, convs>>,
             InboundTypeOK'
      PROVE  Placed'
  <2>1. run'[h] = NoRun /\ \A g \in Handlers \ {h} : run'[g] = run[g]
    BY <1>1, <1>2
  <2>2. PlacedRun(h)'
    BY <2>1 DEF PlacedRun, NoRun, AfterRowSteps
  <2> QED
    BY <1>2, <2>1, <2>2, OthersPlaced
<1>3. ASSUME NEW next \in Steps, Goto(h, next),
             next \in AfterRowSteps => run[h].at \in AfterRowSteps,
             next \notin {"requeue", "record"},
             rows' = rows,
             DOMAIN convs \subseteq DOMAIN convs',
             InboundTypeOK'
      PROVE  Placed'
  <2>1. run'[h] = [run[h] EXCEPT !.at = next] /\ \A g \in Handlers \ {h} : run'[g] = run[g]
    BY <1>1, <1>3 DEF Goto
  <2>2. /\ run'[h].at = next /\ run'[h].row = run[h].row
        /\ run'[h].conv = run[h].conv /\ run'[h].msg = run[h].msg
    BY <1>1, <2>1 DEF RunType
  <2>3. PlacedRun(h)'
    BY <1>0, <1>3, <2>2 DEF PlacedRun
  <2> QED
    BY <1>3, <2>1, <2>3, OthersPlaced
<1>4. ASSUME UNCHANGED <<kind, social, ingress, contact, tables, inboundHistory>>,
             transport' = transport \/ Throws(h),
             troubles' \in Nat,
             run' \in [Handlers -> Runs]
      PROVE  InboundTypeOK'
  <2>1. copies' \in [Messages -> Nat] /\ failedRuns' \in [Messages -> Nat]
    <3>1. CASE transport' = transport
      BY <1>0, <3>1 DEF InboundTypeOK, transport
    <3>2. CASE Throws(h)
      BY <1>0, <1>1, <3>2 DEF InboundTypeOK, Throws
    <3> QED
      BY <1>4, <3>1, <3>2
  <2> QED
    BY <1>0, <1>4, <2>1 DEF InboundTypeOK, ingress, tables, contact, inboundHistory
<1>5. ASSUME NEW next \in Steps, Goto(h, next) PROVE run' \in [Handlers -> Runs]
  BY <1>0, <1>5, GotoType
<1>6. Finish(h) => run' = [run EXCEPT ![h] = NoRun] /\ run' \in [Handlers -> Runs]
  BY <1>1 DEF Finish
<1>7. CASE RunThrows(h)
  <2>1. UNCHANGED <<kind, social, ingress, tables, contact, inboundHistory>> /\ Throws(h)
        /\ run' = [run EXCEPT ![h] = NoRun] /\ troubles' \in Nat
    BY <1>0, <1>6, <1>7 DEF RunThrows, Throws, Trouble, InboundTypeOK
  <2>2. UNCHANGED <<rows, convs>> /\ run' \in [Handlers -> Runs]
    BY <1>1, <2>1 DEF tables
  <2> QED
    BY <1>2, <1>4, <2>1, <2>2
<1>8. CASE RunSwallows(h)
  <2>1. run[h].at \in AfterRowSteps /\ AfterSwallowed[run[h].at] \in Steps \cap AfterRowSteps
    BY <1>8 DEF RunSwallows, AfterSwallowed, AfterRowSteps, Steps
  <2>2. AfterSwallowed[run[h].at] \notin {"requeue", "record"}
    BY <2>1 DEF AfterRowSteps
  <2>3. flowFaults' \in [Messages -> Nat] /\ troubles' \in Nat
    BY <1>0, <1>1, <1>8 DEF RunSwallows, Trouble, InboundTypeOK
  <2>4. UNCHANGED <<kind, social, ingress, transport, tables, contact,
                    applied, overlapped, excused, answers>>
    BY <1>8 DEF RunSwallows
  <2>5. Goto(h, AfterSwallowed[run[h].at])
    BY <1>8 DEF RunSwallows
  <2>6. InboundTypeOK'
    BY <1>0, <1>5, <2>1, <2>3, <2>4, <2>5 DEF InboundTypeOK, ingress, transport, tables, contact
  <2>7. UNCHANGED <<rows, convs>>
    BY <2>4 DEF tables
  <2> QED
    BY <1>3, <2>1, <2>2, <2>5, <2>6, <2>7
<1>9. CASE Lookup(h)
  <2>1. UNCHANGED <<kind, social, ingress, transport, tables, contact, troubles, inboundHistory>>
        /\ troubles' \in Nat /\ UNCHANGED <<rows, convs>>
    BY <1>0, <1>9 DEF Lookup, InboundTypeOK, tables
  <2>2. CASE Finish(h)
    BY <1>2, <1>4, <1>6, <2>1, <2>2
  <2>3. ASSUME NEW next \in {"revoke", "findConv"}, Goto(h, next) PROVE Placed'
    <3>1. next \in Steps /\ next \notin AfterRowSteps /\ next \notin {"requeue", "record"}
      BY DEF Steps, AfterRowSteps
    <3> QED
      BY <1>3, <1>4, <1>5, <2>1, <2>3, <3>1
  <2>4. ASSUME NEW r \in DOMAIN rows, rows[r].msg = Msg(h),
               run' = [run EXCEPT ![h].at = "requeue", ![h].row = r]
        PROVE  Placed'
    <3>1. r \in Nat
      BY <1>0, TableFacts
    <3>2. run'[h] = [run[h] EXCEPT !.at = "requeue", !.row = r] /\ run'[h] \in RunType
      BY <1>1, <2>4, <3>1 DEF RunType, Steps
    <3>3. run' \in [Handlers -> Runs] /\ \A g \in Handlers \ {h} : run'[g] = run[g]
      BY <1>1, <2>4, <3>2
    <3>4. run'[h].at = "requeue" /\ run'[h].row = r /\ run'[h].msg = run[h].msg
      BY <1>1, <3>2 DEF RunType
    <3>5. PlacedRun(h)'
      BY <1>1, <2>1, <2>4, <3>4 DEF PlacedRun, AfterRowSteps
    <3> QED
      BY <1>4, <2>1, <3>3, <3>5, OthersPlaced
  <2> QED
    BY <1>9, <2>2, <2>3, <2>4 DEF Lookup
<1>10. CASE Requeue(h) \/ EnqueueMedia(h)
  <2>1. run[h].row \in DOMAIN rows
    BY <1>0, <1>10 DEF PlacedRun, AfterRowSteps, Requeue, EnqueueMedia, At
  <2>2. /\ jobs' = jobs \cup {run[h].row}
        /\ UNCHANGED <<kind, social, ingress, transport, rows, linked, convs, contact, troubles,
                       inboundHistory>>
    BY <1>10 DEF Requeue, EnqueueMedia
  <2>3. ASSUME run' \in [Handlers -> Runs] PROVE InboundTypeOK'
    BY <1>0, <2>1, <2>2, <2>3 DEF InboundTypeOK, ingress, transport, contact, inboundHistory
  <2>4. CASE Requeue(h)
    BY <1>2, <1>6, <2>2, <2>3, <2>4 DEF Requeue
  <2>5. CASE EnqueueMedia(h)
    <3>1. Goto(h, "defaults") /\ run[h].at \in AfterRowSteps /\ "defaults" \in Steps
      BY <2>5 DEF EnqueueMedia, At, AfterRowSteps, Steps
    <3> QED
      BY <1>3, <1>5, <2>2, <2>3, <3>1
  <2> QED
    BY <1>10, <2>4, <2>5
<1>11. CASE Revoke(h) \/ OptOut(h) \/ Grant(h) \/ OptIn(h)
  <2>1. PICK next \in {"optOut", "findConv", "optIn", "autoReply", "defaults"} :
               Goto(h, next) /\ (next \in AfterRowSteps => run[h].at \in AfterRowSteps)
    BY <1>11 DEF Revoke, OptOut, Grant, OptIn, At, AfterRowSteps
  <2>2. next \in Steps /\ next \notin {"requeue", "record"}
    BY DEF Steps
  <2>3. applied' \subseteq Messages /\ optedOut' \in BOOLEAN /\ consent' \in BOOLEAN
    BY <1>0, <1>1, <1>11 DEF Revoke, OptOut, Grant, OptIn, InboundTypeOK, inboundHistory
  <2>4. UNCHANGED <<kind, social, ingress, transport, tables, troubles,
                    overlapped, excused, answers, flowFaults>>
    BY <1>11 DEF Revoke, OptOut, Grant, OptIn, inboundHistory
  <2>5. InboundTypeOK' /\ UNCHANGED <<rows, convs>>
    BY <1>0, <1>5, <2>1, <2>2, <2>3, <2>4 DEF InboundTypeOK, ingress, transport, tables
  <2> QED
    BY <1>3, <2>1, <2>2, <2>5
<1>12. ASSUME NEW c \in DOMAIN convs,
              FindConversation(h),
              run' = [run EXCEPT ![h].at = "record", ![h].conv = c, ![h].seen = convs[c].assigned]
       PROVE  Placed'
  <2>1. UNCHANGED <<kind, social, ingress, transport, tables, contact, troubles, inboundHistory>>
        /\ troubles' \in Nat /\ UNCHANGED <<rows, convs>>
    BY <1>0, <1>12 DEF FindConversation, InboundTypeOK, tables
  <2>2. c \in Nat /\ convs[c].assigned \in Assignees
    BY <1>0, TableFacts DEF ConvType
  <2>3. /\ run'[h] = [run[h] EXCEPT !.at = "record", !.conv = c, !.seen = convs[c].assigned]
        /\ run'[h] \in RunType
    BY <1>1, <1>12, <2>2 DEF RunType, Steps
  <2>4. run' \in [Handlers -> Runs] /\ \A g \in Handlers \ {h} : run'[g] = run[g]
    BY <1>1, <1>12, <2>3
  <2>5. run'[h].at = "record" /\ run'[h].conv = c
    BY <1>1, <2>3 DEF RunType
  <2>6. PlacedRun(h)'
    BY <2>1, <2>5 DEF PlacedRun, AfterRowSteps
  <2> QED
    BY <1>4, <2>1, <2>4, <2>6, OthersPlaced
<1>13. CASE FindConversation(h)
  <2>1. ASSUME Goto(h, "makeConv") PROVE Placed'
    <3>1. UNCHANGED <<kind, social, ingress, transport, tables, contact, troubles, inboundHistory>>
          /\ troubles' \in Nat /\ UNCHANGED <<rows, convs>>
      BY <1>0, <1>13 DEF FindConversation, InboundTypeOK, tables
    <3>2. "makeConv" \in Steps /\ "makeConv" \notin AfterRowSteps
      BY DEF Steps, AfterRowSteps
    <3> QED
      BY <1>3, <1>4, <1>5, <2>1, <3>1, <3>2
  <2> QED
    BY <1>12, <1>13, <2>1 DEF FindConversation
<1>14. CASE MakeConversation(h)
  <2>1. NewConversation \in ConvType
    BY DEF NewConversation, ConvType, Assignees
  <2>2. convs \in Seq(ConvType) /\ DOMAIN convs = 1..Len(convs) /\ Len(convs) \in Nat
    BY <1>0, TableFacts
  <2>3. convs' = Append(convs, NewConversation)
    BY <1>14 DEF MakeConversation
  <2>4. convs' \in Seq(ConvType) /\ Len(convs') = Len(convs) + 1
    BY <2>1, <2>2, <2>3, AppendProperties
  <2>5. DOMAIN convs' = 1..Len(convs) + 1
    BY <2>4, LenProperties
  <2>6. /\ run' = [run EXCEPT ![h].at = "record", ![h].conv = Len(convs) + 1, ![h].seen = "nobody"]
        /\ UNCHANGED <<kind, social, ingress, transport, rows, linked, jobs, contact, troubles,
                       inboundHistory>>
    BY <1>14 DEF MakeConversation
  <2>7. /\ run'[h] = [run[h] EXCEPT !.at = "record", !.conv = Len(convs) + 1, !.seen = "nobody"]
        /\ run'[h] \in RunType
    <3>1. PICK n \in Nat : n = Len(convs) + 1
      BY <2>2
    <3>2. run' = [run EXCEPT ![h].at = "record", ![h].conv = n, ![h].seen = "nobody"]
      BY <2>6, <3>1
    <3>3. run'[h] = [run[h] EXCEPT !.at = "record", !.conv = n, !.seen = "nobody"]
      BY <1>1, <3>2
    <3>4. run'[h] \in RunType
      BY <1>1, <3>3 DEF RunType, Steps, Assignees
    <3> QED
      BY <3>1, <3>3, <3>4
  <2>8. run' \in [Handlers -> Runs] /\ \A g \in Handlers \ {h} : run'[g] = run[g]
    BY <1>1, <2>6, <2>7
  <2>9. run'[h].at = "record" /\ run'[h].conv = Len(convs) + 1
    BY <1>1, <2>7 DEF RunType
  <2>10. PlacedRun(h)'
    BY <2>2, <2>5, <2>9 DEF PlacedRun, AfterRowSteps
  <2>11. InboundTypeOK'
    <3>1. UNCHANGED <<kind, social, meta, claimed, hook, copies, failedRuns, rows, linked, jobs,
                      optedOut, consent, troubles, applied, overlapped, excused, answers,
                      flowFaults>>
      BY <2>6 DEF ingress, transport, contact, inboundHistory
    <3>2. convs' \in Seq([assigned : Assignees, session : {"none", "waiting", "done"},
                          welcomes : Nat])
      BY <2>4 DEF ConvType
    <3> QED
      BY <1>0, <2>8, <3>1, <3>2 DEF InboundTypeOK
  <2> QED
    BY <2>2, <2>5, <2>6, <2>8, <2>10, <2>11, OthersPlaced
<1>15. CASE Record(h)
  <2> DEFINE row == [msg |-> Msg(h), conv |-> run[h].conv]
  <2>1. row \in RowType
    BY <1>1 DEF RowType
  <2>2. rows \in Seq(RowType) /\ DOMAIN rows = 1..Len(rows) /\ Len(rows) \in Nat
    BY <1>0, TableFacts
  <2>3. rows' = Append(rows, row)
    BY <1>15 DEF Record
  <2>4. /\ rows' \in Seq(RowType) /\ Len(rows') = Len(rows) + 1
        /\ \A r \in 1..Len(rows) : rows'[r] = rows[r]
        /\ rows'[Len(rows) + 1] = row
    BY <2>1, <2>2, <2>3, AppendProperties
  <2>5. DOMAIN rows' = 1..Len(rows) + 1
    BY <2>4, LenProperties
  <2>6. /\ run' = [run EXCEPT ![h].at = AfterRow(h), ![h].row = Len(rows) + 1]
        /\ UNCHANGED <<kind, social, ingress, transport, linked, jobs, convs, contact, troubles,
                       inboundHistory>>
        /\ run[h].at = "record"
    BY <1>15 DEF Record, At
  <2>7. AfterRow(h) \in AfterRowSteps /\ AfterRow(h) \in Steps
    BY DEF AfterRow, AfterRowSteps, Steps
  <2>8. /\ run'[h] = [run[h] EXCEPT !.at = AfterRow(h), !.row = Len(rows) + 1]
        /\ run'[h] \in RunType
    <3>1. PICK n \in Nat : n = Len(rows) + 1
      BY <2>2
    <3>2. PICK next \in Steps : next = AfterRow(h)
      BY <2>7
    <3>3. run' = [run EXCEPT ![h].at = next, ![h].row = n]
      BY <2>6, <3>1, <3>2
    <3>4. run'[h] = [run[h] EXCEPT !.at = next, !.row = n]
      BY <1>1, <3>3
    <3>5. run'[h] \in RunType
      BY <1>1, <3>4 DEF RunType
    <3> QED
      BY <3>1, <3>2, <3>4, <3>5
  <2>9. run' \in [Handlers -> Runs] /\ \A g \in Handlers \ {h} : run'[g] = run[g]
    BY <1>1, <2>6, <2>8
  <2>10. /\ run'[h].at = AfterRow(h) /\ run'[h].row = Len(rows) + 1
         /\ run'[h].conv = run[h].conv /\ run'[h].msg = run[h].msg
    BY <1>1, <2>8 DEF RunType
  <2>11. PlacedRun(h)'
    BY <1>0, <1>1, <2>2, <2>4, <2>5, <2>6, <2>10 DEF PlacedRun
  <2>12. linked' \subseteq DOMAIN rows' /\ jobs' \subseteq DOMAIN rows'
    BY <1>0, <2>2, <2>5, <2>6 DEF InboundTypeOK
  <2>13. InboundTypeOK'
    <3>1. UNCHANGED <<kind, social, meta, claimed, hook, copies, failedRuns, convs,
                      optedOut, consent, troubles, applied, overlapped, excused, answers,
                      flowFaults>>
      BY <2>6 DEF ingress, transport, contact, inboundHistory
    <3>2. rows' \in Seq([msg : Messages, conv : Nat])
      BY <2>4 DEF RowType
    <3> QED
      BY <1>0, <2>9, <2>12, <3>1, <3>2 DEF InboundTypeOK
  <2> QED
    BY <2>2, <2>4, <2>5, <2>6, <2>9, <2>11, <2>13, OthersPlaced
<1>16. CASE EndRun(h)
  <2>1. UNCHANGED <<kind, social, ingress, transport, tables, contact, troubles, inboundHistory>>
        /\ troubles' \in Nat /\ UNCHANGED <<rows, convs>> /\ Finish(h)
    BY <1>0, <1>16 DEF EndRun, InboundTypeOK, tables
  <2> QED
    BY <1>2, <1>4, <1>6, <2>1
<1>17. CASE RunDefaults(h) \/ Rotate(h)
  <2>1. run[h].at \in AfterRowSteps /\ run[h].conv \in DOMAIN convs
    BY <1>0, <1>17 DEF RunDefaults, Rotate, At, PlacedRun, AfterRowSteps
  <2> DEFINE c == run[h].conv
  <2>2. convs[c] \in ConvType
    BY <1>0, <2>1, TableFacts
  <2>3. PICK new \in ConvType : convs' = [convs EXCEPT ![c] = new]
    <3>1. CASE RunDefaults(h)
      <4>1. [convs[c] EXCEPT !.welcomes = IF FirstInbound(h) THEN @ + 1 ELSE @] \in ConvType
        BY <2>2 DEF ConvType
      <4> QED
        BY <3>1, <4>1 DEF RunDefaults
    <3>2. CASE Rotate(h)
      <4>1. [convs[c] EXCEPT !.assigned = "rotation"] \in ConvType
        BY <2>2 DEF ConvType, Assignees
      <4> QED
        BY <3>2, <4>1 DEF Rotate
    <3> QED
      BY <1>17, <3>1, <3>2
  <2>4. convs' \in Seq(ConvType) /\ DOMAIN convs' = DOMAIN convs
    BY <1>0, <2>1, <2>3, ConversationChanged
  <2>5. PICK next \in {"rotate", "flow"} : Goto(h, next)
    BY <1>17 DEF RunDefaults, Rotate
  <2>6. next \in Steps /\ next \notin {"requeue", "record"}
    BY DEF Steps
  <2>7. UNCHANGED <<kind, social, ingress, transport, rows, linked, jobs, contact, troubles,
                    inboundHistory>>
    BY <1>17 DEF RunDefaults, Rotate
  <2>8. InboundTypeOK'
    <3>1. UNCHANGED <<kind, social, meta, claimed, hook, copies, failedRuns, rows, linked, jobs,
                      optedOut, consent, troubles, applied, overlapped, excused, answers,
                      flowFaults>>
      BY <2>7 DEF ingress, transport, contact, inboundHistory
    <3>2. convs' \in Seq([assigned : Assignees, session : {"none", "waiting", "done"},
                          welcomes : Nat])
      BY <2>4 DEF ConvType
    <3>3. run' \in [Handlers -> Runs]
      BY <1>5, <2>5, <2>6
    <3> QED
      BY <1>0, <3>1, <3>2, <3>3 DEF InboundTypeOK
  <2> QED
    BY <1>3, <2>1, <2>4, <2>5, <2>6, <2>7, <2>8
<1>18. ASSUME NEW f \in {"none", "question", "answer"},
              run' = [run EXCEPT ![h].at = "flowSend", ![h].flow = f],
              run[h].at \in AfterRowSteps,
              rows' = rows,
              DOMAIN convs \subseteq DOMAIN convs',
              run' \in [Handlers -> Runs] => InboundTypeOK'
       PROVE  Placed'
  <2>1. /\ run'[h] = [run[h] EXCEPT !.at = "flowSend", !.flow = f]
        /\ run'[h] \in RunType
    BY <1>1, <1>18 DEF RunType, Steps
  <2>2. run' \in [Handlers -> Runs] /\ \A g \in Handlers \ {h} : run'[g] = run[g]
    BY <1>1, <1>18, <2>1
  <2>3. /\ run'[h].row = run[h].row /\ run'[h].at = "flowSend"
        /\ run'[h].conv = run[h].conv /\ run'[h].msg = run[h].msg
    BY <1>1, <2>1 DEF RunType
  <2>4. PlacedRun(h)'
    BY <1>0, <1>18, <2>3 DEF PlacedRun, AfterRowSteps
  <2> QED
    BY <1>18, <2>2, <2>4, OthersPlaced
<1>19. CASE EnterFlow(h)
  <2>1. UNCHANGED <<kind, social, ingress, transport, tables, contact, troubles, inboundHistory>>
        /\ troubles' \in Nat /\ UNCHANGED <<rows, convs>> /\ run[h].at \in AfterRowSteps
    BY <1>0, <1>19 DEF EnterFlow, InboundTypeOK, tables, At, AfterRowSteps
  <2>2. ASSUME NEW next \in {"flowStart", "autoReply"}, Goto(h, next) PROVE Placed'
    <3>1. next \in Steps /\ next \notin {"requeue", "record"}
      BY DEF Steps
    <3> QED
      BY <1>3, <1>4, <1>5, <2>1, <2>2, <3>1
  <2>3. CASE Finish(h)
    BY <1>2, <1>4, <1>6, <2>1, <2>3
  <2>4. CASE run' = [run EXCEPT ![h].at = "flowSend", ![h].flow = "answer"]
    BY <1>4, <1>18, <2>1, <2>4
  <2> QED
    BY <1>19, <2>2, <2>3, <2>4 DEF EnterFlow
<1>20. CASE StartSession(h)
  <2>1. /\ run[h].at \in AfterRowSteps /\ run[h].conv \in DOMAIN convs
        /\ "autoReply" \in Steps
        /\ UNCHANGED <<kind, social, ingress, transport, rows, linked, jobs, contact, troubles,
                       inboundHistory>>
    BY <1>0, <1>20 DEF StartSession, At, PlacedRun, AfterRowSteps, Steps
  <2>2. UNCHANGED <<kind, social, meta, claimed, hook, copies, failedRuns, rows, linked, jobs,
                    optedOut, consent, troubles, applied, overlapped, excused, answers,
                    flowFaults>>
    BY <2>1 DEF ingress, transport, contact, inboundHistory
  <2>3. CASE Goto(h, "autoReply") /\ UNCHANGED convs
    <3>1. InboundTypeOK'
      BY <1>0, <1>5, <2>1, <2>2, <2>3 DEF InboundTypeOK
    <3> QED
      BY <1>3, <2>1, <2>2, <2>3, <3>1
  <2>4. CASE /\ convs' = [convs EXCEPT ![run[h].conv].session = "waiting"]
             /\ run' = [run EXCEPT ![h].at = "flowSend", ![h].flow = "question"]
    <3>1. convs[run[h].conv] \in ConvType
      BY <1>0, <2>1, TableFacts
    <3>2. [convs[run[h].conv] EXCEPT !.session = "waiting"] \in ConvType
      BY <3>1 DEF ConvType
    <3>3. convs' \in Seq(ConvType) /\ DOMAIN convs' = DOMAIN convs
      BY <1>0, <2>1, <2>4, <3>2, ConversationChanged
    <3>4. convs' \in Seq([assigned : Assignees, session : {"none", "waiting", "done"},
                          welcomes : Nat])
      BY <3>3 DEF ConvType
    <3>5. run' \in [Handlers -> Runs] => InboundTypeOK'
      BY <1>0, <2>2, <3>4 DEF InboundTypeOK
    <3> QED
      BY <1>18, <2>1, <2>2, <2>4, <3>3, <3>5
  <2> QED
    BY <1>20, <2>3, <2>4 DEF StartSession
<1>21. CASE FlowSend(h)
  <2>1. /\ run[h].at \in AfterRowSteps /\ Goto(h, "flowSave") /\ "flowSave" \in Steps
        /\ answers' \in [Messages -> Nat]
        /\ UNCHANGED <<kind, social, ingress, transport, tables, contact, troubles,
                       applied, overlapped, excused, flowFaults>>
    BY <1>0, <1>1, <1>21 DEF FlowSend, At, AfterRowSteps, Steps, InboundTypeOK
  <2>2. InboundTypeOK' /\ UNCHANGED <<rows, convs>>
    BY <1>0, <1>5, <2>1 DEF InboundTypeOK, ingress, transport, tables, contact
  <2> QED
    BY <1>3, <2>1, <2>2
<1>22. CASE FlowSave(h)
  <2>1. run[h].at \in AfterRowSteps /\ run[h].conv \in DOMAIN convs /\ Finish(h)
    BY <1>0, <1>22 DEF FlowSave, At, PlacedRun, AfterRowSteps
  <2>2. UNCHANGED <<kind, social, meta, claimed, hook, copies, failedRuns, rows, linked, jobs,
                    optedOut, consent, troubles, applied, overlapped, excused, answers,
                    flowFaults>>
    BY <1>22 DEF FlowSave, ingress, transport, contact, inboundHistory
  <2>3. convs[run[h].conv] \in ConvType
    BY <1>0, <2>1, TableFacts
  <2>4. PICK new \in ConvType : convs' = [convs EXCEPT ![run[h].conv] = new]
    <3>1. CASE run[h].flow = "question"
      <4>1. convs' = [convs EXCEPT ![run[h].conv].session = @]
        BY <1>22, <3>1 DEF FlowSave
      <4>2. [convs[run[h].conv] EXCEPT !.session = @] \in ConvType
        BY <2>3 DEF ConvType
      <4> QED
        BY <4>1, <4>2
    <3>2. CASE run[h].flow # "question"
      <4>1. convs' = [convs EXCEPT ![run[h].conv].session = "done"]
        BY <1>22, <3>2 DEF FlowSave
      <4>2. [convs[run[h].conv] EXCEPT !.session = "done"] \in ConvType
        BY <2>3 DEF ConvType
      <4> QED
        BY <4>1, <4>2
    <3> QED
      BY <3>1, <3>2
  <2>6. convs' \in Seq(ConvType) /\ DOMAIN convs' = DOMAIN convs
    BY <1>0, <2>1, <2>4, ConversationChanged
  <2>7. convs' \in Seq([assigned : Assignees, session : {"none", "waiting", "done"},
                        welcomes : Nat])
    BY <2>6 DEF ConvType
  <2>8. InboundTypeOK'
    BY <1>0, <1>6, <2>1, <2>2, <2>7 DEF InboundTypeOK
  <2>9. run'[h] = NoRun /\ \A g \in Handlers \ {h} : run'[g] = run[g]
    BY <1>1, <1>6, <2>1
  <2>10. PlacedRun(h)'
    BY <2>9 DEF PlacedRun, NoRun, AfterRowSteps
  <2> QED
    BY <2>2, <2>6, <2>8, <2>9, <2>10, OthersPlaced
<1>23. CASE AutoReply(h)
  <2>1. /\ Finish(h)
        /\ answers' \in [Messages -> Nat]
        /\ UNCHANGED <<kind, social, ingress, transport, tables, contact, troubles,
                       applied, overlapped, excused, flowFaults>>
    BY <1>0, <1>1, <1>23 DEF AutoReply, InboundTypeOK
  <2>2. InboundTypeOK' /\ UNCHANGED <<rows, convs>>
    BY <1>0, <1>6, <2>1 DEF InboundTypeOK, ingress, transport, tables, contact
  <2> QED
    BY <1>2, <1>6, <2>1, <2>2
<1> QED
  BY <1>7, <1>8, <1>9, <1>10, <1>11, <1>13, <1>14, <1>15, <1>16, <1>17, <1>19, <1>20, <1>21,
     <1>22, <1>23 DEF RunStep

(* Every step keeps the types, and what a run knows of its row.            *)
LEMMA PlacedStep == Placed /\ [InboundNext]_inboundVars => Placed'
<1> SUFFICES ASSUME Placed, [InboundNext]_inboundVars PROVE Placed'
  OBVIOUS
<1>0. InboundTypeOK
  BY DEF Placed
<1>1. ASSUME NEW h \in Handlers, RunStep(h) \/ RunThrows(h) \/ RunSwallows(h) PROVE Placed'
  BY <1>1, RunPlaced
<1>2. CASE IngressNext
  <2>1. InboundTypeOK'
    BY <1>0, <1>2, IngressTypes
  <2>2. UNCHANGED <<run, rows, convs>>
    BY <1>2 DEF IngressNext, Receive, ClaimAnswerLost, Publish, HookPublishFails, Release, ReleaseFails,
                GoesStale, tables
  <2> QED
    BY <2>1, <2>2 DEF Placed, PlacedRun
<1>3. ASSUME NEW h \in Handlers, NEW m \in Messages, Deliver(h, m) PROVE Placed'
  <2>1. InboundTypeOK'
    BY <1>0, <1>3, IngressTypes
  <2>2. UNCHANGED <<rows, convs>> /\ run'[h].at = "lookup"
        /\ \A g \in Handlers \ {h} : run'[g] = run[g]
    BY <1>0, <1>3 DEF Deliver, tables, InboundTypeOK
  <2>3. PlacedRun(h)'
    BY <2>2 DEF PlacedRun, AfterRowSteps
  <2> QED
    BY <2>1, <2>2, <2>3, OthersPlaced
<1>4. CASE ProcessCrashes
  <2>1. InboundTypeOK'
    BY <1>0, <1>4, IngressTypes
  <2>2. \A h \in Handlers : run'[h].at = "idle"
    BY <1>4 DEF ProcessCrashes, NoRun
  <2> QED
    BY <2>1, <2>2 DEF Placed, PlacedRun, AfterRowSteps
<1>5. ASSUME NEW r \in DOMAIN rows, LinkMedia(r) PROVE Placed'
  <2>1. UNCHANGED <<kind, social, ingress, transport, run, rows, jobs, convs, contact, troubles,
                    inboundHistory>>
        /\ linked' \subseteq DOMAIN rows
    BY <1>0, <1>5 DEF LinkMedia, InboundTypeOK
  <2>2. InboundTypeOK'
    BY <1>0, <2>1 DEF InboundTypeOK, ingress, transport, contact, inboundHistory
  <2> QED
    BY <2>1, <2>2 DEF Placed, PlacedRun
<1>6. ASSUME NEW c \in DOMAIN convs, AssignByHand(c) PROVE Placed'
  <2>1. UNCHANGED <<kind, social, ingress, transport, run, rows, linked, jobs, contact, troubles,
                    inboundHistory>>
    BY <1>6 DEF AssignByHand
  <2>2. convs[c] \in ConvType
    BY <1>0, TableFacts
  <2>3. [convs[c] EXCEPT !.assigned = "agent"] \in ConvType
    BY <2>2 DEF ConvType, Assignees
  <2>4. convs' \in Seq(ConvType) /\ DOMAIN convs' = DOMAIN convs
    BY <1>0, <1>6, <2>3, ConversationChanged DEF AssignByHand
  <2>5. convs' \in Seq([assigned : Assignees, session : {"none", "waiting", "done"},
                        welcomes : Nat])
    BY <2>4 DEF ConvType
  <2>6. InboundTypeOK'
    BY <1>0, <2>1, <2>5 DEF InboundTypeOK, ingress, transport, contact, inboundHistory
  <2> QED
    BY <2>1, <2>4, <2>6 DEF Placed, PlacedRun
<1>7. CASE UNCHANGED inboundVars
  <2>1. InboundTypeOK'
    BY <1>0, <1>7 DEF inboundVars, InboundTypeOK, ingress, transport, tables, contact, inboundHistory
  <2> QED
    BY <1>7, <2>1 DEF inboundVars, tables, Placed, PlacedRun
<1> QED
  BY <1>1, <1>2, <1>3, <1>4, <1>5, <1>6, <1>7 DEF InboundNext

(* The state of the ingestor, the transport and the handlers keeps its     *)
(* types, and every row a run refers to exists.                            *)
THEOREM InboundTypesHold == InboundSpec => []InboundTypeOK
<1>1. Placed => InboundTypeOK
  BY DEF Placed
<1> QED
  BY <1>1, PlacedInitially, PlacedStep, PTL DEF InboundSpec

-----------------------------------------------------------------------------
(***************************************************************************)
(* The course of a run, from step to step.                                 *)
(***************************************************************************)
Follows(a, b) ==
    /\ b \in Steps \ {"lookup"}
    /\ b \in {"requeue", "revoke"} => a = "lookup"
    /\ b = "optOut" => a = "revoke"
    /\ b = "findConv" => a \in {"lookup", "optOut"}
    /\ b = "makeConv" => a = "findConv"
    /\ b = "record" => a \in {"findConv", "makeConv"}
    /\ b \in AfterRowSteps => a \in AfterRowSteps \cup {"record"}

(* A handler's step moves no other handler, and its own run along its      *)
(* course or to its end; only the step that creates the row adds one.      *)
LEMMA Course ==
  ASSUME InboundTypeOK, NEW h \in Handlers, RunStep(h) \/ RunThrows(h) \/ RunSwallows(h)
  PROVE  /\ run[h].at # "idle" /\ run[h].msg \in Messages
         /\ \A g \in Handlers \ {h} : run'[g] = run[g]
         /\ \/ run'[h] = NoRun
            \/ run'[h].msg = run[h].msg /\ Follows(run[h].at, run'[h].at)
         /\ UNCHANGED <<kind, social, ingress, overlapped, excused>>
         /\ applied \subseteq applied'
         /\ rows' = rows \/ Record(h)
<1>0. Live(h)
  BY DEF RunStep, RunThrows, RunSwallows, Throwing, AfterSwallowed, Lookup, Requeue, Revoke, OptOut,
         FindConversation, MakeConversation, Record, EnqueueMedia, EndRun, Grant, OptIn,
         RunDefaults, Rotate, EnterFlow, StartSession, FlowSend, FlowSave, AutoReply, At, Live
<1>1. run[h] \in RunType /\ run \in [Handlers -> Runs]
  BY <1>0, RunFacts DEF Live, InboundTypeOK
<1>2. /\ UNCHANGED <<kind, social, ingress, overlapped, excused>>
      /\ applied \subseteq applied' /\ (rows' = rows \/ Record(h))
  BY DEF inboundHistory, RunStep, RunThrows, RunSwallows, Lookup, Requeue, Revoke, OptOut, FindConversation,
         MakeConversation, EnqueueMedia, EndRun, Grant, OptIn, RunDefaults, Rotate, EnterFlow,
         StartSession, FlowSend, FlowSave, AutoReply, tables, Record
<1> DEFINE Moved == /\ \A g \in Handlers \ {h} : run'[g] = run[g]
                    /\ \/ run'[h] = NoRun
                       \/ run'[h].msg = run[h].msg /\ Follows(run[h].at, run'[h].at)
<1>3. Finish(h) => Moved
  BY <1>1 DEF Finish
<1>4. ASSUME NEW b, Goto(h, b), Follows(run[h].at, b) PROVE Moved
  <2>1. run'[h] = [run[h] EXCEPT !.at = b] /\ \A g \in Handlers \ {h} : run'[g] = run[g]
    BY <1>1, <1>4 DEF Goto
  <2>2. run'[h].at = b /\ run'[h].msg = run[h].msg
    BY <1>1, <2>1 DEF RunType
  <2> QED
    BY <1>4, <2>1, <2>2
<1> HIDE DEF Moved
<1>5. ASSUME RunThrows(h) PROVE Moved
  BY <1>3, <1>5 DEF RunThrows, Throws
<1>6. ASSUME RunSwallows(h) PROVE Moved
  <2>1. Follows(run[h].at, AfterSwallowed[run[h].at])
    BY <1>6 DEF RunSwallows, AfterSwallowed, Follows, AfterRowSteps, Steps
  <2> QED
    BY <1>4, <1>6, <2>1 DEF RunSwallows
<1>7. ASSUME \/ Requeue(h) \/ EndRun(h) \/ FlowSave(h) \/ AutoReply(h) PROVE Moved
  BY <1>3, <1>7 DEF Requeue, EndRun, FlowSave, AutoReply
<1>8. ASSUME \/ Revoke(h) \/ OptOut(h) \/ EnqueueMedia(h) \/ Grant(h) \/ OptIn(h)
             \/ RunDefaults(h) \/ Rotate(h) \/ FlowSend(h)
      PROVE  Moved
  <2>1. PICK b \in {"optOut", "findConv", "defaults", "optIn", "autoReply", "rotate", "flow",
                    "flowSave"} : Goto(h, b) /\ Follows(run[h].at, b)
    BY <1>8 DEF Revoke, OptOut, EnqueueMedia, Grant, OptIn, RunDefaults, Rotate, FlowSend, At,
                Follows, AfterRowSteps, Steps
  <2> QED
    BY <1>4, <2>1
<1>9. ASSUME Lookup(h) PROVE Moved
  <2>1. ASSUME NEW b \in {"revoke", "findConv"}, Goto(h, b) PROVE Moved
    BY <1>4, <1>9, <2>1 DEF Lookup, At, Follows, AfterRowSteps, Steps
  <2>2. ASSUME NEW r \in DOMAIN rows, run' = [run EXCEPT ![h].at = "requeue", ![h].row = r]
        PROVE  Moved
    <3>1. run'[h].at = "requeue" /\ run'[h].msg = run[h].msg /\ run[h].at = "lookup"
      BY <1>1, <1>9, <2>2 DEF RunType, Lookup, At
    <3> QED
      BY <1>1, <2>2, <3>1 DEF Moved, Follows, AfterRowSteps, Steps
  <2> QED
    BY <1>3, <1>9, <2>1, <2>2 DEF Lookup
<1>10. ASSUME FindConversation(h) \/ MakeConversation(h) PROVE Moved
  <2>1. ASSUME Goto(h, "makeConv") /\ FindConversation(h) PROVE Moved
    BY <1>4, <2>1 DEF FindConversation, At, Follows, AfterRowSteps, Steps
  <2>2. ASSUME NEW c, NEW a,
               run' = [run EXCEPT ![h].at = "record", ![h].conv = c, ![h].seen = a]
        PROVE  Moved
    <3>1. /\ run'[h].at = "record" /\ run'[h].msg = run[h].msg
          /\ run[h].at \in {"findConv", "makeConv"}
      BY <1>1, <1>10, <2>2 DEF RunType, FindConversation, MakeConversation, At
    <3> QED
      BY <1>1, <2>2, <3>1 DEF Moved, Follows, AfterRowSteps, Steps
  <2> QED
    BY <1>10, <2>1, <2>2 DEF FindConversation, MakeConversation
<1>11. ASSUME Record(h) PROVE Moved
  <2>1. /\ run'[h].at = AfterRow(h) /\ run'[h].msg = run[h].msg /\ run[h].at = "record"
        /\ \A g \in Handlers \ {h} : run'[g] = run[g]
    BY <1>1, <1>11 DEF RunType, Record, At
  <2>2. AfterRow(h) \in AfterRowSteps
    BY DEF AfterRow, AfterRowSteps
  <2> QED
    BY <2>1, <2>2 DEF Moved, Follows, AfterRowSteps, Steps
<1>12. ASSUME EnterFlow(h) \/ StartSession(h) PROVE Moved
  <2>1. run[h].at \in AfterRowSteps
    BY <1>12 DEF EnterFlow, StartSession, At, AfterRowSteps
  <2>2. ASSUME NEW b \in {"flowStart", "autoReply"}, Goto(h, b) PROVE Moved
    BY <1>4, <2>1, <2>2 DEF Follows, AfterRowSteps, Steps
  <2>3. ASSUME NEW f, run' = [run EXCEPT ![h].at = "flowSend", ![h].flow = f] PROVE Moved
    <3>1. run'[h].at = "flowSend" /\ run'[h].msg = run[h].msg
      BY <1>1, <2>3 DEF RunType
    <3> QED
      BY <1>1, <2>1, <2>3, <3>1 DEF Moved, Follows, AfterRowSteps, Steps
  <2> QED
    BY <1>3, <1>12, <2>2, <2>3 DEF EnterFlow, StartSession
<1>13. Moved
  BY <1>5, <1>6, <1>7, <1>8, <1>9, <1>10, <1>11, <1>12 DEF RunStep
<1> QED
  BY <1>0, <1>1, <1>2, <1>13 DEF Live, Moved, RunType

(* What a run does at the replay guard and at the end of a STOP.           *)
LEMMA Opening ==
  ASSUME InboundTypeOK, NEW h \in Handlers, RunStep(h) \/ RunThrows(h) \/ RunSwallows(h),
         run[h].at \in {"lookup", "optOut"}
  PROVE  \/ run'[h] = NoRun
         \/ /\ Lookup(h) /\ run'[h].at = "requeue"
         \/ /\ Lookup(h) /\ ~Recorded(run[h].msg)
            /\ run'[h].at = IF kind[run[h].msg] = "stop" THEN "revoke" ELSE "findConv"
         \/ OptOut(h) /\ run[h].msg \in applied'
<1>1. Lookup(h) \/ OptOut(h) \/ RunThrows(h)
  BY DEF RunStep, RunThrows, RunSwallows, AfterSwallowed, Requeue, Revoke, FindConversation,
         MakeConversation, Record, EnqueueMedia, EndRun, Grant, OptIn, RunDefaults, Rotate,
         EnterFlow, StartSession, FlowSend, FlowSave, AutoReply, At
<1>2. run \in [Handlers -> Runs] /\ run[h] \in RunType
  BY RunFacts DEF InboundTypeOK
<1>3. Finish(h) => run'[h] = NoRun
  BY <1>2 DEF Finish
<1>4. \A b : Goto(h, b) => run'[h].at = b
  BY <1>2 DEF Goto, RunType
<1>5. \A r : run' = [run EXCEPT ![h].at = "requeue", ![h].row = r] => run'[h].at = "requeue"
  BY <1>2 DEF RunType
<1>6. CASE Lookup(h)
  BY <1>3, <1>4, <1>5, <1>6 DEF Lookup, Msg, Kind
<1> QED
  BY <1>1, <1>3, <1>6 DEF RunThrows, Throws, OptOut, Msg

(* What the step that creates a message's row adds to the table.           *)
LEMMA RowAdded ==
  ASSUME InboundTypeOK, NEW h \in Handlers, Record(h)
  PROVE  /\ run[h].at = "record" /\ run'[h].at \in AfterRowSteps /\ run'[h].conv = run[h].conv
         /\ run'[h].row = Len(rows) + 1
         /\ DOMAIN rows' = DOMAIN rows \cup {Len(rows) + 1}
         /\ \A r \in DOMAIN rows : rows'[r] = rows[r] /\ r # Len(rows) + 1
         /\ rows'[Len(rows) + 1] = [msg |-> run[h].msg, conv |-> run[h].conv]
<1>1. run[h] \in RunType /\ run \in [Handlers -> Runs] /\ run[h].at = "record"
  BY RunFacts DEF InboundTypeOK, Record, At
<1>2. AfterRow(h) \in AfterRowSteps
  BY DEF AfterRow, AfterRowSteps
<1>3. /\ run'[h].at = AfterRow(h) /\ run'[h].conv = run[h].conv
      /\ run'[h].row = Len(rows) + 1
  BY <1>1 DEF Record, RunType
<1>4. [msg |-> run[h].msg, conv |-> run[h].conv] \in RowType
  BY <1>1 DEF RunType, RowType
<1>5. rows' = Append(rows, [msg |-> run[h].msg, conv |-> run[h].conv])
  BY DEF Record, Msg
<1> HIDE DEF RowType
<1>6. /\ Len(rows') = Len(rows) + 1 /\ rows' \in Seq(RowType)
      /\ \A r \in 1..Len(rows) : rows'[r] = rows[r]
      /\ rows'[Len(rows) + 1] = [msg |-> run[h].msg, conv |-> run[h].conv]
  BY <1>4, <1>5, TableFacts, AppendProperties
<1>7. DOMAIN rows' = 1..(Len(rows) + 1)
  BY <1>6, LenProperties
<1> QED
  BY <1>1, <1>2, <1>3, <1>6, <1>7, TableFacts

LEMMA RowRecorded ==
  ASSUME InboundTypeOK, NEW h \in Handlers, Record(h), NEW m \in Messages
  PROVE  Recorded(m)' <=> Recorded(m) \/ m = run[h].msg
<1> DEFINE new == Len(rows) + 1
<1>1. /\ DOMAIN rows' = DOMAIN rows \cup {new}
      /\ \A r \in DOMAIN rows : rows'[r] = rows[r]
      /\ rows'[new] = [msg |-> run[h].msg, conv |-> run[h].conv]
  BY RowAdded
<1> HIDE DEF new
<1>2. rows'[new].msg = run[h].msg
  BY <1>1
<1> QED
  BY <1>1, <1>2 DEF Recorded

(* Every other step leaves the rows and the runs where they are, but for   *)
(* the run it starts or the crash that ends them all.                      *)
LEMMA Elsewhere ==
  ASSUME InboundTypeOK, [InboundNext]_inboundVars,
         \A h \in Handlers : ~(RunStep(h) \/ RunThrows(h) \/ RunSwallows(h))
  PROVE  /\ UNCHANGED <<kind, rows, applied>> /\ overlapped \subseteq overlapped'
         /\ \/ run' = run
            \/ \A h \in Handlers : run'[h] = NoRun
            \/ \E h \in Handlers, m \in Messages : Deliver(h, m)
<1>1. CASE IngressNext
  BY <1>1 DEF IngressNext, Receive, ClaimAnswerLost, Publish, HookPublishFails, Release, ReleaseFails,
              GoesStale, tables, inboundHistory
<1>2. CASE ProcessCrashes
  BY <1>2 DEF ProcessCrashes, tables
<1>3. ASSUME NEW h \in Handlers, NEW m \in Messages, Deliver(h, m)
      PROVE  UNCHANGED <<kind, rows, applied>> /\ overlapped \subseteq overlapped'
  BY <1>3 DEF Deliver, tables
<1>4. CASE (\E r \in DOMAIN rows : LinkMedia(r)) \/ (\E c \in DOMAIN convs : AssignByHand(c))
  BY <1>4 DEF LinkMedia, AssignByHand, inboundHistory
<1>5. CASE UNCHANGED inboundVars
  BY <1>5 DEF inboundVars, tables, inboundHistory
<1> QED
  BY <1>1, <1>2, <1>3, <1>4, <1>5 DEF InboundNext

(* What a delivery starts.                                                 *)
LEMMA Delivered ==
  ASSUME InboundTypeOK, NEW h \in Handlers, NEW m \in Messages, Deliver(h, m)
  PROVE  /\ run[h].at = "idle" /\ run'[h].at = "lookup" /\ run'[h].msg = m
         /\ \A g \in Handlers \ {h} : run'[g] = run[g]
         /\ Running(m) => m \in overlapped'
  BY DEF Deliver, InboundTypeOK

-----------------------------------------------------------------------------
(***************************************************************************)
(* A STOP is applied before its row exists: a run of a STOP that has come  *)
(* as far as the conversation has made both writes.                        *)
(***************************************************************************)
StopsApplied ==
    /\ RecordedStopApplied
    /\ \A h \in Handlers :
          run[h].at \in {"findConv", "makeConv", "record"} /\ kind[run[h].msg] = "stop" =>
              run[h].msg \in applied

LEMMA StopsStep ==
  ASSUME InboundTypeOK, StopsApplied, [InboundNext]_inboundVars
  PROVE  StopsApplied'
<1>1. ASSUME NEW h \in Handlers, RunStep(h) \/ RunThrows(h) \/ RunSwallows(h)
      PROVE  StopsApplied'
  <2>0. /\ run[h].at # "idle" /\ run[h].msg \in Messages
        /\ \A g \in Handlers \ {h} : run'[g] = run[g]
        /\ \/ run'[h] = NoRun
           \/ run'[h].msg = run[h].msg /\ Follows(run[h].at, run'[h].at)
        /\ kind' = kind /\ applied \subseteq applied'
        /\ rows' = rows \/ Record(h)
    BY <1>1, Course
  <2>1. ASSUME run'[h].at \in {"findConv", "makeConv", "record"}, kind[run[h].msg] = "stop"
        PROVE  run'[h].msg \in applied'
    <3>1. run'[h].msg = run[h].msg /\ Follows(run[h].at, run'[h].at)
      BY <2>0, <2>1 DEF NoRun
    <3>2. CASE run[h].at \in {"findConv", "makeConv"}
      BY <2>0, <2>1, <3>1, <3>2 DEF StopsApplied
    <3>3. CASE run[h].at \in {"lookup", "optOut"}
      BY <1>1, <2>1, <3>1, <3>3, Opening DEF NoRun
    <3> QED
      BY <2>1, <3>1, <3>2, <3>3 DEF Follows
  <2>2. ASSUME NEW m \in Messages, Recorded(m)', kind[m] = "stop" PROVE m \in applied
    <3>1. CASE rows' = rows
      BY <2>2, <3>1 DEF Recorded, StopsApplied, RecordedStopApplied
    <3>2. CASE Record(h)
      <4>1. Recorded(m) \/ m = run[h].msg
        BY <2>2, <3>2, RowRecorded
      <4>2. CASE Recorded(m)
        BY <2>2, <4>2 DEF StopsApplied, RecordedStopApplied
      <4>3. CASE m = run[h].msg
        BY <2>2, <3>2, <4>3, RowAdded DEF StopsApplied
      <4> QED
        BY <4>1, <4>2, <4>3
    <3> QED
      BY <2>0, <3>1, <3>2
  <2> QED
    BY <2>0, <2>1, <2>2 DEF StopsApplied, RecordedStopApplied, NoRun
<1>2. ASSUME \A h \in Handlers : ~(RunStep(h) \/ RunThrows(h) \/ RunSwallows(h))
      PROVE  StopsApplied'
  <2>1. /\ UNCHANGED <<kind, rows, applied>>
        /\ \/ run' = run
           \/ \A h \in Handlers : run'[h] = NoRun
           \/ \E h \in Handlers, m \in Messages : Deliver(h, m)
    BY <1>2, Elsewhere
  <2> QED
    BY <2>1, Delivered DEF StopsApplied, RecordedStopApplied, Recorded, NoRun
<1> QED
  BY <1>1, <1>2

(* No failure, crash or redelivery leaves a STOP recorded and unapplied:   *)
(* what makes a redelivery a replay is written after both of its writes.   *)
THEOREM RecordedStopsApplied == InboundSpec => []RecordedStopApplied
<1>1. InboundInit => Placed /\ StopsApplied
  BY PlacedInitially DEF InboundInit, StopsApplied, RecordedStopApplied, Recorded, NoRun
<1>2. Placed /\ StopsApplied /\ [InboundNext]_inboundVars => Placed' /\ StopsApplied'
  BY PlacedStep, StopsStep DEF Placed
<1>3. StopsApplied => RecordedStopApplied
  BY DEF StopsApplied
<1> QED
  BY <1>1, <1>2, <1>3, PTL DEF InboundSpec

-----------------------------------------------------------------------------
(***************************************************************************)
(* The replay guard: between the lookup that found nothing and the row, a  *)
(* message is unrecorded unless another of its runs was going meanwhile.   *)
(***************************************************************************)
Unguarded == {"revoke", "optOut", "findConv", "makeConv", "record"}

Guarded ==
    /\ DuplicatesNeedOverlap
    /\ \A h \in Handlers :
          run[h].at \in Unguarded => ~Recorded(run[h].msg) \/ run[h].msg \in overlapped
    /\ \A g, h \in Handlers :
          g # h /\ Live(g) /\ Live(h) /\ run[g].msg = run[h].msg => run[h].msg \in overlapped

LEMMA GuardedStep ==
  ASSUME InboundTypeOK, Guarded, [InboundNext]_inboundVars
  PROVE  Guarded'
<1>1. ASSUME NEW h \in Handlers, RunStep(h) \/ RunThrows(h) \/ RunSwallows(h)
      PROVE  Guarded'
  <2>0. /\ run[h].at # "idle" /\ run[h].msg \in Messages
        /\ \A g \in Handlers \ {h} : run'[g] = run[g]
        /\ \/ run'[h] = NoRun
           \/ run'[h].msg = run[h].msg /\ Follows(run[h].at, run'[h].at)
        /\ overlapped' = overlapped
        /\ rows' = rows \/ Record(h)
    BY <1>1, Course
  <2>1. \A f, g \in Handlers :
           f # g /\ Live(f)' /\ Live(g)' /\ run'[f].msg = run'[g].msg => run'[g].msg \in overlapped
    BY <2>0 DEF Guarded, Live, NoRun
  <2>2. ASSUME rows' = rows PROVE Guarded'
    <3>1. ASSUME run'[h].at \in Unguarded
          PROVE  ~Recorded(run[h].msg) \/ run[h].msg \in overlapped
      <4>1. Follows(run[h].at, run'[h].at)
        BY <2>0, <3>1 DEF NoRun, Unguarded
      <4>2. CASE run[h].at \in Unguarded
        BY <4>2 DEF Guarded
      <4>3. CASE run[h].at = "lookup"
        <5>1. ~OptOut(h) /\ run'[h] # NoRun /\ run'[h].at # "requeue"
          BY <3>1, <4>3 DEF OptOut, At, NoRun, Unguarded
        <5> QED
          BY <1>1, <4>3, <5>1, Opening
      <4> QED
        BY <3>1, <4>1, <4>2, <4>3 DEF Follows, Unguarded
    <3>2. \A g \in Handlers :
             run'[g].at \in Unguarded => ~Recorded(run'[g].msg) \/ run'[g].msg \in overlapped
      BY <2>0, <3>1 DEF Guarded, NoRun, Unguarded
    <3> QED
      BY <2>0, <2>1, <2>2, <3>2 DEF Guarded, DuplicatesNeedOverlap, Recorded
  <2>3. ASSUME Record(h) PROVE Guarded'
    <3>1. run[h].at = "record" /\ run'[h].at \in AfterRowSteps
      BY <2>3, RowAdded
    <3>2. ~Recorded(run[h].msg) \/ run[h].msg \in overlapped
      BY <3>1 DEF Guarded, Unguarded
    <3>3. ASSUME NEW g \in Handlers, run'[g].at \in Unguarded
          PROVE  ~Recorded(run[g].msg)' \/ run'[g].msg \in overlapped
      <4>1. g # h /\ run'[g] = run[g] /\ Live(g) /\ run[g].msg \in Messages
        BY <2>0, <3>1, <3>3, RunFacts DEF AfterRowSteps, Unguarded, Live
      <4>2. CASE run[g].msg = run[h].msg
        BY <2>0, <4>1, <4>2 DEF Guarded, Live
      <4>3. CASE run[g].msg # run[h].msg
        <5>1. PICK m \in Messages : m = run[g].msg
          BY <4>1
        <5>2. ~Recorded(m) \/ m \in overlapped
          BY <3>3, <4>1, <5>1 DEF Guarded
        <5>3. Recorded(m)' <=> Recorded(m)
          BY <2>3, <4>3, <5>1, RowRecorded
        <5>4. Recorded(run[g].msg)' <=> Recorded(m)'
          BY <4>1, <5>1 DEF Recorded
        <5> QED
          BY <4>1, <5>1, <5>2, <5>3, <5>4
      <4> QED
        BY <4>2, <4>3
    <3>4. ASSUME NEW r \in DOMAIN rows', NEW s \in DOMAIN rows', rows'[r].msg = rows'[s].msg
          PROVE  r = s \/ rows'[r].msg \in overlapped
      <4> DEFINE new == Len(rows) + 1
      <4>1. /\ DOMAIN rows' = DOMAIN rows \cup {new}
            /\ \A q \in DOMAIN rows : rows'[q] = rows[q]
            /\ rows'[new] = [msg |-> run[h].msg, conv |-> run[h].conv]
        BY <2>3, RowAdded
      <4> HIDE DEF new
      <4>2. rows'[new].msg = run[h].msg
        BY <4>1
      <4>3. \A q \in DOMAIN rows : rows'[q].msg = run[h].msg => run[h].msg \in overlapped
        BY <3>2, <4>1 DEF Recorded
      <4>4. CASE r \in DOMAIN rows /\ s \in DOMAIN rows
        BY <3>4, <4>1, <4>4 DEF Guarded, DuplicatesNeedOverlap
      <4>5. CASE r = new /\ s \in DOMAIN rows
        BY <3>4, <4>2, <4>3, <4>5
      <4>6. CASE s = new /\ r \in DOMAIN rows
        BY <3>4, <4>2, <4>3, <4>6
      <4> QED
        BY <4>1, <4>4, <4>5, <4>6
    <3> QED
      BY <2>0, <2>1, <3>3, <3>4 DEF Guarded, DuplicatesNeedOverlap
  <2> QED
    BY <2>0, <2>2, <2>3
<1>2. ASSUME \A h \in Handlers : ~(RunStep(h) \/ RunThrows(h) \/ RunSwallows(h))
      PROVE  Guarded'
  <2>1. /\ rows' = rows /\ overlapped \subseteq overlapped'
        /\ \/ run' = run
           \/ \A h \in Handlers : run'[h] = NoRun
           \/ \E h \in Handlers, m \in Messages : Deliver(h, m)
    BY <1>2, Elsewhere
  <2>2. DuplicatesNeedOverlap'
    BY <2>1 DEF Guarded, DuplicatesNeedOverlap
  <2>3. CASE run' = run \/ \A h \in Handlers : run'[h] = NoRun
    BY <2>1, <2>2, <2>3 DEF Guarded, Recorded, Live, Unguarded, NoRun
  <2>4. ASSUME NEW h \in Handlers, NEW m \in Messages, Deliver(h, m) PROVE Guarded'
    <3>1. /\ run'[h].at = "lookup" /\ run'[h].msg = m
          /\ \A g \in Handlers \ {h} : run'[g] = run[g]
          /\ Running(m) => m \in overlapped'
      BY <2>4, Delivered
    <3>2. \A g \in Handlers \ {h} : Live(g)' /\ run'[g].msg = m => m \in overlapped'
      BY <3>1 DEF Live, Running
    <3> QED
      BY <2>1, <2>2, <3>1, <3>2 DEF Guarded, Recorded, Live, Unguarded
  <2> QED
    BY <2>1, <2>3, <2>4
<1> QED
  BY <1>1, <1>2

(* A second row of a message takes two of its runs going at once: neither  *)
(* a retry nor a redelivery after a crash records it again.                *)
THEOREM OneRowPerMessage == InboundSpec => []DuplicatesNeedOverlap
<1>1. InboundInit => Placed /\ Guarded
  BY PlacedInitially DEF InboundInit, Guarded, DuplicatesNeedOverlap, Recorded, Live, Unguarded, NoRun
<1>2. Placed /\ Guarded /\ [InboundNext]_inboundVars => Placed' /\ Guarded'
  BY PlacedStep, GuardedStep DEF Placed
<1>3. Guarded => DuplicatesNeedOverlap
  BY DEF Guarded
<1> QED
  BY <1>1, <1>2, <1>3, PTL DEF InboundSpec

-----------------------------------------------------------------------------
(***************************************************************************)
(* An acknowledged message is on its way: claimed, with no request at work *)
(* on it, it is on the transport, in a run, recorded or dead-lettered.     *)
(***************************************************************************)
OnItsWay(m) == m \in excused \/ copies[m] > 0 \/ Running(m) \/ Recorded(m) \/ Dead(m)

Kept ==
    /\ \A m \in Messages : hook[m] # "none" => m \in claimed
    /\ \A m \in Messages : meta[m] = "acked" => m \in excused \/ (m \in claimed /\ hook[m] = "none")
    /\ \A m \in Messages : m \in claimed /\ hook[m] = "none" => OnItsWay(m)

(* A run ends with its message recorded, or by throwing.                   *)
LEMMA Ending ==
  ASSUME Placed, NEW h \in Handlers, RunStep(h) \/ RunThrows(h) \/ RunSwallows(h), run'[h] = NoRun
  PROVE  RunThrows(h) \/ Recorded(run[h].msg)
<1>0. InboundTypeOK /\ PlacedRun(h)
  BY DEF Placed
<1>1. run \in [Handlers -> Runs] /\ run[h] \in RunType
  BY <1>0, Course, RunFacts DEF InboundTypeOK
<1>2. \A b : Goto(h, b) => b = "idle"
  BY <1>1 DEF Goto, RunType, NoRun
<1>3. ~RunSwallows(h)
  BY <1>2 DEF RunSwallows, AfterSwallowed
<1>4. CASE run[h].at \in AfterRowSteps \cup {"requeue"}
  BY <1>0, <1>4 DEF PlacedRun, Recorded
<1>5. CASE Lookup(h)
  BY <1>2, <1>5 DEF Lookup, Recorded, Msg
<1>6. ~(Revoke(h) \/ OptOut(h))
  BY <1>2 DEF Revoke, OptOut
<1>7. ~(FindConversation(h) \/ MakeConversation(h))
  <2>1. \A c, a : run' # [run EXCEPT ![h].at = "record", ![h].conv = c, ![h].seen = a]
    BY <1>1 DEF RunType, NoRun
  <2> QED
    BY <1>2, <2>1 DEF FindConversation, MakeConversation
<1>8. ~Record(h)
  <2>1. Record(h) => run'[h].at \in AfterRowSteps
    BY <1>0, RowAdded
  <2> QED
    BY <2>1 DEF NoRun, AfterRowSteps
<1>9. RunThrows(h) \/ Lookup(h) \/ run[h].at \in AfterRowSteps \cup {"requeue"}
  BY <1>3, <1>6, <1>7, <1>8
     DEF RunStep, Requeue, EnqueueMedia, EndRun, Grant, OptIn, RunDefaults, Rotate, EnterFlow,
         StartSession, FlowSend, FlowSave, AutoReply, At, AfterRowSteps
<1> QED
  BY <1>4, <1>5, <1>9

(* No step of a run takes its message off its way.                         *)
LEMMA OnItsWayInRuns ==
  ASSUME Placed, NEW h \in Handlers, RunStep(h) \/ RunThrows(h) \/ RunSwallows(h),
         NEW m \in Messages, OnItsWay(m)
  PROVE  OnItsWay(m)'
<1>0. InboundTypeOK
  BY DEF Placed
<1>1. /\ run[h].at # "idle" /\ run[h].msg \in Messages
      /\ \A g \in Handlers \ {h} : run'[g] = run[g]
      /\ \/ run'[h] = NoRun
         \/ run'[h].msg = run[h].msg /\ Follows(run[h].at, run'[h].at)
      /\ excused' = excused /\ social' = social
      /\ rows' = rows \/ Record(h)
  BY <1>0, Course
<1>2. Recorded(m) => Recorded(m)'
  BY <1>0, <1>1, RowRecorded DEF Recorded
<1>3. CASE RunThrows(h)
  <2>1. /\ failedRuns' = [failedRuns EXCEPT ![run[h].msg] = @ + 1]
        /\ copies' = [copies EXCEPT ![run[h].msg] =
                         IF failedRuns'[run[h].msg] < Limit(run[h].msg) THEN @ + 1 ELSE @]
    BY <1>3 DEF RunThrows, Throws, Msg
  <2>2. copies[m] \in Nat /\ failedRuns[m] \in Nat /\ failedRuns \in [Messages -> Nat]
        /\ copies \in [Messages -> Nat] /\ Limit(m) \in Nat /\ Limit(m)' = Limit(m)
    BY <1>0, <1>1, InboundAssumption DEF InboundTypeOK, Limit
  <2>3. /\ copies'[m] \in Nat /\ copies'[m] >= copies[m]
        /\ failedRuns'[m] \in Nat /\ failedRuns'[m] >= failedRuns[m]
    BY <1>1, <2>1, <2>2
  <2>4. ASSUME m = run[h].msg PROVE copies'[m] > 0 \/ Dead(m)'
    BY <2>1, <2>2, <2>4 DEF Dead
  <2>5. Running(m) => m = run[h].msg \/ Running(m)'
    BY <1>1 DEF Running
  <2>6. copies[m] > 0 => copies'[m] > 0
    BY <2>2, <2>3
  <2>7. Dead(m) => Dead(m)'
    BY <2>2, <2>3 DEF Dead
  <2> QED
    BY <1>1, <1>2, <2>4, <2>5, <2>6, <2>7 DEF OnItsWay
<1>4. CASE ~RunThrows(h)
  <2>1. transport' = transport
    BY <1>4 DEF RunStep, RunSwallows, Lookup, Requeue, Revoke, OptOut, FindConversation,
         MakeConversation, Record, EnqueueMedia, EndRun, Grant, OptIn, RunDefaults, Rotate,
         EnterFlow, StartSession, FlowSend, FlowSave, AutoReply
  <2>2. run'[h] = NoRun => Recorded(run[h].msg)
    BY <1>4, Ending
  <2>3. Running(m) => Recorded(m) \/ Running(m)'
    BY <1>1, <2>2 DEF Running, Follows, Steps
  <2> QED
    BY <1>1, <1>2, <2>1, <2>3 DEF OnItsWay, Dead, Limit, transport
<1> QED
  BY <1>3, <1>4

LEMMA KeptStep ==
  ASSUME Placed, Kept, [InboundNext]_inboundVars
  PROVE  Kept'
<1>0. InboundTypeOK
  BY DEF Placed
<1>1. ASSUME NEW h \in Handlers, RunStep(h) \/ RunThrows(h) \/ RunSwallows(h)
      PROVE  Kept'
  <2>1. UNCHANGED <<ingress, excused>>
    BY <1>0, <1>1, Course
  <2> QED
    BY <1>1, <2>1, OnItsWayInRuns DEF Kept, ingress
<1>2. ASSUME NEW m \in Messages,
             \/ Receive(m) \/ ClaimAnswerLost(m) \/ Publish(m) \/ HookPublishFails(m)
             \/ Release(m) \/ ReleaseFails(m)
      PROVE  Kept'
  <2> USE <1>0 DEF InboundTypeOK
  <2>1. UNCHANGED <<run, rows, failedRuns, social>> /\ excused \subseteq excused'
    BY <1>2 DEF Receive, ClaimAnswerLost, Publish, HookPublishFails, Release, ReleaseFails,
                transport, tables, inboundHistory
  <2>2. \A n \in Messages : copies[n] > 0 => copies'[n] > 0
    <3>1. CASE Publish(m)
      BY <3>1 DEF Publish
    <3>2. CASE ~Publish(m)
      BY <1>2, <3>2 DEF Receive, ClaimAnswerLost, HookPublishFails, Release, ReleaseFails, transport
    <3> QED
      BY <3>1, <3>2
  <2>8. \A n \in Messages : OnItsWay(n) => OnItsWay(n)'
    BY <2>1, <2>2 DEF OnItsWay, Running, Recorded, Dead, Limit
  <2>3. CASE Receive(m)
    <3>1. CASE m \in claimed
      <4>1. /\ meta' = [meta EXCEPT ![m] = "acked"] /\ UNCHANGED <<claimed, hook>>
            /\ m \in excused' \/ hook[m] = "none"
        BY <2>3, <3>1 DEF Receive
      <4> QED
        BY <2>1, <2>8, <3>1, <4>1 DEF Kept
    <3>2. CASE m \notin claimed
      <4>1. /\ claimed' = claimed \cup {m} /\ hook' = [hook EXCEPT ![m] = "publish"]
            /\ UNCHANGED meta /\ meta[m] # "acked"
        BY <2>3, <3>2 DEF Receive
      <4> QED
        BY <2>1, <2>8, <4>1 DEF Kept
    <3> QED
      BY <3>1, <3>2
  <2>4. CASE Publish(m)
    <3>1. OnItsWay(m)'
      BY <2>4 DEF Publish, OnItsWay
    <3> QED
      BY <2>8, <2>4, <3>1 DEF Publish, Kept, inboundHistory
  <2>5. CASE HookPublishFails(m)
    BY <2>8, <2>5 DEF HookPublishFails, Kept, inboundHistory
  <2>6. CASE Release(m)
    BY <2>8, <2>6 DEF Release, Kept, inboundHistory
  <2>7. CASE ReleaseFails(m)
    <3>1. OnItsWay(m)'
      BY <2>7 DEF ReleaseFails, OnItsWay
    <3> QED
      BY <2>8, <2>7, <3>1 DEF ReleaseFails, Kept
  <2>9. CASE ClaimAnswerLost(m)
    <3>1. OnItsWay(m)'
      BY <2>9 DEF ClaimAnswerLost, OnItsWay
    <3> QED
      BY <2>8, <2>9, <3>1 DEF ClaimAnswerLost, Kept
  <2> QED
    BY <1>2, <2>3, <2>4, <2>5, <2>6, <2>7, <2>9
<1>3. ASSUME NEW m \in Messages, GoesStale(m) PROVE Kept'
  <2>1. UNCHANGED <<ingress, run, rows, failedRuns, social, excused>>
        /\ \A n \in Messages : copies[n] > 0 => copies'[n] > 0
    BY <1>0, <1>3 DEF GoesStale, InboundTypeOK, tables, inboundHistory
  <2> QED
    BY <2>1 DEF Kept, ingress, OnItsWay, Running, Recorded, Dead, Limit
<1>4. ASSUME NEW h \in Handlers, NEW m \in Messages, Deliver(h, m) PROVE Kept'
  <2>1. /\ run[h].at = "idle" /\ run'[h].at = "lookup" /\ run'[h].msg = m
        /\ \A g \in Handlers \ {h} : run'[g] = run[g]
    BY <1>0, <1>4, Delivered
  <2>2. /\ UNCHANGED <<ingress, rows, failedRuns, social, excused>>
        /\ \A n \in Messages : n = m \/ copies'[n] = copies[n]
    BY <1>0, <1>4 DEF Deliver, InboundTypeOK, tables
  <2>3. \A n \in Messages : n = m \/ Running(n) => Running(n)'
    BY <2>1 DEF Running
  <2>4. \A n \in Messages : OnItsWay(n) => OnItsWay(n)'
    BY <2>2, <2>3 DEF OnItsWay, Recorded, Dead, Limit
  <2> QED
    BY <2>2, <2>4 DEF Kept, ingress
<1>5. CASE ProcessCrashes
  <2> DEFINE Lost(m) == {h \in Handlers : run[h].at # "idle" /\ run[h].msg = m}
  <2>1. ASSUME NEW m \in Messages
        PROVE  Cardinality(Lost(m)) \in Nat /\ (Running(m) => Cardinality(Lost(m)) > 0)
    <3>1. IsFiniteSet(Lost(m))
      <4>1. IsFiniteSet(Handlers) /\ Lost(m) \subseteq Handlers
        BY FS_Interval, InboundAssumption DEF Handlers
      <4> QED
        BY <4>1, FS_Subset
    <3>2. Running(m) => Lost(m) # {}
      BY DEF Running
    <3> HIDE DEF Lost
    <3> QED
      BY <3>1, <3>2, FS_CardinalityType, FS_EmptySet
  <2>2. copies' = [m \in Messages |-> copies[m] + Cardinality(Lost(m))]
    BY <1>5 DEF ProcessCrashes
  <2> HIDE DEF Lost
  <2>3. /\ UNCHANGED <<meta, claimed, rows, failedRuns, social>>
        /\ excused' = excused \cup {m \in Messages : hook[m] # "none"}
        /\ hook' = [m \in Messages |-> "none"]
    BY <1>5 DEF ProcessCrashes, tables
  <2>4. \A m \in Messages : OnItsWay(m) => OnItsWay(m)'
    BY <1>0, <2>1, <2>2, <2>3 DEF OnItsWay, Recorded, Dead, Limit, InboundTypeOK
  <2>5. \A m \in Messages : hook[m] # "none" => OnItsWay(m)'
    BY <2>3 DEF OnItsWay
  <2> QED
    BY <2>3, <2>4, <2>5 DEF Kept
<1>6. CASE (\E r \in DOMAIN rows : LinkMedia(r)) \/ (\E c \in DOMAIN convs : AssignByHand(c))
           \/ UNCHANGED inboundVars
  <2>1. UNCHANGED <<ingress, transport, run, rows, social, excused>>
    BY <1>6 DEF LinkMedia, AssignByHand, inboundVars, tables, inboundHistory
  <2> QED
    BY <2>1 DEF Kept, ingress, transport, OnItsWay, Running, Recorded, Dead, Limit
<1> QED
  BY <1>1, <1>2, <1>3, <1>4, <1>5, <1>6 DEF InboundNext, IngressNext

(* A webhook Meta takes for delivered has its event on the transport: the  *)
(* claim of a failed publish is given back before the request is answered, *)
(* and a claim kept without a publish is one the model names.              *)
THEOREM AcknowledgedIsKept == InboundSpec => []NoSilentLoss
<1>1. InboundInit => Placed /\ Kept
  <2>1. InboundInit => Kept
    BY InboundAssumption DEF InboundInit, Kept, OnItsWay
  <2> QED
    BY <2>1, PlacedInitially
<1>2. Placed /\ Kept /\ [InboundNext]_inboundVars => Placed' /\ Kept'
  BY PlacedStep, KeptStep
<1>3. Kept => NoSilentLoss
  BY DEF Kept, NoSilentLoss, OnItsWay
<1> QED
  BY <1>1, <1>2, <1>3, PTL DEF InboundSpec

-----------------------------------------------------------------------------
(***************************************************************************)
(* The welcome: a run that has yet to decide on it, in a conversation that *)
(* has been welcomed, will see a row that is not its own.                  *)
(***************************************************************************)
Ahead == {"media", "grant", "optIn", "defaults"}

Welcomed ==
    /\ WelcomeOnce
    /\ \A c \in DOMAIN convs :
          convs[c].welcomes = 1 => \E r \in DOMAIN rows : rows[r].conv = c
    /\ \A h \in Handlers :
          run[h].at \in Ahead /\ convs[run[h].conv].welcomes = 1 =>
              \E r \in DOMAIN rows : rows[r].conv = run[h].conv /\ r # run[h].row
    /\ \A g, h \in Handlers :
          g # h /\ run[g].at \in Ahead /\ run[h].at \in Ahead => run[g].row # run[h].row

(* A run that is still ahead of the welcome has just created its row or    *)
(* was ahead of it before, with the same row and conversation.             *)
LEMMA StaysAhead ==
  ASSUME InboundTypeOK, NEW h \in Handlers, RunStep(h) \/ RunThrows(h) \/ RunSwallows(h),
         run'[h].at \in Ahead
  PROVE  \/ Record(h)
         \/ /\ run[h].at \in Ahead \ {"defaults"}
            /\ run'[h].row = run[h].row /\ run'[h].conv = run[h].conv
<1>1. run \in [Handlers -> Runs] /\ run[h] \in RunType
  BY Course, RunFacts DEF InboundTypeOK
<1>2. run'[h] # NoRun
  BY DEF NoRun, Ahead
<1>3. \A b : Goto(h, b) =>
         run'[h].at = b /\ run'[h].row = run[h].row /\ run'[h].conv = run[h].conv
  BY <1>1 DEF Goto, RunType
<1>5. ~Finish(h)
  BY <1>1, <1>2 DEF Finish
<1>6. ~(RunThrows(h) \/ RunSwallows(h))
  BY <1>3, <1>5 DEF RunThrows, Throws, RunSwallows, AfterSwallowed, Ahead
<1>7. ~(\/ Requeue(h) \/ Revoke(h) \/ OptOut(h) \/ EndRun(h) \/ RunDefaults(h) \/ Rotate(h)
        \/ FlowSend(h) \/ FlowSave(h) \/ AutoReply(h))
  BY <1>3, <1>5 DEF Requeue, Revoke, OptOut, EndRun, RunDefaults, Rotate, FlowSend, FlowSave,
                    AutoReply, Ahead
<1>9. ~Lookup(h)
  BY <1>1, <1>3, <1>5 DEF Lookup, RunType, Ahead
<1>10. ~FindConversation(h)
  <2>1. ASSUME NEW c \in DOMAIN convs,
               run' = [run EXCEPT ![h].at = "record", ![h].conv = c, ![h].seen = convs[c].assigned]
        PROVE  run'[h].at = "record"
    BY <1>1, <2>1 DEF RunType
  <2>2. ~Goto(h, "makeConv") /\ run'[h].at # "record"
    BY <1>3 DEF Ahead
  <2> QED
    BY <2>1, <2>2 DEF FindConversation
<1>12. ~MakeConversation(h)
  BY <1>1 DEF MakeConversation, RunType, Ahead
<1>11. ~(EnterFlow(h) \/ StartSession(h))
  BY <1>1, <1>3, <1>5 DEF EnterFlow, StartSession, RunType, Ahead
<1>8. CASE EnqueueMedia(h) \/ Grant(h) \/ OptIn(h)
  BY <1>3, <1>8 DEF EnqueueMedia, Grant, OptIn, At, Ahead
<1> QED
  BY <1>6, <1>7, <1>8, <1>9, <1>10, <1>11, <1>12 DEF RunStep

(* Only the step of the welcome sends one.                                 *)
LEMMA NoOtherWelcome ==
  ASSUME InboundTypeOK, [InboundNext]_inboundVars,
         \A h \in Handlers : ~(RunDefaults(h) /\ FirstInbound(h))
  PROVE  /\ DOMAIN convs \subseteq DOMAIN convs'
         /\ \A c \in DOMAIN convs' :
               IF c \in DOMAIN convs THEN convs'[c].welcomes = convs[c].welcomes
                                    ELSE convs'[c].welcomes = 0
<1>0. convs \in Seq(ConvType) /\ \A c \in DOMAIN convs : convs[c] \in ConvType
  BY TableFacts
<1>1. CASE convs' = convs
  BY <1>1
<1>2. ASSUME NEW h \in Handlers, MakeConversation(h)
      PROVE  /\ DOMAIN convs \subseteq DOMAIN convs'
             /\ \A c \in DOMAIN convs' :
                   IF c \in DOMAIN convs THEN convs'[c].welcomes = convs[c].welcomes
                                        ELSE convs'[c].welcomes = 0
  <2>1. NewConversation \in ConvType
    BY DEF NewConversation, ConvType, Assignees
  <2>2. convs' = Append(convs, NewConversation)
    BY <1>2 DEF MakeConversation
  <2> HIDE DEF ConvType
  <2>3. /\ convs' \in Seq(ConvType) /\ Len(convs') = Len(convs) + 1
        /\ \A c \in 1..Len(convs) : convs'[c] = convs[c]
        /\ convs'[Len(convs) + 1] = NewConversation
    BY <1>0, <2>1, <2>2, AppendProperties
  <2>4. DOMAIN convs = 1..Len(convs) /\ DOMAIN convs' = 1..(Len(convs) + 1) /\ Len(convs) \in Nat
    BY <1>0, <2>3, LenProperties
  <2>5. NewConversation.welcomes = 0
    BY DEF NewConversation
  <2> QED
    BY <2>3, <2>4, <2>5
<1> DEFINE Same == /\ DOMAIN convs' = DOMAIN convs
                   /\ \A c \in DOMAIN convs : convs'[c].welcomes = convs[c].welcomes
<1>3. ASSUME NEW c, NEW a, convs' = [convs EXCEPT ![c].assigned = a] PROVE Same
  BY <1>0, <1>3 DEF ConvType
<1>4. ASSUME NEW c, NEW t, convs' = [convs EXCEPT ![c].session = t] PROVE Same
  BY <1>0, <1>4 DEF ConvType
<1>5. ASSUME NEW c, convs' = [convs EXCEPT ![c].welcomes = @] PROVE Same
  BY <1>0, <1>5 DEF ConvType
<1> HIDE DEF Same
<1>6. ASSUME NEW h \in Handlers, RunStep(h) \/ RunThrows(h) \/ RunSwallows(h)
      PROVE  convs' = convs \/ Same \/ MakeConversation(h)
  <2>1. CASE RunDefaults(h)
    BY <1>5, <2>1 DEF RunDefaults
  <2>2. CASE Rotate(h)
    BY <1>3, <2>2 DEF Rotate
  <2>3. CASE StartSession(h)
    BY <1>4, <2>3 DEF StartSession
  <2>4. CASE FlowSave(h)
    BY <1>4, <2>4 DEF FlowSave
  <2> QED
    BY <1>6, <2>1, <2>2, <2>3, <2>4
       DEF RunStep, RunThrows, RunSwallows, Lookup, Requeue, Revoke, OptOut, FindConversation, Record,
           EnqueueMedia, EndRun, Grant, OptIn, EnterFlow, FlowSend, AutoReply, tables
<1>7. ASSUME NEW c \in DOMAIN convs, AssignByHand(c) PROVE Same
  BY <1>3, <1>7 DEF AssignByHand
<1>8. ASSUME \/ IngressNext \/ ProcessCrashes \/ (\E h \in Handlers, m \in Messages : Deliver(h, m))
             \/ (\E r \in DOMAIN rows : LinkMedia(r)) \/ UNCHANGED inboundVars
      PROVE  convs' = convs
  BY <1>8 DEF IngressNext, Receive, ClaimAnswerLost, Publish, HookPublishFails, Release, ReleaseFails, GoesStale,
              ProcessCrashes, Deliver, LinkMedia, inboundVars, tables
<1>9. convs' = convs \/ Same \/ \E h \in Handlers : MakeConversation(h)
  BY <1>6, <1>7, <1>8 DEF InboundNext
<1> QED
  BY <1>1, <1>2, <1>9 DEF Same

LEMMA WelcomedStep ==
  ASSUME Placed, Welcomed, [InboundNext]_inboundVars
  PROVE  Welcomed'
<1>0. InboundTypeOK /\ \A c \in DOMAIN convs : convs[c].welcomes \in Nat
  BY TableFacts DEF Placed, ConvType
<1>1. ASSUME NEW h \in Handlers, RunDefaults(h), FirstInbound(h) PROVE Welcomed'
  <2> DEFINE c == run[h].conv
  <2>1. /\ c \in DOMAIN convs /\ run[h].row \in DOMAIN rows /\ rows[run[h].row].conv = c
        /\ run[h].at \in Ahead
    BY <1>1 DEF RunDefaults, At, Placed, PlacedRun, AfterRowSteps, Ahead
  <2>2. convs[c].welcomes # 1
    BY <1>1, <2>1 DEF Welcomed, FirstInbound
  <2>3. convs[c].welcomes = 0
    BY <1>0, <2>1, <2>2 DEF Welcomed, WelcomeOnce
  <2>4. convs' = [convs EXCEPT ![c].welcomes = @ + 1] /\ UNCHANGED rows
    BY <1>1 DEF RunDefaults
  <2>5. /\ DOMAIN convs' = DOMAIN convs
        /\ \A d \in DOMAIN convs : convs'[d].welcomes = IF d = c THEN 1 ELSE convs[d].welcomes
    BY <1>0, <2>1, <2>3, <2>4, TableFacts DEF ConvType
  <2>6. /\ \A g \in Handlers \ {h} : run'[g] = run[g]
        /\ run'[h].at \in {"rotate", "flow"}
    <3>1. run \in [Handlers -> Runs] /\ run[h] \in RunType
      BY <1>0, <2>1, RunFacts DEF InboundTypeOK, Ahead
    <3> QED
      BY <1>1, <3>1 DEF RunDefaults, Goto, RunType
  <2>7. ASSUME NEW g \in Handlers, run'[g].at \in Ahead, convs'[run'[g].conv].welcomes = 1
        PROVE  \E r \in DOMAIN rows : rows[r].conv = run'[g].conv /\ r # run'[g].row
    <3>1. g # h /\ run'[g] = run[g] /\ run[g].conv \in DOMAIN convs
      BY <2>6, <2>7 DEF Placed, PlacedRun, Ahead, AfterRowSteps
    <3>2. CASE run[g].conv = c
      BY <2>1, <2>7, <3>1, <3>2 DEF Welcomed
    <3>3. CASE run[g].conv # c
      BY <2>5, <2>7, <3>1, <3>3 DEF Welcomed
    <3> QED
      BY <3>2, <3>3
  <2>8. \A f, g \in Handlers :
           f # g /\ run'[f].at \in Ahead /\ run'[g].at \in Ahead => run'[f].row # run'[g].row
    BY <2>6 DEF Welcomed, Ahead
  <2>9. /\ \A d \in DOMAIN convs' : convs'[d].welcomes <= 1
        /\ \A d \in DOMAIN convs' :
              convs'[d].welcomes = 1 => \E r \in DOMAIN rows : rows[r].conv = d
    BY <2>1, <2>5 DEF Welcomed, WelcomeOnce
  <2> HIDE DEF c
  <2> QED
    BY <2>4, <2>7, <2>8, <2>9 DEF Welcomed, WelcomeOnce
<1>2. ASSUME \A h \in Handlers : ~(RunDefaults(h) /\ FirstInbound(h)) PROVE Welcomed'
  <2>1. /\ DOMAIN convs \subseteq DOMAIN convs'
        /\ \A c \in DOMAIN convs' :
              IF c \in DOMAIN convs THEN convs'[c].welcomes = convs[c].welcomes
                                   ELSE convs'[c].welcomes = 0
    BY <1>0, <1>2, NoOtherWelcome
  <2>2. /\ DOMAIN rows \subseteq DOMAIN rows'
        /\ \A r \in DOMAIN rows : rows'[r] = rows[r]
    <3>1. \/ rows' = rows
          \/ \E h \in Handlers : Record(h)
      BY <1>0, Course, Elsewhere
    <3> QED
      BY <1>0, <3>1, RowAdded
  <2>3. WelcomeOnce'
    BY <2>1 DEF Welcomed, WelcomeOnce
  <2>4. ASSUME NEW c \in DOMAIN convs', convs'[c].welcomes = 1
        PROVE  c \in DOMAIN convs /\ \E r \in DOMAIN rows : rows[r].conv = c
    BY <2>1, <2>4 DEF Welcomed
  <2>5. ASSUME NEW h \in Handlers, RunStep(h) \/ RunThrows(h) \/ RunSwallows(h) PROVE Welcomed'
    <3>1. \A g \in Handlers \ {h} : run'[g] = run[g]
      BY <1>0, <2>5, Course
    <3>2. \A g \in Handlers : run[g].at \in Ahead => run[g].row \in DOMAIN rows /\ run[g].conv \in DOMAIN convs
      BY DEF Placed, PlacedRun, Ahead, AfterRowSteps
    <3>3. ASSUME run'[h].at \in Ahead
          PROVE  /\ convs'[run'[h].conv].welcomes = 1 =>
                       \E r \in DOMAIN rows' : rows'[r].conv = run'[h].conv /\ r # run'[h].row
                 /\ \A g \in Handlers \ {h} : run[g].at \in Ahead => run[g].row # run'[h].row
      <4>1. CASE Record(h)
        <5>1. /\ run'[h].row = Len(rows) + 1 /\ run'[h].conv = run[h].conv /\ run[h].at = "record"
              /\ \A r \in DOMAIN rows : r # Len(rows) + 1
          BY <1>0, <4>1, RowAdded
        <5>2. run[h].conv \in DOMAIN convs
          BY <5>1 DEF Placed, PlacedRun
        <5> QED
          BY <2>1, <2>2, <2>4, <3>2, <5>1, <5>2
      <4>2. CASE /\ run[h].at \in Ahead
                 /\ run'[h].row = run[h].row /\ run'[h].conv = run[h].conv
        BY <2>1, <2>2, <3>2, <4>2 DEF Welcomed
      <4> QED
        BY <1>0, <2>5, <3>3, <4>1, <4>2, StaysAhead
    <3>4. ASSUME NEW g \in Handlers \ {h}, run[g].at \in Ahead, convs'[run[g].conv].welcomes = 1
          PROVE  \E r \in DOMAIN rows' : rows'[r].conv = run[g].conv /\ r # run[g].row
      BY <2>1, <2>2, <3>2, <3>4 DEF Welcomed
    <3> QED
      BY <2>1, <2>2, <2>3, <2>4, <3>1, <3>3, <3>4 DEF Welcomed
  <2>6. ASSUME \A h \in Handlers : ~(RunStep(h) \/ RunThrows(h) \/ RunSwallows(h)) PROVE Welcomed'
    <3>1. \A h \in Handlers : run'[h].at \in Ahead => run'[h] = run[h]
      <4>1. \/ run' = run
            \/ \A h \in Handlers : run'[h] = NoRun
            \/ \E h \in Handlers, m \in Messages : Deliver(h, m)
        BY <1>0, <2>6, Elsewhere
      <4> QED
        BY <1>0, <4>1, Delivered DEF NoRun, Ahead
    <3>2. \A h \in Handlers : run[h].at \in Ahead => run[h].conv \in DOMAIN convs
      BY DEF Placed, PlacedRun, Ahead, AfterRowSteps
    <3> QED
      BY <2>1, <2>2, <2>3, <2>4, <3>1, <3>2 DEF Welcomed
  <2> QED
    BY <2>5, <2>6
<1> QED
  BY <1>1, <1>2

(* However the runs of two first messages interleave, the contact is       *)
(* welcomed once per conversation.                                         *)
THEOREM WelcomedAtMostOnce == InboundSpec => []WelcomeOnce
<1>1. InboundInit => Placed /\ Welcomed
  BY PlacedInitially DEF InboundInit, Welcomed, WelcomeOnce, Ahead, NoRun
<1>2. Placed /\ Welcomed /\ [InboundNext]_inboundVars => Placed' /\ Welcomed'
  BY PlacedStep, WelcomedStep
<1>3. Welcomed => WelcomeOnce
  BY DEF Welcomed
<1> QED
  BY <1>1, <1>2, <1>3, PTL DEF InboundSpec

-----------------------------------------------------------------------------
(***************************************************************************)
(* The answers of the bot. A run behind its row that has not answered: all *)
(* of its steps but the one after the flow's answer.                       *)
(***************************************************************************)
Unanswered == AfterRowSteps \ {"flowSave"}

(***************************************************************************)
(* The runs of a message that may still answer it, and its rows.           *)
(***************************************************************************)
Unheard(m) == {h \in Handlers : run[h].at \in Unanswered /\ run[h].msg = m}
RowsOf(m) == {r \in DOMAIN rows : rows[r].msg = m}

(***************************************************************************)
(* Each row was recorded by one run, and each run answers once; a run      *)
(* whose flow failed after its answer may answer again, and is counted as  *)
(* a fault. So answers given and answers still possible never exceed rows  *)
(* and faults.                                                             *)
(***************************************************************************)
AnswersCounted ==
    \A m \in Messages :
        answers[m] + Cardinality(Unheard(m)) <= Cardinality(RowsOf(m)) + flowFaults[m]

(* Sets of handlers are finite; what one more or one fewer does to their   *)
(* number.                                                                 *)
LEMMA HandlersCounted ==
  ASSUME NEW S \in SUBSET Handlers, NEW T \in SUBSET Handlers, NEW h \in Handlers
  PROVE  /\ IsFiniteSet(S) /\ Cardinality(S) \in Nat /\ Cardinality(T) \in Nat
         /\ S \subseteq T => Cardinality(S) <= Cardinality(T)
         /\ S \subseteq T \cup {h} => Cardinality(S) <= Cardinality(T) + 1
         /\ h \in T /\ S \subseteq T \ {h} => Cardinality(S) <= Cardinality(T) - 1
<1>1. IsFiniteSet(Handlers)
  BY InboundAssumption, FS_Interval DEF Handlers
<1>2. IsFiniteSet(S) /\ IsFiniteSet(T)
  BY <1>1, FS_Subset
<1>3. Cardinality(S) \in Nat /\ Cardinality(T) \in Nat
  BY <1>2, FS_CardinalityType
<1>4. S \subseteq T => Cardinality(S) <= Cardinality(T)
  BY <1>2, FS_Subset
<1>5. ASSUME S \subseteq T \cup {h} PROVE Cardinality(S) <= Cardinality(T) + 1
  <2>1. /\ IsFiniteSet(T \cup {h})
        /\ Cardinality(T \cup {h}) = IF h \in T THEN Cardinality(T) ELSE Cardinality(T) + 1
    BY <1>2, FS_AddElement
  <2>2. Cardinality(S) <= Cardinality(T \cup {h}) /\ Cardinality(T \cup {h}) \in Nat
    BY <1>5, <2>1, FS_Subset, FS_CardinalityType
  <2> QED
    BY ONLY <1>3, <2>1, <2>2
<1>6. ASSUME h \in T, S \subseteq T \ {h} PROVE Cardinality(S) <= Cardinality(T) - 1
  <2>1. IsFiniteSet(T \ {h}) /\ Cardinality(T \ {h}) = Cardinality(T) - 1
    BY <1>2, <1>6, FS_RemoveElement
  <2> QED
    BY <1>6, <2>1, FS_Subset
<1> QED
  BY <1>2, <1>3, <1>4, <1>5, <1>6

(* The rows of a message are finitely many.                                *)
LEMMA RowsCounted ==
  ASSUME InboundTypeOK, NEW m \in Messages
  PROVE  IsFiniteSet(RowsOf(m)) /\ Cardinality(RowsOf(m)) \in Nat
<1>1. IsFiniteSet(DOMAIN rows)
  BY TableFacts, FS_Interval
<1>2. RowsOf(m) \in SUBSET DOMAIN rows
  BY DEF RowsOf
<1> QED
  BY <1>1, <1>2, FS_Subset, FS_CardinalityType

(* Recording a message adds one row to those it has.                       *)
LEMMA RowOfRecord ==
  ASSUME InboundTypeOK, NEW h \in Handlers, Record(h), NEW m \in Messages
  PROVE  /\ m # run[h].msg => RowsOf(m)' = RowsOf(m)
         /\ m = run[h].msg => Cardinality(RowsOf(m)') = Cardinality(RowsOf(m)) + 1
<1> DEFINE new == Len(rows) + 1
<1>1. /\ DOMAIN rows' = DOMAIN rows \cup {new}
      /\ \A r \in DOMAIN rows : rows'[r] = rows[r] /\ r # new
      /\ rows'[new] = [msg |-> run[h].msg, conv |-> run[h].conv]
  BY RowAdded
<1> HIDE DEF new
<1>2. rows'[new].msg = run[h].msg
  BY <1>1
<1>3. ASSUME m # run[h].msg PROVE RowsOf(m)' = RowsOf(m)
  BY <1>1, <1>2, <1>3 DEF RowsOf
<1>4. ASSUME m = run[h].msg PROVE Cardinality(RowsOf(m)') = Cardinality(RowsOf(m)) + 1
  <2>1. RowsOf(m)' = RowsOf(m) \cup {new} /\ new \notin RowsOf(m)
    BY <1>1, <1>2, <1>4 DEF RowsOf
  <2> QED
    BY <2>1, RowsCounted, FS_AddElement
<1> QED
  BY <1>3, <1>4

AnswersStand == UNCHANGED <<answers, flowFaults>>

(* A handler's step leaves the answers alone, or is the step that records  *)
(* the row, or gives an answer and leaves the unanswered, or fails behind  *)
(* an answer.                                                              *)
LEMMA Answering ==
  ASSUME InboundTypeOK, NEW h \in Handlers, RunStep(h) \/ RunThrows(h) \/ RunSwallows(h)
  PROVE  \/ /\ AnswersStand /\ ~Record(h)
            /\ run'[h].at \in Unanswered => run[h].at \in Unanswered
         \/ AnswersStand /\ Record(h)
         \/ /\ answers' = [answers EXCEPT ![run[h].msg] = @ + 1]
            /\ flowFaults' = flowFaults /\ ~Record(h)
            /\ run[h].at \in Unanswered /\ run'[h].at \notin Unanswered
         \/ /\ flowFaults' = [flowFaults EXCEPT ![run[h].msg] = @ + 1]
            /\ answers' = answers /\ ~Record(h)
<1>0. run \in [Handlers -> Runs] /\ run[h] \in RunType
  BY Course, RunFacts DEF InboundTypeOK
<1>1. Finish(h) => run'[h].at \notin Unanswered
  BY <1>0 DEF Finish, NoRun, Unanswered, AfterRowSteps
<1>2. \A b : Goto(h, b) => run'[h].at = b
  BY <1>0 DEF Goto, RunType
<1>3. run'[h].at \in Unanswered => run[h].at \in AfterRowSteps \cup {"record"}
  <2>1. run'[h] = NoRun => run'[h].at \notin Unanswered
    BY DEF NoRun, Unanswered, AfterRowSteps
  <2> QED
    BY <2>1, Course DEF Follows, Unanswered
<1>4. CASE FlowSend(h)
  BY <1>2, <1>4 DEF FlowSend, Record, At, Msg, Unanswered, AfterRowSteps
<1>5. CASE AutoReply(h)
  <2>1. PICK matched \in BOOLEAN :
           answers' = [answers EXCEPT ![run[h].msg] = IF matched THEN @ + 1 ELSE @]
    BY <1>5 DEF AutoReply, Msg
  <2>2. run[h].at = "autoReply" /\ flowFaults' = flowFaults /\ ~Record(h)
    BY <1>5 DEF AutoReply, At, Record
  <2>3. run'[h].at \notin Unanswered /\ run[h].at \in Unanswered
    BY <1>1, <1>5, <2>2 DEF AutoReply, Unanswered, AfterRowSteps
  <2>4. CASE matched
    BY <2>1, <2>2, <2>3, <2>4
  <2>5. CASE ~matched
    <3>1. answers' = answers
      BY <2>1, <2>5 DEF InboundTypeOK
    <3> QED
      BY <3>1, <2>2, <2>3 DEF AnswersStand
  <2> QED
    BY <2>4, <2>5
<1>6. CASE RunSwallows(h)
  <2>1. run[h].at \in DOMAIN AfterSwallowed /\ answers' = answers /\ ~Record(h)
        /\ run'[h].at = AfterSwallowed[run[h].at]
    BY <1>2, <1>6 DEF RunSwallows, Record, At, AfterSwallowed
  <2>2. CASE run[h].at \in {"flowSend", "flowSave"}
    BY <1>6, <2>1, <2>2 DEF RunSwallows, Msg
  <2>3. CASE run[h].at \notin {"flowSend", "flowSave"}
    <3>1. flowFaults' = flowFaults
      BY <1>6, <2>3 DEF RunSwallows, Msg, InboundTypeOK
    <3>2. run[h].at \in Unanswered
      BY <2>1, <2>3 DEF AfterSwallowed, Unanswered, AfterRowSteps
    <3> QED
      BY <3>1, <3>2, <2>1 DEF AnswersStand
  <2> QED
    BY <2>2, <2>3
<1>7. CASE RunThrows(h) \/ FlowSave(h)
  BY <1>1, <1>7 DEF RunThrows, Throws, FlowSave, Record, At, AnswersStand, inboundHistory, tables
<1>8. CASE Record(h)
  BY <1>8 DEF Record, AnswersStand, inboundHistory
<1>9. CASE RunStep(h) /\ ~FlowSend(h) /\ ~AutoReply(h) /\ ~FlowSave(h) /\ ~Record(h)
  <2>1. AnswersStand
    BY <1>9 DEF RunStep, AnswersStand, inboundHistory, Lookup, Requeue, Revoke, OptOut, FindConversation,
         MakeConversation, EnqueueMedia, EndRun, Grant, OptIn, RunDefaults, Rotate, EnterFlow,
         StartSession
  <2>2. run[h].at \notin {"record", "flowSave"}
    BY <1>9 DEF RunStep, Lookup, Requeue, Revoke, OptOut, FindConversation,
         MakeConversation, EnqueueMedia, EndRun, Grant, OptIn, RunDefaults, Rotate, EnterFlow,
         StartSession, At
  <2> QED
    BY <1>3, <1>9, <2>1, <2>2 DEF Unanswered
<1> QED
  BY <1>4, <1>5, <1>6, <1>7, <1>8, <1>9

(* The four kinds of step, for the handler's own message and for the       *)
(* others.                                                                 *)
LEMMA AnswersInRuns ==
  ASSUME InboundTypeOK, AnswersCounted, NEW h \in Handlers,
         RunStep(h) \/ RunThrows(h) \/ RunSwallows(h)
  PROVE  AnswersCounted'
<1> SUFFICES ASSUME NEW m \in Messages
             PROVE  answers'[m] + Cardinality(Unheard(m)') <= Cardinality(RowsOf(m)') + flowFaults'[m]
  BY DEF AnswersCounted
<1> DEFINE heard == Cardinality(Unheard(m))
           heardNext == Cardinality(Unheard(m)')
           known == Cardinality(RowsOf(m))
           knownNext == Cardinality(RowsOf(m)')
<1>1. /\ Unheard(m) \in SUBSET Handlers /\ Unheard(m)' \in SUBSET Handlers
  BY DEF Unheard
<1>2. heard \in Nat /\ heardNext \in Nat
  BY <1>1, HandlersCounted
<1>3. known \in Nat
  BY RowsCounted
<1>4. answers[m] \in Nat /\ flowFaults[m] \in Nat /\ answers \in [Messages -> Nat]
      /\ flowFaults \in [Messages -> Nat]
  BY DEF InboundTypeOK
<1>5. answers[m] + heard <= known + flowFaults[m]
  BY DEF AnswersCounted
<1>6. ~Record(h) => knownNext = known
  <2>1. ~Record(h) => rows' = rows
    BY Course
  <2> QED
    BY <2>1 DEF RowsOf
<1>7. Unheard(m)' \subseteq Unheard(m) \cup {h}
  BY Course DEF Unheard
<1>8. run'[h].at \notin Unanswered => Unheard(m)' \subseteq Unheard(m) \ {h}
  BY Course DEF Unheard
<1>9. run[h].msg # m \/ (run'[h].at \in Unanswered => run[h].at \in Unanswered)
      => Unheard(m)' \subseteq Unheard(m)
  <2>1. run'[h].at \in Unanswered => run'[h].msg = run[h].msg
    BY Course DEF NoRun, Unanswered, AfterRowSteps
  <2> QED
    BY <2>1, Course DEF Unheard
<1>10. heardNext <= heard + 1
  BY <1>1, <1>7, HandlersCounted
<1>11. Unheard(m)' \subseteq Unheard(m) => heardNext <= heard
  BY <1>1, HandlersCounted
<1>12. CASE /\ AnswersStand /\ ~Record(h)
            /\ run'[h].at \in Unanswered => run[h].at \in Unanswered
  <2>1. heardNext <= heard /\ knownNext = known /\ answers'[m] = answers[m]
        /\ flowFaults'[m] = flowFaults[m]
    BY <1>6, <1>9, <1>11, <1>12 DEF AnswersStand
  <2> QED
    BY ONLY <1>2, <1>3, <1>4, <1>5, <2>1
<1>13. CASE AnswersStand /\ Record(h)
  <2>1. answers'[m] = answers[m] /\ flowFaults'[m] = flowFaults[m]
    BY <1>13 DEF AnswersStand
  <2>2. CASE m = run[h].msg
    <3>1. knownNext = known + 1
      BY <1>13, <2>2, RowOfRecord
    <3> QED
      BY ONLY <1>2, <1>3, <1>4, <1>5, <1>10, <2>1, <3>1
  <2>3. CASE m # run[h].msg
    <3>1. knownNext = known /\ heardNext <= heard
      BY <1>9, <1>11, <1>13, <2>3, RowOfRecord
    <3> QED
      BY ONLY <1>2, <1>3, <1>4, <1>5, <2>1, <3>1
  <2> QED
    BY <2>2, <2>3
<1>14. CASE /\ answers' = [answers EXCEPT ![run[h].msg] = @ + 1]
            /\ flowFaults' = flowFaults /\ ~Record(h)
            /\ run[h].at \in Unanswered /\ run'[h].at \notin Unanswered
  <2>1. knownNext = known /\ flowFaults'[m] = flowFaults[m]
    BY <1>6, <1>14
  <2>2. CASE m = run[h].msg
    <3>1. answers'[m] = answers[m] + 1
      BY <1>4, <1>14, <2>2
    <3>2. h \in Unheard(m)
      BY <1>14, <2>2 DEF Unheard
    <3>3. heardNext <= heard - 1
      BY <1>1, <1>8, <1>14, <3>2, HandlersCounted
    <3> QED
      BY ONLY <1>2, <1>3, <1>4, <1>5, <2>1, <3>1, <3>3
  <2>3. CASE m # run[h].msg
    <3>1. answers'[m] = answers[m] /\ heardNext <= heard
      BY <1>4, <1>9, <1>11, <1>14, <2>3
    <3> QED
      BY ONLY <1>2, <1>3, <1>4, <1>5, <2>1, <3>1
  <2> QED
    BY <2>2, <2>3
<1>15. CASE /\ flowFaults' = [flowFaults EXCEPT ![run[h].msg] = @ + 1]
            /\ answers' = answers /\ ~Record(h)
  <2>1. knownNext = known /\ answers'[m] = answers[m]
    BY <1>6, <1>15
  <2>2. CASE m = run[h].msg
    <3>1. flowFaults'[m] = flowFaults[m] + 1
      BY <1>4, <1>15, <2>2
    <3> QED
      BY ONLY <1>2, <1>3, <1>4, <1>5, <1>10, <2>1, <3>1
  <2>3. CASE m # run[h].msg
    <3>1. flowFaults'[m] = flowFaults[m] /\ heardNext <= heard
      BY <1>4, <1>9, <1>11, <1>15, <2>3
    <3> QED
      BY ONLY <1>2, <1>3, <1>4, <1>5, <2>1, <3>1
  <2> QED
    BY <2>2, <2>3
<1> QED
  BY <1>12, <1>13, <1>14, <1>15, Answering

(* All other steps answer nothing and let no run answer.                   *)
LEMMA AnswersElsewhere ==
  ASSUME InboundTypeOK, AnswersCounted, [InboundNext]_inboundVars,
         \A h \in Handlers : ~(RunStep(h) \/ RunThrows(h) \/ RunSwallows(h))
  PROVE  AnswersCounted'
<1>1. AnswersStand
  BY DEF InboundNext, IngressNext, Receive, ClaimAnswerLost, Publish, HookPublishFails, Release, ReleaseFails, GoesStale,
         ProcessCrashes, Deliver, LinkMedia, AssignByHand, inboundVars, inboundHistory, AnswersStand
<1>2. \A g \in Handlers : run'[g] = run[g] \/ run'[g].at \notin Unanswered
  <2>1. ASSUME NEW h \in Handlers, NEW m \in Messages, Deliver(h, m)
        PROVE  \A g \in Handlers : run'[g] = run[g] \/ run'[g].at \notin Unanswered
    BY <2>1, Delivered DEF Unanswered, AfterRowSteps
  <2>2. NoRun.at \notin Unanswered
    BY DEF NoRun, Unanswered, AfterRowSteps
  <2> QED
    BY <2>1, <2>2, Elsewhere
<1> SUFFICES ASSUME NEW m \in Messages
             PROVE  answers'[m] + Cardinality(Unheard(m)') <= Cardinality(RowsOf(m)') + flowFaults'[m]
  BY DEF AnswersCounted
<1>3. Unheard(m)' \subseteq Unheard(m) /\ Unheard(m) \subseteq Handlers
  BY <1>2 DEF Unheard
<1>4. /\ Cardinality(Unheard(m)') <= Cardinality(Unheard(m))
      /\ Cardinality(Unheard(m)') \in Nat /\ Cardinality(Unheard(m)) \in Nat
  <2>1. IsFiniteSet(Handlers)
    BY InboundAssumption, FS_Interval DEF Handlers
  <2> QED
    BY <1>3, <2>1, FS_Subset, FS_CardinalityType
<1>5. RowsOf(m)' = RowsOf(m) /\ Cardinality(RowsOf(m)) \in Nat
  BY Elsewhere, RowsCounted DEF RowsOf
<1>6. answers'[m] = answers[m] /\ flowFaults'[m] = flowFaults[m] /\ answers[m] \in Nat
      /\ flowFaults[m] \in Nat
  BY <1>1 DEF AnswersStand, InboundTypeOK
<1>7. answers[m] + Cardinality(Unheard(m)) <= Cardinality(RowsOf(m)) + flowFaults[m]
  BY DEF AnswersCounted
<1> QED
  BY <1>4, <1>5, <1>6, <1>7

(* The bot answers a message at most once per recorded row, a flow's       *)
(* swallowed failure aside, for any number of messages, handlers,          *)
(* redeliveries and crashes (handleInbound).                               *)
THEOREM AnswersOnce == InboundSpec => []OneBotAnswer
<1>1. InboundInit => AnswersCounted
  <2> SUFFICES ASSUME InboundInit, NEW m \in Messages
               PROVE  answers[m] + Cardinality(Unheard(m)) <= Cardinality(RowsOf(m)) + flowFaults[m]
    BY DEF AnswersCounted
  <2>1. answers[m] = 0 /\ flowFaults[m] = 0 /\ \A h \in Handlers : run[h].at = "idle"
    BY DEF InboundInit, NoRun
  <2>2. Unheard(m) = {}
    BY <2>1 DEF Unheard, Unanswered, AfterRowSteps
  <2>3. Cardinality(RowsOf(m)) \in Nat
    BY PlacedInitially, RowsCounted DEF Placed
  <2> QED
    BY <2>1, <2>2, <2>3, FS_EmptySet
<1>2. InboundTypeOK /\ AnswersCounted /\ [InboundNext]_inboundVars => AnswersCounted'
  BY AnswersInRuns, AnswersElsewhere
<1>3. InboundTypeOK /\ AnswersCounted => OneBotAnswer
  <2> SUFFICES ASSUME InboundTypeOK, AnswersCounted, NEW m \in Messages
               PROVE  answers[m] <= Cardinality(RowsOf(m)) + flowFaults[m]
    BY DEF OneBotAnswer, RowsOf
  <2>1. Unheard(m) \in SUBSET Handlers
    BY DEF Unheard
  <2>2. Cardinality(Unheard(m)) \in Nat
    <3>1. IsFiniteSet(Handlers)
      BY InboundAssumption, FS_Interval DEF Handlers
    <3> QED
      BY <2>1, <3>1, FS_Subset, FS_CardinalityType
  <2>3. Cardinality(RowsOf(m)) \in Nat /\ answers[m] \in Nat /\ flowFaults[m] \in Nat
    BY RowsCounted DEF InboundTypeOK
  <2> QED
    BY <2>2, <2>3 DEF AnswersCounted
<1> QED
  BY <1>1, <1>2, <1>3, InboundTypesHold, PTL DEF InboundSpec

=============================================================================
