---------------------------- MODULE ManagerProofs ----------------------------
(* Proofs about the submission manager and its watchers for any            *)
(* submissions, watchers and ids of the platform.                          *)
EXTENDS ManagerProperties, TLAPS

(* What may be posted.                                                     *)
LEMMA MailKinds ==
  ASSUME NEW s \in Subs
  PROVE  /\ FluxSubmission(s) \in Mail /\ WatchEnd(s) \in Mail
         /\ InvalidClient(s) \in Mail /\ Unregister(s) \in Mail
         /\ SubmitMail(s) \in Mail /\ Request(s) \in Mail
         /\ \A stat \in Statuses : Result(s, stat) \in Mail
BY DEF Mail, Kinds, FluxSubmission, WatchEnd, InvalidClient, Unregister, SubmitMail,
       Request, Result

LEMMA StatusTypes ==
  /\ NoStatus \in Statuses
  /\ \A id \in {0} \cup CfIds : Status(id, "TESTING") \in Statuses
  /\ \A stat \in Statuses : stat.id \in {0} \cup CfIds /\ stat.verdict \in Verdicts
  /\ \A stat \in Statuses : stat.id # 0 => stat.id \in CfIds
BY DEF Statuses, NoStatus, Status, Verdicts

-----------------------------------------------------------------------------
(* Types: the mails on their own, the rest action by action.               *)
LEMMA MailTypes ==
  ASSUME TypeOK, Next
  PROVE  mails' \subseteq Mail
<1>1. mails \subseteq Mail
  BY DEF TypeOK
<1>2. ASSUME NEW w \in Watchers, pc[w] # "none" PROVE sub[w] \in Subs
  BY <1>2 DEF TypeOK
<1>3. CASE Manage
  BY <1>1, <1>3, MailKinds DEF Manage, Poll, Submit, HandleSubmission, HandleWatchEnd,
       HandleUnregister, BounceToManager, BounceToMaster, HandleInvalidClient,
       DeliverInVain, Handling, Answering
<1>4. ASSUME NEW w \in Watchers, Watch(w) PROVE mails' \subseteq Mail
  <2>1. CASE AbortSubmission(w) \/ RequestMaster(w) \/ Commit(w)
    <3>1. sub[w] \in Subs
      BY <1>2, <2>1 DEF AbortSubmission, RequestMaster, Commit
    <3>2. QED
      BY <1>1, <2>1, <3>1, MailKinds DEF AbortSubmission, RequestMaster, Commit
  <2>2. QED
    BY <1>1, <1>4, <2>1 DEF Watch, ReadSubmission, ReadSubmissionFails, NoProblem,
         ResultFails, InsertCfSubmission, CheckState, Rollback, CheckFailure,
         UpdateToFailure, Handling
<1>5. ASSUME NEW s \in Subs, DropRequest(s) \/ \E stat \in Statuses : Answer(s, stat)
      PROVE  mails' \subseteq Mail
  BY <1>1, <1>5, MailKinds DEF DropRequest, Answer, Handling, Answering
<1>6. CASE FollowVerdicts \/ Restart
  BY <1>1, <1>6 DEF FollowVerdicts, Restart
<1>7. QED
  BY <1>3, <1>4, <1>5, <1>6 DEF Next

RowsTyped == state \in [Subs -> States] /\ cfSubID \in [Subs -> {0} \cup CfIds]

MapsTyped ==
  /\ mailClients \in [Subs -> Watchers \cup {None}]
  /\ watchers \in [Subs -> Watchers \cup {None}]

WatchersTyped ==
  /\ sub \in [Watchers -> Subs \cup {None}]
  /\ pc \in [Watchers -> Stages]
  /\ val \in [Watchers -> Statuses]
  /\ ends \in [Watchers -> {"no", "told", "untold"}]
  /\ \A w \in Watchers : pc[w] # "none" => sub[w] \in Subs

LEMMA RowTypes ==
  ASSUME TypeOK, Next
  PROVE  RowsTyped'
<1>1. RowsTyped
  BY DEF TypeOK, RowsTyped
<1>2. ASSUME NEW s \in Subs, Submit(s) PROVE RowsTyped'
  BY <1>1, <1>2 DEF Submit, Create, RowsTyped, States, nonSinkFluxStates
<1>3. ASSUME NEW w \in Watchers, Commit(w) PROVE RowsTyped'
  <2>1. val[w] \in Statuses
    BY DEF TypeOK
  <2>2. val[w].id \in {0} \cup CfIds /\ val[w].verdict \in States
    BY <2>1, StatusTypes DEF States
  <2>3. QED
    BY <1>1, <1>3, <2>2 DEF Commit, RowsTyped
<1>4. ASSUME NEW w \in Watchers, UpdateToFailure(w) PROVE RowsTyped'
  BY <1>1, <1>4 DEF UpdateToFailure, RowsTyped, States, nonSinkFluxStates
<1>5. CASE FollowVerdicts
  <2>1. PICK S \in SUBSET {s \in Subs : Recorded(s) /\ ~ Sink(state[s])} :
          \E f \in [S -> Verdicts] :
            state' = [s \in Subs |-> IF s \in S THEN f[s] ELSE state[s]]
    BY <1>5 DEF FollowVerdicts, Advance
  <2>2. PICK f \in [S -> Verdicts] :
          state' = [s \in Subs |-> IF s \in S THEN f[s] ELSE state[s]]
    BY <2>1
  <2>3. cfSubID' = cfSubID
    BY <1>5 DEF FollowVerdicts, Advance
  <2>4. \A s \in Subs : (IF s \in S THEN f[s] ELSE state[s]) \in States
    BY <1>1 DEF RowsTyped, States
  <2>5. QED
    BY <1>1, <2>2, <2>3, <2>4 DEF RowsTyped
<1>6. ASSUME UNCHANGED rows PROVE RowsTyped'
  BY <1>1, <1>6 DEF RowsTyped, rows
<1>7. ASSUME NEW w \in Watchers, Watch(w) PROVE RowsTyped'
  BY <1>3, <1>4, <1>6, <1>7 DEF Watch, ReadSubmission, ReadSubmissionFails,
       AbortSubmission, RequestMaster, NoProblem, ResultFails, InsertCfSubmission,
       CheckState, Rollback, CheckFailure
<1>8. CASE Manage
  BY <1>2, <1>6, <1>8 DEF Manage, Poll, HandleSubmission, HandleWatchEnd,
       HandleUnregister, BounceToManager, BounceToMaster, HandleInvalidClient,
       DeliverInVain
<1>9. ASSUME NEW s \in Subs, DropRequest(s) \/ \E stat \in Statuses : Answer(s, stat)
      PROVE  RowsTyped'
  BY <1>6, <1>9 DEF DropRequest, Answer
<1>10. CASE Restart
  BY <1>6, <1>10 DEF Restart
<1>11. QED
  BY <1>5, <1>7, <1>8, <1>9, <1>10 DEF Next

LEMMA MapTypes ==
  ASSUME TypeOK, Next
  PROVE  MapsTyped'
<1>1. MapsTyped
  BY DEF TypeOK, MapsTyped
<1>2. ASSUME NEW s \in Subs, CreateWatcher(s) PROVE MapsTyped'
  BY <1>1, <1>2 DEF CreateWatcher, MapsTyped
<1>3. ASSUME UNCHANGED <<mailClients, watchers>> PROVE MapsTyped'
  BY <1>1, <1>3 DEF MapsTyped
<1>4. ASSUME NEW s \in Subs, HandleSubmission(s) PROVE MapsTyped'
  BY <1>2, <1>3, <1>4 DEF HandleSubmission
<1>5. ASSUME NEW s \in Subs, HandleWatchEnd(s) \/ HandleUnregister(s) \/ HandleInvalidClient(s)
      PROVE  MapsTyped'
  BY <1>1, <1>5 DEF HandleWatchEnd, HandleUnregister, HandleInvalidClient, MapsTyped
<1>6. ASSUME NEW w \in Watchers, Watch(w) PROVE MapsTyped'
  BY <1>3, <1>6 DEF Watch, ReadSubmission, ReadSubmissionFails, AbortSubmission,
       RequestMaster, NoProblem, ResultFails, InsertCfSubmission, CheckState, Commit,
       Rollback, CheckFailure, UpdateToFailure, watcherEnv
<1>7. CASE Manage
  BY <1>3, <1>4, <1>5, <1>7 DEF Manage, Poll, Submit, BounceToManager, BounceToMaster,
       DeliverInVain
<1>8. ASSUME NEW s \in Subs, DropRequest(s) \/ \E stat \in Statuses : Answer(s, stat)
      PROVE  MapsTyped'
  BY <1>3, <1>8 DEF DropRequest, Answer
<1>9. CASE Restart
  BY <1>9 DEF Restart, MapsTyped
<1>10. CASE FollowVerdicts
  BY <1>3, <1>10 DEF FollowVerdicts
<1>11. QED
  BY <1>6, <1>7, <1>8, <1>9, <1>10 DEF Next

LEMMA WatcherTypes ==
  ASSUME TypeOK, Next
  PROVE  WatchersTyped'
<1>1. WatchersTyped
  BY DEF TypeOK, WatchersTyped
<1>2. ASSUME UNCHANGED watcherVars PROVE WatchersTyped'
  BY <1>1, <1>2 DEF WatchersTyped, watcherVars
<1>3. ASSUME NEW s \in Subs, CreateWatcher(s) PROVE WatchersTyped'
  BY <1>1, <1>3, StatusTypes DEF CreateWatcher, WatchersTyped, Stages
<1>4. ASSUME NEW s \in Subs, HandleSubmission(s) PROVE WatchersTyped'
  BY <1>2, <1>3, <1>4 DEF HandleSubmission
<1>5. ASSUME NEW w \in Watchers, pc[w] # "none", NEW label \in Stages, Goto(w, label),
             sub' = sub, val' \in [Watchers -> Statuses],
             ends' \in [Watchers -> {"no", "told", "untold"}]
      PROVE  WatchersTyped'
  BY <1>1, <1>5 DEF WatchersTyped, Goto
<1>6. \A w \in Watchers : [val EXCEPT ![w] = NoStatus] \in [Watchers -> Statuses]
  BY <1>1, StatusTypes DEF WatchersTyped
<1>7. val \in [Watchers -> Statuses] /\ ends \in [Watchers -> {"no", "told", "untold"}]
  BY <1>1 DEF WatchersTyped
<1>8. ASSUME NEW w \in Watchers, Watch(w) PROVE WatchersTyped'
  <2>1. CASE ReadSubmission(w)
    <3>1. sub[w] \in Subs
      BY <1>1, <2>1 DEF WatchersTyped, ReadSubmission
    <3>2. cfSubID[sub[w]] \in {0} \cup CfIds
      BY <3>1 DEF TypeOK
    <3>3. Status(cfSubID[sub[w]], "TESTING") \in Statuses
      BY <3>2, StatusTypes
    <3>4. val' \in [Watchers -> Statuses]
      BY <1>7, <2>1, <3>3 DEF ReadSubmission
    <3>5. QED
      BY <1>5, <1>7, <2>1, <3>4 DEF ReadSubmission, Stages
  <2>2. CASE ReadSubmissionFails(w)
    BY <1>5, <1>7, <2>2 DEF ReadSubmissionFails, Stages
  <2>3. CASE AbortSubmission(w)
    <3>1. ends' \in [Watchers -> {"no", "told", "untold"}]
      BY <1>7, <2>3 DEF AbortSubmission
    <3>2. QED
      BY <1>5, <1>7, <2>3, <3>1 DEF AbortSubmission, Stages
  <2>4. CASE RequestMaster(w) \/ NoProblem(w) \/ ResultFails(w) \/ CheckState(w)
    <3>1. pc[w] # "none" /\ sub' = sub /\ val' = val /\ ends' = ends
      BY <2>4 DEF RequestMaster, NoProblem, ResultFails, CheckState
    <3>2. PICK label \in {"idle", "fail", "checked"} : Goto(w, label)
      BY <2>4 DEF RequestMaster, NoProblem, ResultFails, CheckState
    <3>3. QED
      BY <1>5, <1>7, <3>1, <3>2 DEF Stages
  <2>5. ASSUME NEW stat \in Statuses, InsertCfSubmission(w, stat) PROVE WatchersTyped'
    <3>1. pc[w] = "idle" /\ sub' = sub
      BY <2>5 DEF InsertCfSubmission
    <3>2. CASE Conflict(sub[w], stat.id)
      <4>1. ends' \in [Watchers -> {"no", "told", "untold"}] /\ val' = val /\ Goto(w, "fail")
        BY <1>7, <2>5, <3>2 DEF InsertCfSubmission
      <4>2. QED
        BY <1>5, <1>7, <3>1, <4>1 DEF Stages
    <3>3. CASE ~ Conflict(sub[w], stat.id)
      <4>1. val' \in [Watchers -> Statuses] /\ ends' = ends /\ Goto(w, "inserted")
        BY <1>7, <2>5, <3>3 DEF InsertCfSubmission
      <4>2. QED
        BY <1>5, <1>7, <3>1, <4>1 DEF Stages
    <3>4. QED
      BY <3>2, <3>3
  <2>6. CASE Commit(w)
    <3>1. ends' \in [Watchers -> {"no", "told", "untold"}]
      BY <1>7, <2>6 DEF Commit
    <3>2. QED
      BY <1>5, <1>6, <2>6, <3>1 DEF Commit, Stages
  <2>7. CASE Rollback(w)
    BY <1>5, <1>6, <1>7, <2>7 DEF Rollback, InTransaction, Stages
  <2>8. ASSUME Return(w), pc[w] # "none", sub' = sub, ends' = ends PROVE WatchersTyped'
    <3>1. PICK label \in {"idle", "over"} : Goto(w, label)
      BY <2>8 DEF Return
    <3>2. val' = [val EXCEPT ![w] = NoStatus]
      BY <2>8 DEF Return
    <3>3. QED
      BY <1>5, <1>6, <1>7, <2>8, <3>1, <3>2 DEF Stages
  <2>9. CASE CheckFailure(w)
    <3>1. pc[w] = "fail" /\ sub' = sub /\ ends' = ends
      BY <2>9 DEF CheckFailure
    <3>2. CASE Goto(w, "failing") /\ UNCHANGED val
      BY <1>5, <1>7, <3>1, <3>2 DEF Stages
    <3>3. QED
      BY <2>8, <2>9, <3>1, <3>2 DEF CheckFailure
  <2>10. CASE UpdateToFailure(w)
    BY <2>8, <2>10 DEF UpdateToFailure
  <2>11. QED
    BY <1>8, <2>1, <2>2, <2>3, <2>4, <2>5, <2>6, <2>7, <2>9, <2>10 DEF Watch
<1>9. CASE Manage
  BY <1>2, <1>4, <1>9 DEF Manage, Poll, Submit, HandleWatchEnd, HandleUnregister,
       BounceToManager, BounceToMaster, HandleInvalidClient, DeliverInVain
<1>10. ASSUME NEW s \in Subs, DropRequest(s) \/ \E stat \in Statuses : Answer(s, stat)
       PROVE  WatchersTyped'
  BY <1>2, <1>10 DEF DropRequest, Answer
<1>11. CASE FollowVerdicts
  BY <1>2, <1>11 DEF FollowVerdicts
<1>12. CASE Restart
  BY <1>12, StatusTypes DEF Restart, WatchersTyped, Stages
<1>13. QED
  BY <1>8, <1>9, <1>10, <1>11, <1>12 DEF Next

LEMMA ProgramTypes ==
  ASSUME TypeOK, Next
  PROVE  restarts' \in 0..MaxRestarts /\ down' \in BOOLEAN
<1>1. restarts \in 0..MaxRestarts /\ MaxRestarts \in Nat
  BY ManagerAssumption DEF TypeOK
<1>2. down \in BOOLEAN
  BY DEF TypeOK
<1>3. CASE UNCHANGED program
  BY <1>1, <1>2, <1>3 DEF program
<1>4. CASE Restart
  <2>1. restarts' \in 0..MaxRestarts
    BY <1>1, <1>4 DEF Restart
  <2>2. down' = down
    BY <1>4 DEF Restart
  <2>3. QED
    BY <1>2, <2>1, <2>2
<1>5. ASSUME NEW s \in Subs, DeliverInVain(s)
      PROVE  restarts' \in 0..MaxRestarts /\ down' \in BOOLEAN
  <2>1. restarts' = restarts
    BY <1>5 DEF DeliverInVain
  <2>2. down' \in BOOLEAN
    BY <1>5, Zenon DEF DeliverInVain
  <2>3. QED
    BY <1>1, <2>1, <2>2
<1>6. CASE Manage
  BY <1>3, <1>5, <1>6 DEF Manage, Poll, Submit, HandleSubmission, HandleWatchEnd,
       HandleUnregister, BounceToManager, BounceToMaster, HandleInvalidClient
<1>7. ASSUME NEW w \in Watchers, Watch(w) PROVE UNCHANGED program
  BY <1>7 DEF Watch, ReadSubmission, ReadSubmissionFails, AbortSubmission, RequestMaster,
       NoProblem, ResultFails, InsertCfSubmission, CheckState, Commit, Rollback,
       CheckFailure, UpdateToFailure, watcherEnv
<1>8. ASSUME NEW s \in Subs, DropRequest(s) \/ \E stat \in Statuses : Answer(s, stat)
      PROVE  UNCHANGED program
  BY <1>8 DEF DropRequest, Answer
<1>9. CASE FollowVerdicts
  BY <1>3, <1>9 DEF FollowVerdicts
<1>10. QED
  BY <1>3, <1>4, <1>6, <1>7, <1>8, <1>9 DEF Next

LEMMA TypeStep ==
  ASSUME TypeOK, [Next]_vars
  PROVE  TypeOK'
<1>1. CASE Next
  BY <1>1, MailTypes, RowTypes, MapTypes, WatcherTypes, ProgramTypes
     DEF TypeOK, RowsTyped, MapsTyped, WatchersTyped
<1>2. CASE UNCHANGED vars
  BY <1>2 DEF TypeOK, vars, rows, watcherVars, program
<1>3. QED
  BY <1>1, <1>2

LEMMA InitTypes == Init => TypeOK
<1> SUFFICES ASSUME Init PROVE TypeOK
  OBVIOUS
<1>1. RowsTyped
  BY DEF Init, InitRows, RowsTyped, States
<1>2. MapsTyped /\ mails \subseteq Mail
  BY DEF Init, MapsTyped
<1>3. WatchersTyped
  BY StatusTypes DEF Init, WatchersTyped, Stages
<1>4. restarts \in 0..MaxRestarts
  BY ManagerAssumption DEF Init
<1>5. down \in BOOLEAN
  BY DEF Init
<1>6. QED
  BY <1>1, <1>2, <1>3, <1>4, <1>5 DEF TypeOK, RowsTyped, MapsTyped, WatchersTyped

(* The manager's and the watchers' variables have their types, and states  *)
(* of rows are ones the code knows.                                        *)
THEOREM TypeCorrect == Spec => []TypeOK
<1>1. TypeOK /\ [Next]_vars => TypeOK'
  BY TypeStep
<1>2. QED
  BY InitTypes, <1>1, PTL DEF Spec

-----------------------------------------------------------------------------
(* What most steps leave as it is: a row's phase, and who may end a watch. *)
SameRows ==
  /\ cfSubID' = cfSubID
  /\ \A s \in Subs : /\ state'[s] \in Verdicts <=> state[s] \in Verdicts
                     /\ Pending(s) => Pending(s)'
                     /\ state[s] # "none" => state'[s] # "none"

SameEnds ==
  /\ \A s \in Subs : WatchEnd(s) \in mails' => WatchEnd(s) \in mails
  /\ \A m \in mails' : m \in mails \/ state'[m.sub] # "none"

(* Of the watchers, at most w moves.                                       *)
OnlyMoves(w) ==
  /\ UNCHANGED <<watchers, sub>>
  /\ \A u \in Watchers \ {w} : pc'[u] = pc[u] /\ val'[u] = val[u] /\ ends'[u] = ends[u]

LEMMA SameTables ==
  ASSUME TypeOK, TablesAgree, Created, SameRows, SameEnds, sub' = sub
  PROVE  TablesAgree' /\ Created'
<1>1. TablesAgree'
  BY DEF TablesAgree, SameRows, Recorded
<1>2. ASSUME NEW m \in mails' PROVE state'[m.sub] # "none"
  <2>1. CASE m \in mails
    <3>1. m \in Mail
      BY <2>1 DEF TypeOK
    <3>2. m.sub \in Subs
      BY <3>1 DEF Mail
    <3>3. QED
      BY <2>1, <3>2 DEF Created, SameRows
  <2>2. QED
    BY <2>1 DEF SameEnds
<1>3. ASSUME NEW w \in Watchers, sub[w] # None PROVE state'[sub[w]] # "none"
  <2>1. sub[w] \in Subs
    BY <1>3 DEF TypeOK
  <2>2. QED
    BY <1>3, <2>1 DEF Created, SameRows
<1>4. QED
  BY <1>1, <1>2, <1>3 DEF Created

(* A step of the postman, the manager or a monitor.                        *)
LEMMA Quiet ==
  ASSUME TypeOK, IInv, SameRows, SameEnds, UNCHANGED <<watchers, watcherVars>>
  PROVE  IInv'
<1>1. TablesAgree' /\ Created'
  BY SameTables DEF IInv, watcherVars
<1>2. Registered'
  BY DEF IInv, Registered, Working, watcherVars
<1>3. EndsTold'
  BY DEF IInv, EndsTold, Ending, SameEnds, SameRows, Recorded, watcherVars
<1>4. ASSUME NEW w \in Watchers PROVE StillTrue(w)'
  <2>1. StillTrue(w)
    BY DEF IInv
  <2>2. pc[w] = "failing" => sub[w] \in Subs
    BY DEF TypeOK
  <2>3. \A s \in Subs : Pending(s) => Pending(s)'
    BY DEF SameRows
  <2>4. pc[w] = "failing" => Pending(sub[w])'
    <3>1. ASSUME NEW s \in Subs, s = sub[w], pc[w] = "failing" PROVE Pending(s)'
      BY <2>1, <2>3, <3>1 DEF StillTrue
    <3>2. sub'[w] = sub[w]
      BY DEF watcherVars
    <3>3. QED
      BY <2>2, <3>1, <3>2 DEF Pending
  <2>5. QED
    BY <2>1, <2>4 DEF StillTrue, InTransaction, Conflict, Recorded, Taken, SameRows,
         watcherVars
<1>5. Isolated'
  BY DEF IInv, Isolated, InTransaction, watcherVars
<1>6. QED
  BY <1>1, <1>2, <1>3, <1>4, <1>5 DEF IInv

(* A step of a watcher that does not end its watch.                        *)
LEMMA Walk ==
  ASSUME TypeOK, IInv, SameRows, SameEnds, NEW w \in Watchers, OnlyMoves(w),
         pc[w] # "none", pc'[w] # "none", Working(w)' => Working(w),
         ends'[w] = "told" <=> ends[w] = "told", Ending(w)', StillTrue(w)',
         \A u \in Watchers \ {w} :
           InTransaction(w)' /\ InTransaction(u) => val[u].id # val'[w].id
  PROVE  IInv'
<1>1. TablesAgree' /\ Created'
  BY SameTables DEF IInv, OnlyMoves
<1>2. Registered'
  <2>1. ASSUME NEW u \in Watchers, Working(u)' PROVE watchers[sub[u]] = u
    <3>1. Working(u)
      BY <2>1 DEF Working, OnlyMoves
    <3>2. QED
      BY <3>1 DEF IInv, Registered
  <2>2. ASSUME NEW s \in Subs, watchers[s] # None
        PROVE  pc'[watchers[s]] # "none" /\ sub[watchers[s]] = s
    <3>1. watchers[s] \in Watchers
      BY <2>2 DEF TypeOK
    <3>2. QED
      BY <2>2, <3>1 DEF IInv, Registered, OnlyMoves
  <2>3. QED
    BY <2>1, <2>2 DEF Registered, OnlyMoves
<1>3. EndsTold'
  <2>1. ASSUME NEW s \in Subs, WatchEnd(s) \in mails'
        PROVE  watchers[s] # None /\ ends'[watchers[s]] = "told"
    <3>1. watchers[s] # None /\ ends[watchers[s]] = "told"
      BY <2>1 DEF SameEnds, IInv, EndsTold
    <3>2. watchers[s] \in Watchers
      BY <3>1 DEF TypeOK
    <3>3. QED
      BY <3>1, <3>2 DEF OnlyMoves
  <2>2. ASSUME NEW u \in Watchers PROVE Ending(u)'
    <3>1. CASE u # w
      BY <3>1 DEF IInv, EndsTold, Ending, OnlyMoves, SameRows, Recorded
    <3>2. QED
      BY <3>1
  <2>3. QED
    BY <2>1, <2>2 DEF EndsTold, OnlyMoves
<1>4. ASSUME NEW u \in Watchers PROVE StillTrue(u)'
  <2>1. CASE u # w
    <3>1. StillTrue(u)
      BY DEF IInv
    <3>2. pc'[u] = pc[u] /\ val'[u] = val[u] /\ sub' = sub
      BY <2>1 DEF OnlyMoves
    <3>3. pc[u] = "failing" => Pending(sub[u])'
      <4>1. pc[u] = "failing" => sub[u] \in Subs
        BY DEF TypeOK
      <4>2. \A s \in Subs : Pending(s) => Pending(s)'
        BY DEF SameRows
      <4>3. ASSUME NEW s \in Subs, s = sub[u], pc[u] = "failing" PROVE Pending(s)'
        BY <3>1, <4>2, <4>3 DEF StillTrue
      <4>4. QED
        BY <3>2, <4>1, <4>3 DEF Pending
    <3>4. QED
      BY <3>1, <3>2, <3>3 DEF StillTrue, InTransaction, Conflict, Recorded, Taken, SameRows
  <2>2. QED
    BY <2>1
<1>5. Isolated'
  <2>1. ASSUME NEW u \in Watchers, NEW x \in Watchers, u # x,
               InTransaction(u)', InTransaction(x)'
        PROVE  val'[u].id # val'[x].id
    <3>1. CASE u # w /\ x # w
      BY <2>1, <3>1 DEF IInv, Isolated, InTransaction, OnlyMoves
    <3>2. CASE u = w
      BY <2>1, <3>2 DEF InTransaction, OnlyMoves
    <3>3. CASE x = w
      BY <2>1, <3>3 DEF InTransaction, OnlyMoves
    <3>4. QED
      BY <3>1, <3>2, <3>3
  <2>2. QED
    BY <2>1 DEF Isolated
<1>6. QED
  BY <1>1, <1>2, <1>3, <1>4, <1>5 DEF IInv

LEMMA KeptRows == UNCHANGED rows => SameRows
BY DEF rows, SameRows, Pending

LEMMA AdvancedRows ==
  ASSUME TypeOK, TablesAgree, Advance
  PROVE  SameRows
<1>1. PICK S \in SUBSET {s \in Subs : Recorded(s) /\ ~ Sink(state[s])} :
        \E f \in [S -> Verdicts] :
          state' = [s \in Subs |-> IF s \in S THEN f[s] ELSE state[s]]
  BY DEF Advance
<1>2. PICK f \in [S -> Verdicts] :
        state' = [s \in Subs |-> IF s \in S THEN f[s] ELSE state[s]]
  BY <1>1
<1>3. cfSubID' = cfSubID
  BY DEF Advance
<1>4. ASSUME NEW s \in Subs
      PROVE  /\ state'[s] \in Verdicts <=> state[s] \in Verdicts
             /\ Pending(s) => Pending(s)'
             /\ state[s] # "none" => state'[s] # "none"
  <2>1. CASE s \in S
    <3>1. state'[s] \in Verdicts
      BY <1>2, <2>1
    <3>2. state[s] \in Verdicts
      BY <2>1 DEF TablesAgree
    <3>3. QED
      BY <3>1, <3>2 DEF Pending, Verdicts, nonSinkFluxStates
  <2>2. CASE s \notin S
    BY <1>2, <2>2 DEF Pending
  <2>3. QED
    BY <2>1, <2>2
<1>5. QED
  BY <1>3, <1>4 DEF SameRows

LEMMA FailedRows ==
  ASSUME TypeOK, NEW s \in Subs, Pending(s), cfSubID' = cfSubID,
         state' = [state EXCEPT ![s] = "flux_failed"]
  PROVE  SameRows
BY DEF TypeOK, SameRows, Pending, nonSinkFluxStates, Verdicts

LEMMA CreatedRows ==
  ASSUME TypeOK, NEW s \in Subs, Create(s)
  PROVE  SameRows
BY DEF TypeOK, SameRows, Create, Pending, nonSinkFluxStates, Verdicts

-----------------------------------------------------------------------------
(* The manager's steps.                                                    *)
LEMMA PollKeeps == ASSUME TypeOK, IInv, Poll PROVE IInv'
<1>1. SameRows
  BY KeptRows DEF Poll
<1>2. SameEnds
  <2>1. \A s \in Subs : WatchEnd(s) \in mails' => WatchEnd(s) \in mails
    BY DEF Poll, WatchEnd, FluxSubmission
  <2>2. ASSUME NEW m \in mails', m \notin mails PROVE state'[m.sub] # "none"
    <3>1. PICK s \in Subs : Pending(s) /\ m = FluxSubmission(s)
      BY <2>2 DEF Poll
    <3>2. m.sub = s /\ state' = state
      BY <3>1 DEF FluxSubmission, Poll, rows
    <3>3. QED
      BY <3>1, <3>2 DEF Pending, nonSinkFluxStates
  <2>3. QED
    BY <2>1, <2>2 DEF SameEnds
<1>3. QED
  BY <1>1, <1>2, Quiet DEF Poll

LEMMA SubmitKeeps == ASSUME TypeOK, IInv, NEW s \in Subs, Submit(s) PROVE IInv'
<1>1. SameRows
  BY CreatedRows DEF Submit
<1>2. state'[s] # "none"
  BY DEF Submit, Create, TypeOK
<1>3. SameEnds
  BY <1>2 DEF SameEnds, Submit, WatchEnd, FluxSubmission
<1>4. QED
  BY <1>1, <1>3, Quiet DEF Submit

(* A mail is taken, and another of the same submission may be posted.      *)
LEMMA AnsweredEnds ==
  ASSUME TypeOK, Created, UNCHANGED rows, NEW m \in mails, NEW S, Answering(m, S),
         \A x \in S : x.sub = m.sub /\ x.kind # "watchEnd"
  PROVE  SameEnds
<1>1. state'[m.sub] # "none"
  BY DEF Created, rows
<1>2. QED
  BY <1>1 DEF SameEnds, Answering, WatchEnd

LEMMA HandledEnds ==
  ASSUME NEW m, Handling(m)
  PROVE  SameEnds
BY DEF SameEnds, Handling

LEMMA PostmanKeeps ==
  ASSUME TypeOK, IInv, NEW s \in Subs,
         \/ HandleUnregister(s) \/ BounceToManager(s) \/ BounceToMaster(s)
         \/ HandleInvalidClient(s) \/ DeliverInVain(s) \/ DropRequest(s)
         \/ \E stat \in Statuses : Answer(s, stat)
  PROVE  IInv'
<1>1. UNCHANGED rows /\ UNCHANGED <<watchers, watcherVars>>
  BY DEF HandleUnregister, BounceToManager, BounceToMaster, HandleInvalidClient,
     DeliverInVain, DropRequest, Answer
<1>2. SameRows
  BY <1>1, KeptRows
<1>3. Created
  BY DEF IInv
<1>4. CASE BounceToManager(s)
  <2>1. SubmitMail(s) \in mails /\ Answering(SubmitMail(s), {InvalidClient(s)})
    BY <1>4 DEF BounceToManager, Answering
  <2>2. SubmitMail(s).sub = s /\ InvalidClient(s).sub = s /\ InvalidClient(s).kind # "watchEnd"
    BY DEF SubmitMail, InvalidClient
  <2>3. QED
    BY <1>1, <1>2, <1>3, <2>1, <2>2, AnsweredEnds, Quiet
<1>5. ASSUME NEW stat \in Statuses, Answer(s, stat) PROVE IInv'
  <2>1. Request(s) \in mails /\ Answering(Request(s), {Result(s, stat)})
    BY <1>5 DEF Answer, Answering
  <2>2. Request(s).sub = s /\ Result(s, stat).sub = s /\ Result(s, stat).kind # "watchEnd"
    BY DEF Request, Result
  <2>3. QED
    BY <1>1, <1>2, <1>3, <2>1, <2>2, AnsweredEnds, Quiet
<1>6. CASE \/ HandleUnregister(s) \/ BounceToMaster(s) \/ HandleInvalidClient(s)
           \/ DeliverInVain(s) \/ DropRequest(s)
  <2>1. \E m \in mails : Handling(m)
    BY <1>6 DEF HandleUnregister, BounceToMaster, HandleInvalidClient, DeliverInVain,
       DropRequest, Handling
  <2>2. SameEnds
    BY <2>1, HandledEnds
  <2>3. QED
    BY <1>1, <1>2, <2>2, Quiet
<1>7. QED
  BY <1>4, <1>5, <1>6

LEMMA FollowKeeps == ASSUME TypeOK, IInv, FollowVerdicts PROVE IInv'
<1>1. SameRows
  BY AdvancedRows DEF IInv, FollowVerdicts
<1>2. SameEnds
  BY DEF FollowVerdicts, SameEnds
<1>3. QED
  BY <1>1, <1>2, Quiet DEF FollowVerdicts

(* A watcher is made when there is none, under a name that is free.        *)
LEMMA CreateKeeps ==
  ASSUME TypeOK, IInv, SameRows, SameEnds, val' \in [Watchers -> Statuses],
         NEW s \in Subs, watchers[s] = None, state[s] # "none", CreateWatcher(s)
  PROVE  IInv'
<1>1. PICK w \in Watchers :
        /\ Free(w)
        /\ watchers' = [watchers EXCEPT ![s] = w]
        /\ sub' = [sub EXCEPT ![w] = s]
        /\ pc' = [pc EXCEPT ![w] = IF s \in Malformed THEN "unstarted" ELSE "idle"]
        /\ val' = [val EXCEPT ![w] = NoStatus]
        /\ ends' = [ends EXCEPT ![w] = "no"]
  BY DEF CreateWatcher
<1>2. /\ watchers'[s] = w /\ \A x \in Subs \ {s} : watchers'[x] = watchers[x]
      /\ sub'[w] = s /\ pc'[w] \in {"unstarted", "idle"} /\ ends'[w] = "no"
      /\ \A u \in Watchers \ {w} : /\ sub'[u] = sub[u] /\ pc'[u] = pc[u]
                                   /\ val'[u] = val[u] /\ ends'[u] = ends[u]
  BY <1>1 DEF TypeOK
<1>3. None \notin Watchers
  BY ManagerAssumption
<1>4. \A x \in Subs : watchers[x] # w
  <2>1. ASSUME NEW x \in Subs, watchers[x] = w PROVE FALSE
    <3>1. pc[w] # "none"
      BY <1>3, <2>1 DEF IInv, Registered
    <3>2. QED
      BY <1>1, <2>1, <3>1 DEF Free
  <2>2. QED
    BY <2>1
<1>5. ASSUME NEW u \in Watchers, Working(u) PROVE u # w /\ sub[u] # s
  <2>1. sub[u] \in Subs /\ watchers[sub[u]] = u
    BY <1>5 DEF Working, TypeOK, IInv, Registered
  <2>2. QED
    BY <1>3, <1>4, <2>1
<1>6. \A u \in Watchers \ {w} : Working(u)' <=> Working(u)
  BY <1>2 DEF Working
<1>7. TablesAgree'
  BY DEF IInv, TablesAgree, SameRows, Recorded
<1>8. Created'
  <2>1. ASSUME NEW m \in mails' PROVE state'[m.sub] # "none"
    <3>1. CASE m \in mails
      <4>1. m \in Mail
        BY <3>1 DEF TypeOK
      <4>2. m.sub \in Subs
        BY <4>1 DEF Mail
      <4>3. QED
        BY <3>1, <4>2 DEF IInv, Created, SameRows
    <3>2. QED
      BY <3>1 DEF SameEnds
  <2>2. ASSUME NEW u \in Watchers, sub'[u] # None PROVE state'[sub'[u]] # "none"
    <3>1. CASE u = w
      BY <1>2, <3>1 DEF SameRows
    <3>2. CASE u # w
      <4>1. sub'[u] = sub[u] /\ sub[u] \in Subs
        BY <1>2, <2>2, <3>2 DEF TypeOK
      <4>2. QED
        BY <2>2, <4>1 DEF IInv, Created, SameRows
    <3>3. QED
      BY <3>1, <3>2
  <2>3. QED
    BY <2>1, <2>2 DEF Created
<1>9. Registered'
  <2>1. ASSUME NEW x \in Subs, watchers'[x] # None
        PROVE  pc'[watchers'[x]] # "none" /\ sub'[watchers'[x]] = x
    <3>1. CASE x = s
      BY <1>2, <3>1
    <3>2. CASE x # s
      <4>1. watchers'[x] = watchers[x] /\ watchers[x] \in Watchers \ {w}
        BY <1>2, <1>4, <2>1, <3>2 DEF TypeOK
      <4>2. QED
        BY <1>2, <2>1, <4>1 DEF IInv, Registered
    <3>3. QED
      BY <3>1, <3>2
  <2>2. ASSUME NEW u \in Watchers, Working(u)' PROVE watchers'[sub'[u]] = u
    <3>1. CASE u = w
      BY <1>2, <3>1
    <3>2. CASE u # w
      <4>1. Working(u) /\ sub'[u] = sub[u]
        BY <1>2, <1>6, <2>2, <3>2
      <4>2. sub[u] \in Subs /\ watchers[sub[u]] = u
        BY <4>1 DEF Working, TypeOK, IInv, Registered
      <4>3. QED
        BY <1>2, <1>5, <4>1, <4>2
    <3>3. QED
      BY <3>1, <3>2
  <2>3. QED
    BY <2>1, <2>2 DEF Registered
<1>10. EndsTold'
  <2>1. ASSUME NEW x \in Subs, WatchEnd(x) \in mails'
        PROVE  watchers'[x] # None /\ ends'[watchers'[x]] = "told"
    <3>1. watchers[x] # None /\ ends[watchers[x]] = "told"
      BY <2>1 DEF SameEnds, IInv, EndsTold
    <3>2. x # s /\ watchers'[x] = watchers[x] /\ watchers[x] \in Watchers \ {w}
      BY <1>2, <1>4, <3>1 DEF TypeOK
    <3>3. QED
      BY <1>2, <3>1, <3>2
  <2>2. ASSUME NEW u \in Watchers PROVE Ending(u)'
    <3>1. CASE u = w
      BY <1>2, <3>1 DEF Ending
    <3>2. CASE u # w
      BY <1>2, <3>2 DEF IInv, EndsTold, Ending, SameRows, Recorded
    <3>3. QED
      BY <3>1, <3>2
  <2>3. QED
    BY <2>1, <2>2 DEF EndsTold
<1>11. ASSUME NEW u \in Watchers PROVE StillTrue(u)'
  <2>1. CASE u = w
    BY <1>2, <2>1 DEF StillTrue, InTransaction
  <2>2. CASE u # w
    <3>1. StillTrue(u)
      BY DEF IInv
    <3>2. pc'[u] = pc[u] /\ val'[u] = val[u] /\ sub'[u] = sub[u]
      BY <1>2, <2>2
    <3>3. pc[u] = "failing" => Pending(sub[u])'
      <4>1. pc[u] = "failing" => sub[u] \in Subs
        BY DEF TypeOK
      <4>2. \A x \in Subs : Pending(x) => Pending(x)'
        BY DEF SameRows
      <4>3. ASSUME NEW x \in Subs, x = sub[u], pc[u] = "failing" PROVE Pending(x)'
        BY <3>1, <4>2, <4>3 DEF StillTrue
      <4>4. QED
        BY <3>2, <4>1, <4>3 DEF Pending
    <3>4. QED
      BY <3>1, <3>2, <3>3 DEF StillTrue, InTransaction, Conflict, Recorded, Taken, SameRows
  <2>3. QED
    BY <2>1, <2>2
<1>12. Isolated'
  <2>1. ~ InTransaction(w)'
    BY <1>2 DEF InTransaction
  <2>2. QED
    BY <1>2, <2>1 DEF IInv, Isolated, InTransaction
<1>13. QED
  BY <1>7, <1>8, <1>9, <1>10, <1>11, <1>12 DEF IInv

LEMMA HandleKeeps ==
  ASSUME TypeOK, IInv, TypeOK', NEW s \in Subs, HandleSubmission(s)
  PROVE  IInv'
<1>1. UNCHANGED rows /\ FluxSubmission(s) \in mails
  BY DEF HandleSubmission, Answering
<1>2. SameRows
  BY <1>1, KeptRows
<1>3. Created /\ state[s] # "none"
  BY <1>1 DEF IInv, Created, FluxSubmission
<1>4. SameEnds
  <2>1. FluxSubmission(s).sub = s /\ SubmitMail(s).sub = s /\ SubmitMail(s).kind # "watchEnd"
    BY DEF FluxSubmission, SubmitMail
  <2>2. \E S \in SUBSET {SubmitMail(s)} : Answering(FluxSubmission(s), S)
    BY DEF HandleSubmission
  <2>3. QED
    BY <1>1, <1>3, <2>1, <2>2, AnsweredEnds
<1>5. CASE watchers[s] = None
  <2>1. CreateWatcher(s)
    BY <1>5 DEF HandleSubmission
  <2>2. val' \in [Watchers -> Statuses]
    BY DEF TypeOK
  <2>3. QED
    BY <1>2, <1>3, <1>4, <1>5, <2>1, <2>2, CreateKeeps
<1>6. CASE watchers[s] # None
  BY <1>2, <1>4, <1>6, Quiet DEF HandleSubmission
<1>7. QED
  BY <1>5, <1>6

LEMMA WatchEndKeeps ==
  ASSUME TypeOK, IInv, NEW s \in Subs, HandleWatchEnd(s)
  PROVE  IInv'
<1>1. /\ UNCHANGED rows /\ UNCHANGED watcherVars
      /\ WatchEnd(s) \in mails
      /\ mails' = (mails \ {WatchEnd(s)}) \cup IF watchers[s] = None THEN {} ELSE {Unregister(s)}
      /\ watchers'[s] = None /\ \A x \in Subs \ {s} : watchers'[x] = watchers[x]
  BY DEF HandleWatchEnd, Answering, TypeOK
<1>2. SameRows
  BY <1>1, KeptRows
<1>3. Created
  BY DEF IInv
<1>4. SameEnds
  <2>1. WatchEnd(s).sub = s /\ Unregister(s).sub = s /\ Unregister(s).kind # "watchEnd"
    BY DEF WatchEnd, Unregister
  <2>2. \E S \in SUBSET {Unregister(s)} : Answering(WatchEnd(s), S)
    BY DEF HandleWatchEnd
  <2>3. QED
    BY <1>1, <1>3, <2>1, <2>2, AnsweredEnds
<1>5. watchers[s] # None /\ ends[watchers[s]] = "told"
  BY <1>1 DEF IInv, EndsTold
<1>6. TablesAgree' /\ Created'
  BY <1>1, <1>2, <1>4, SameTables DEF IInv, watcherVars
<1>7. Registered'
  <2>1. ASSUME NEW u \in Watchers, Working(u) PROVE sub[u] # s
    BY <1>5, <2>1 DEF IInv, Registered, Working
  <2>2. ASSUME NEW u \in Watchers, Working(u) PROVE watchers'[sub[u]] = u
    <3>1. sub[u] \in Subs /\ watchers[sub[u]] = u
      BY <2>2 DEF Working, TypeOK, IInv, Registered
    <3>2. QED
      BY <1>1, <2>1, <2>2, <3>1
  <2>3. ASSUME NEW x \in Subs, watchers'[x] # None
        PROVE  pc[watchers'[x]] # "none" /\ sub[watchers'[x]] = x
    BY <1>1, <2>3 DEF IInv, Registered
  <2>4. QED
    BY <1>1, <2>2, <2>3 DEF Registered, Working, watcherVars
<1>8. EndsTold'
  <2>1. ASSUME NEW x \in Subs, WatchEnd(x) \in mails'
        PROVE  watchers'[x] # None /\ ends[watchers'[x]] = "told"
    <3>1. x # s /\ WatchEnd(x) \in mails
      BY <1>1, <2>1 DEF WatchEnd, Unregister
    <3>2. QED
      BY <1>1, <3>1 DEF IInv, EndsTold
  <2>2. QED
    BY <1>1, <1>2, <2>1 DEF IInv, EndsTold, Ending, SameRows, Recorded, watcherVars
<1>9. (\A w \in Watchers : StillTrue(w))' /\ Isolated'
  BY <1>1 DEF IInv, StillTrue, Isolated, InTransaction, Conflict, Recorded, Taken, Pending,
     rows, watcherVars
<1>10. QED
  BY <1>6, <1>7, <1>8, <1>9 DEF IInv

-----------------------------------------------------------------------------
(* The watchers' steps.  First those after which it waits, is about to     *)
(* record a failure, or is over.                                           *)
LEMMA RestKeeps ==
  ASSUME TypeOK, IInv, SameRows, SameEnds, NEW w \in Watchers, OnlyMoves(w),
         pc[w] \notin {"none", "over"}, pc'[w] \in {"idle", "fail", "over"},
         ends'[w] = "told" <=> ends[w] = "told", pc'[w] = "idle" => ends'[w] = "no"
  PROVE  IInv'
<1>1. Working(w)' => Working(w)
  BY DEF Working
<1>2. Ending(w)'
  BY DEF IInv, EndsTold, Ending, OnlyMoves, SameRows, Recorded
<1>3. StillTrue(w)' /\ ~ InTransaction(w)'
  BY DEF StillTrue, InTransaction
<1>4. QED
  BY <1>1, <1>2, <1>3, Walk

LEMMA ReturnKeeps ==
  ASSUME TypeOK, IInv, SameRows, SameEnds, NEW w \in Watchers, UNCHANGED <<watchers, sub, ends>>,
         pc[w] \notin {"none", "over"}, Return(w)
  PROVE  IInv'
<1>1. OnlyMoves(w) /\ pc'[w] \in {"idle", "over"} /\ (pc'[w] = "idle" => ends'[w] = "no")
  BY DEF Return, Goto, OnlyMoves, TypeOK
<1>2. QED
  BY <1>1, RestKeeps

LEMMA WaitingKeeps ==
  ASSUME TypeOK, IInv, NEW w \in Watchers,
         ReadSubmissionFails(w) \/ RequestMaster(w) \/ NoProblem(w) \/ ResultFails(w) \/ Rollback(w)
  PROVE  IInv'
<1>1. UNCHANGED rows /\ OnlyMoves(w) /\ ends' = ends
  BY DEF ReadSubmissionFails, RequestMaster, NoProblem, ResultFails, Rollback, Goto,
     OnlyMoves, watcherEnv, TypeOK
<1>2. pc[w] \in {"idle", "read", "inserted", "checked"} /\ pc'[w] \in {"idle", "fail"}
  BY DEF ReadSubmissionFails, RequestMaster, NoProblem, ResultFails, Rollback, Goto,
     InTransaction, TypeOK
<1>3. ends[w] = "no"
  BY <1>2 DEF IInv, EndsTold, Ending
<1>4. SameRows
  BY <1>1, KeptRows
<1>5. SameEnds
  <2>1. CASE RequestMaster(w)
    <3>1. sub[w] # None
      BY <2>1, ManagerAssumption DEF RequestMaster, TypeOK
    <3>2. state'[Request(sub[w]).sub] # "none"
      BY <1>1, <3>1 DEF IInv, Created, Request, rows
    <3>3. QED
      BY <2>1, <3>2 DEF RequestMaster, SameEnds, WatchEnd, Request
  <2>2. CASE NoProblem(w) \/ Rollback(w)
    BY <2>2 DEF NoProblem, Rollback, SameEnds
  <2>3. CASE ReadSubmissionFails(w) \/ ResultFails(w)
    BY <2>3, HandledEnds DEF ReadSubmissionFails, ResultFails
  <2>4. QED
    BY <2>1, <2>2, <2>3
<1>6. QED
  BY <1>1, <1>2, <1>3, <1>4, <1>5, RestKeeps

LEMMA ReadKeeps ==
  ASSUME TypeOK, IInv, NEW w \in Watchers, ReadSubmission(w)
  PROVE  IInv'
<1>1. UNCHANGED rows /\ OnlyMoves(w) /\ pc[w] = "idle" /\ pc'[w] = "read" /\ ends' = ends
  BY DEF ReadSubmission, Goto, OnlyMoves, watcherEnv, TypeOK
<1>2. ends[w] = "no"
  BY <1>1 DEF IInv, EndsTold, Ending
<1>3. SameRows /\ SameEnds
  BY <1>1, KeptRows, HandledEnds DEF ReadSubmission
<1>4. val'[w].id = cfSubID[sub[w]]
  BY DEF ReadSubmission, Status, TypeOK
<1>5. StillTrue(w)' /\ ~ InTransaction(w)'
  BY <1>1, <1>4 DEF StillTrue, InTransaction, Recorded, OnlyMoves, rows
<1>6. Working(w) /\ Ending(w)'
  BY <1>1, <1>2 DEF Working, Ending
<1>7. QED
  BY <1>1, <1>2, <1>3, <1>5, <1>6, Walk

LEMMA InsertKeeps ==
  ASSUME TypeOK, IInv, NEW w \in Watchers, NEW stat \in Statuses, InsertCfSubmission(w, stat)
  PROVE  IInv'
<1>1. UNCHANGED rows /\ OnlyMoves(w) /\ pc[w] = "idle"
  BY DEF InsertCfSubmission, Goto, OnlyMoves, watcherEnv, TypeOK
<1>2. ends[w] = "no"
  BY <1>1 DEF IInv, EndsTold, Ending
<1>3. SameRows /\ SameEnds
  BY <1>1, KeptRows, HandledEnds DEF InsertCfSubmission
<1>4. CASE Conflict(sub[w], stat.id)
  <2>1. ends'[w] = "untold" /\ pc'[w] = "fail"
    BY <1>4 DEF InsertCfSubmission, Goto, TypeOK
  <2>2. QED
    BY <1>1, <1>2, <1>3, <2>1, RestKeeps
<1>5. CASE ~ Conflict(sub[w], stat.id)
  <2>1. ends' = ends /\ pc'[w] = "inserted" /\ val'[w] = stat
    BY <1>5 DEF InsertCfSubmission, Goto, TypeOK
  <2>2. stat.id # 0 /\ ~ Blocked(w, sub[w], stat.id)
    BY DEF InsertCfSubmission
  <2>3. StillTrue(w)'
    BY <1>1, <1>5, <2>1, <2>2 DEF StillTrue, InTransaction, Conflict, Recorded, Taken,
         OnlyMoves, rows
  <2>4. Working(w) /\ Ending(w)'
    BY <1>1, <1>2, <2>1 DEF Working, Ending
  <2>5. QED
    BY <1>1, <1>2, <1>3, <2>1, <2>2, <2>3, <2>4, Walk DEF Blocked
<1>6. QED
  BY <1>4, <1>5

LEMMA CheckStateKeeps ==
  ASSUME TypeOK, IInv, NEW w \in Watchers, CheckState(w)
  PROVE  IInv'
<1>1. /\ UNCHANGED rows /\ OnlyMoves(w) /\ UNCHANGED <<mails, ends, val, sub>>
      /\ pc[w] = "inserted" /\ pc'[w] = "checked"
  BY DEF CheckState, Goto, OnlyMoves, watcherEnv, TypeOK
<1>2. ends[w] = "no"
  BY <1>1 DEF IInv, EndsTold, Ending
<1>3. SameRows /\ SameEnds
  BY <1>1, KeptRows DEF SameEnds
<1>4. StillTrue(w)'
  BY <1>1 DEF IInv, StillTrue, InTransaction, Conflict, Recorded, Taken, rows
<1>5. \A u \in Watchers \ {w} : InTransaction(u) => val[u].id # val'[w].id
  BY <1>1 DEF IInv, Isolated, InTransaction
<1>6. Working(w) /\ Ending(w)'
  BY <1>1, <1>2 DEF Working, Ending
<1>7. QED
  BY <1>1, <1>2, <1>3, <1>4, <1>5, <1>6, Walk

LEMMA FailureKeeps ==
  ASSUME TypeOK, IInv, NEW w \in Watchers, CheckFailure(w) \/ UpdateToFailure(w)
  PROVE  IInv'
<1>1. /\ UNCHANGED <<watchers, sub, ends, mails>>
      /\ pc[w] \in {"fail", "failing"}
  BY DEF CheckFailure, UpdateToFailure, watcherEnv
<1>2. SameRows
  <2>1. CASE UNCHANGED rows
    BY <2>1, KeptRows
  <2>2. CASE UpdateToFailure(w) /\ state' = [state EXCEPT ![sub[w]] = "flux_failed"]
    <3>1. sub[w] \in Subs /\ Pending(sub[w]) /\ cfSubID' = cfSubID
      BY <2>2 DEF UpdateToFailure, TypeOK, IInv, StillTrue
    <3>2. QED
      BY <2>2, <3>1, FailedRows
  <2>3. QED
    BY <2>1, <2>2 DEF CheckFailure, UpdateToFailure, rows
<1>3. SameEnds
  BY <1>1 DEF SameEnds
<1>4. CASE Return(w)
  BY <1>1, <1>2, <1>3, <1>4, ReturnKeeps
<1>5. CASE CheckFailure(w) /\ Pending(sub[w]) /\ Goto(w, "failing") /\ UNCHANGED val
  <2>1. /\ OnlyMoves(w) /\ UNCHANGED rows /\ pc[w] = "fail" /\ pc'[w] = "failing"
    BY <1>1, <1>5 DEF CheckFailure, OnlyMoves, Goto, TypeOK
  <2>2. sub[w] \in Subs
    BY <2>1 DEF TypeOK
  <2>3. ~ Recorded(sub[w])
    BY <1>5, <2>2 DEF IInv, TablesAgree, Pending, nonSinkFluxStates, Verdicts
  <2>4. ends[w] # "told"
    BY <2>3 DEF IInv, EndsTold, Ending
  <2>5. StillTrue(w)' /\ ~ InTransaction(w)'
    BY <1>1, <1>5, <2>1 DEF StillTrue, InTransaction, Pending, rows
  <2>6. Working(w) /\ Ending(w)'
    BY <1>1, <2>1, <2>4 DEF Working, Ending
  <2>7. QED
    BY <1>1, <1>2, <1>3, <2>1, <2>5, <2>6, Walk
<1>6. QED
  BY <1>4, <1>5 DEF CheckFailure, UpdateToFailure

(* Then those that end its watch.                                          *)
LEMMA TellKeeps ==
  ASSUME TypeOK, IInv, NEW w \in Watchers, Working(w), OnlyMoves(w),
         mails' = mails \cup {WatchEnd(sub[w])},
         ends'[w] = "told", pc'[w] \in {"fail", "over"},
         TablesAgree', Recorded(sub[w])', \A s \in Subs : Recorded(s) => Recorded(s)',
         \A s \in Subs : state[s] # "none" => state'[s] # "none",
         \A u \in Watchers \ {w} : StillTrue(u)'
  PROVE  IInv'
<1>1. sub[w] \in Subs /\ watchers[sub[w]] = w
  BY DEF Working, TypeOK, IInv, Registered
<1>2. \A u \in Watchers : Working(u)' => Working(u)
  BY DEF Working, OnlyMoves
<1>3. None \notin Watchers
  BY ManagerAssumption
<1>4. Registered'
  <2>1. ASSUME NEW s \in Subs, watchers[s] # None
        PROVE  pc'[watchers[s]] # "none" /\ sub[watchers[s]] = s
    <3>1. watchers[s] \in Watchers
      BY <2>1 DEF TypeOK
    <3>2. QED
      BY <2>1, <3>1 DEF IInv, Registered, OnlyMoves
  <2>2. QED
    BY <1>2, <2>1 DEF IInv, Registered, OnlyMoves
<1>5. EndsTold'
  <2>1. ASSUME NEW s \in Subs, WatchEnd(s) \in mails'
        PROVE  watchers[s] # None /\ ends'[watchers[s]] = "told"
    <3>1. CASE s = sub[w]
      BY <1>1, <1>3, <3>1
    <3>2. CASE s # sub[w]
      <4>1. WatchEnd(s) \in mails
        BY <2>1, <3>2 DEF WatchEnd
      <4>2. watchers[s] # None /\ ends[watchers[s]] = "told"
        BY <4>1 DEF IInv, EndsTold
      <4>3. watchers[s] \in Watchers
        BY <4>2 DEF TypeOK
      <4>4. QED
        BY <4>2, <4>3 DEF OnlyMoves
    <3>3. QED
      BY <3>1, <3>2
  <2>2. ASSUME NEW u \in Watchers PROVE Ending(u)'
    <3>1. CASE u = w
      BY <3>1 DEF Ending
    <3>2. CASE u # w
      <4>1. Ending(u) /\ pc'[u] = pc[u] /\ ends'[u] = ends[u] /\ sub'[u] = sub[u]
        BY <3>2 DEF IInv, EndsTold, OnlyMoves
      <4>2. ends[u] = "told" => sub[u] \in Subs
        BY <4>1 DEF Ending, TypeOK
      <4>3. ends[u] = "told" => Recorded(sub[u])'
        <5>1. ASSUME NEW s \in Subs, s = sub[u], ends[u] = "told" PROVE Recorded(s)'
          BY <4>1, <5>1 DEF Ending
        <5>2. QED
          BY <4>1, <4>2, <5>1 DEF Recorded
      <4>4. QED
        BY <4>1, <4>3 DEF Ending
    <3>3. QED
      BY <3>1, <3>2
  <2>3. QED
    BY <2>1, <2>2 DEF EndsTold, OnlyMoves
<1>6. Created'
  <2>1. ASSUME NEW m \in mails' PROVE state'[m.sub] # "none"
    <3>1. CASE m \in mails
      <4>1. m \in Mail
        BY <3>1 DEF TypeOK
      <4>2. m.sub \in Subs
        BY <4>1 DEF Mail
      <4>3. QED
        BY <3>1, <4>2 DEF IInv, Created
    <3>2. CASE m = WatchEnd(sub[w])
      <4>1. sub[w] # None
        BY <1>1, ManagerAssumption
      <4>2. m.sub = sub[w] /\ state[sub[w]] # "none"
        BY <3>2, <4>1 DEF WatchEnd, IInv, Created
      <4>3. QED
        BY <1>1, <4>2
    <3>3. QED
      BY <3>1, <3>2
  <2>2. ASSUME NEW u \in Watchers, sub[u] # None PROVE state'[sub[u]] # "none"
    <3>1. sub[u] \in Subs
      BY <2>2 DEF TypeOK
    <3>2. QED
      BY <2>2, <3>1 DEF IInv, Created
  <2>3. QED
    BY <2>1, <2>2 DEF Created, OnlyMoves
<1>7. ASSUME NEW u \in Watchers PROVE StillTrue(u)'
  <2>1. CASE u = w
    BY <2>1 DEF StillTrue, InTransaction
  <2>2. QED
    BY <2>1
<1>8. Isolated'
  <2>1. ~ InTransaction(w)'
    BY DEF InTransaction
  <2>2. QED
    BY <2>1 DEF IInv, Isolated, InTransaction, OnlyMoves
<1>9. QED
  BY <1>4, <1>5, <1>6, <1>7, <1>8 DEF IInv

LEMMA AbortKeeps ==
  ASSUME TypeOK, IInv, NEW w \in Watchers, AbortSubmission(w)
  PROVE  IInv'
<1>1. /\ UNCHANGED rows /\ OnlyMoves(w) /\ pc[w] = "read" /\ val[w].id # 0
      /\ mails' = mails \cup {WatchEnd(sub[w])} /\ ends'[w] = "told" /\ pc'[w] = "fail"
  BY DEF AbortSubmission, Goto, OnlyMoves, watcherEnv, TypeOK
<1>2. Working(w)
  BY <1>1 DEF IInv, EndsTold, Ending, Working
<1>3. TablesAgree'
  BY <1>1 DEF IInv, TablesAgree, Recorded, rows
<1>4. Recorded(sub[w])'
  BY <1>1 DEF IInv, StillTrue, Recorded, OnlyMoves, rows
<1>5. /\ \A s \in Subs : Recorded(s) => Recorded(s)'
      /\ \A s \in Subs : state[s] # "none" => state'[s] # "none"
  BY <1>1 DEF Recorded, rows
<1>6. \A u \in Watchers \ {w} : StillTrue(u)'
  BY <1>1 DEF IInv, StillTrue, InTransaction, Conflict, Recorded, Taken, Pending, rows,
     OnlyMoves
<1>7. QED
  BY <1>1, <1>2, <1>3, <1>4, <1>5, <1>6, TellKeeps

(* What a watcher inserts when it commits.                                 *)
LEMMA CommitRows ==
  ASSUME TypeOK, IInv, NEW w \in Watchers, Commit(w)
  PROVE  /\ sub[w] \in Subs /\ Pending(sub[w])
         /\ val[w].id \in CfIds /\ val[w].verdict \in Verdicts
         /\ ~ Recorded(sub[w]) /\ ~ Taken(val[w].id)
         /\ state'[sub[w]] = val[w].verdict /\ cfSubID'[sub[w]] = val[w].id
         /\ \A s \in Subs \ {sub[w]} : state'[s] = state[s] /\ cfSubID'[s] = cfSubID[s]
<1>1. pc[w] = "checked" /\ val[w] \in Statuses
  BY DEF Commit, TypeOK
<1>2. sub[w] \in Subs
  BY <1>1 DEF TypeOK
<1>3. val[w].id # 0 /\ ~ Conflict(sub[w], val[w].id)
  BY <1>1 DEF IInv, StillTrue, InTransaction
<1>4. val[w].id \in CfIds /\ val[w].verdict \in Verdicts
  BY <1>1, <1>3, StatusTypes
<1>5. ~ Recorded(sub[w]) /\ ~ Taken(val[w].id)
  BY <1>3 DEF Conflict
<1>6. Pending(sub[w])
  <2>1. state[sub[w]] \notin Verdicts
    BY <1>2, <1>5 DEF IInv, TablesAgree
  <2>2. state[sub[w]] # "none"
    BY <1>2, ManagerAssumption DEF IInv, Created
  <2>3. state[sub[w]] \in States
    BY <1>2 DEF TypeOK
  <2>4. QED
    BY <2>1, <2>2, <2>3 DEF Pending, States
<1>7. /\ state'[sub[w]] = val[w].verdict /\ cfSubID'[sub[w]] = val[w].id
      /\ \A s \in Subs \ {sub[w]} : state'[s] = state[s] /\ cfSubID'[s] = cfSubID[s]
  BY <1>2 DEF Commit, TypeOK
<1>8. QED
  BY <1>2, <1>4, <1>5, <1>6, <1>7

LEMMA CommitKeeps ==
  ASSUME TypeOK, IInv, NEW w \in Watchers, Commit(w)
  PROVE  IInv'
<1>1. /\ OnlyMoves(w) /\ pc[w] = "checked" /\ mails' = mails \cup {WatchEnd(sub[w])}
      /\ ends'[w] = "told" /\ pc'[w] = "over"
  BY DEF Commit, Goto, OnlyMoves, watcherEnv, TypeOK
<1>2. /\ sub[w] \in Subs /\ Pending(sub[w])
      /\ val[w].id \in CfIds /\ val[w].verdict \in Verdicts
      /\ ~ Recorded(sub[w]) /\ ~ Taken(val[w].id)
      /\ state'[sub[w]] = val[w].verdict /\ cfSubID'[sub[w]] = val[w].id
      /\ \A s \in Subs \ {sub[w]} : state'[s] = state[s] /\ cfSubID'[s] = cfSubID[s]
  BY CommitRows
<1>3. val[w].id # 0
  BY <1>2 DEF CfIds
<1>4. Working(w)
  BY <1>1 DEF IInv, EndsTold, Ending, Working
<1>5. TablesAgree'
  BY <1>2, <1>3 DEF IInv, TablesAgree, Recorded
<1>6. Recorded(sub[w])'
  BY <1>1, <1>2, <1>3 DEF Recorded, OnlyMoves
<1>7. \A s \in Subs : Recorded(s) => Recorded(s)'
  BY <1>2, <1>3 DEF Recorded
<1>8. \A s \in Subs : state[s] # "none" => state'[s] # "none"
  BY <1>2 DEF Verdicts
<1>9. ASSUME NEW u \in Watchers \ {w} PROVE StillTrue(u)'
  <2>1. StillTrue(u) /\ pc'[u] = pc[u] /\ val'[u] = val[u] /\ sub'[u] = sub[u]
    BY <1>1 DEF IInv, OnlyMoves
  <2>2. CASE pc[u] \in {"read", "inserted", "checked", "failing"}
    <3>1. Working(u)
      BY <2>2 DEF Working, IInv, EndsTold, Ending
    <3>2. sub[u] \in Subs
      BY <2>2 DEF TypeOK
    <3>3. sub[u] # sub[w]
      BY <1>4, <3>1 DEF IInv, Registered
    <3>4. state'[sub[u]] = state[sub[u]] /\ cfSubID'[sub[u]] = cfSubID[sub[u]]
      BY <1>2, <3>2, <3>3
    <3>5. InTransaction(u) => val[u].id # val[w].id
      BY <1>1 DEF IInv, Isolated, InTransaction
    <3>6. InTransaction(u)' => val'[u].id # 0 /\ ~ Conflict(sub[u], val[u].id)'
      BY <1>2, <2>1, <3>4, <3>5 DEF StillTrue, InTransaction, Conflict, Recorded, Taken
    <3>7. QED
      BY <2>1, <3>4, <3>6 DEF StillTrue, Recorded, Pending, Conflict, Taken
  <2>3. CASE pc[u] \notin {"read", "inserted", "checked", "failing"}
    BY <2>1, <2>3 DEF StillTrue, InTransaction
  <2>4. QED
    BY <2>2, <2>3
<1>10. QED
  BY <1>1, <1>4, <1>5, <1>6, <1>7, <1>8, <1>9, TellKeeps

LEMMA RestartKeeps == ASSUME TypeOK, IInv, Restart PROVE IInv'
<1>1. /\ UNCHANGED rows /\ mails' = {}
      /\ \A s \in Subs : watchers'[s] = None
      /\ \A w \in Watchers : sub'[w] = None /\ pc'[w] = "none" /\ ends'[w] = "no"
  BY DEF Restart
<1>2. TablesAgree' /\ Created'
  BY <1>1 DEF IInv, TablesAgree, Created, Recorded, rows
<1>3. Registered' /\ EndsTold'
  BY <1>1 DEF Registered, EndsTold, Ending, Working
<1>4. (\A w \in Watchers : StillTrue(w))' /\ Isolated'
  BY <1>1 DEF StillTrue, Isolated, InTransaction
<1>5. QED
  BY <1>2, <1>3, <1>4 DEF IInv

-----------------------------------------------------------------------------
LEMMA InitHolds == Init => IInv
<1> SUFFICES ASSUME Init PROVE IInv
  OBVIOUS
<1>1. TablesAgree /\ Created
  BY DEF Init, InitRows, TablesAgree, Created, Recorded, Verdicts
<1>2. Registered /\ EndsTold
  BY DEF Init, Registered, EndsTold, Ending, Working
<1>3. (\A w \in Watchers : StillTrue(w)) /\ Isolated
  BY DEF Init, StillTrue, Isolated, InTransaction
<1>4. QED
  BY <1>1, <1>2, <1>3 DEF IInv

LEMMA InvariantStep ==
  ASSUME TypeOK, IInv, TypeOK', [Next]_vars
  PROVE  IInv'
<1>1. CASE Manage
  BY <1>1, PollKeeps, SubmitKeeps, HandleKeeps, WatchEndKeeps, PostmanKeeps DEF Manage
<1>2. ASSUME NEW w \in Watchers, Watch(w) PROVE IInv'
  BY <1>2, WaitingKeeps, ReadKeeps, InsertKeeps, CheckStateKeeps, FailureKeeps, AbortKeeps,
     CommitKeeps DEF Watch
<1>3. ASSUME NEW s \in Subs, DropRequest(s) \/ \E stat \in Statuses : Answer(s, stat)
      PROVE  IInv'
  BY <1>3, PostmanKeeps
<1>4. CASE FollowVerdicts
  BY <1>4, FollowKeeps
<1>5. CASE Restart
  BY <1>5, RestartKeeps
<1>6. CASE UNCHANGED vars
  <2>1. SameRows /\ SameEnds /\ UNCHANGED <<watchers, watcherVars>>
    BY <1>6, KeptRows DEF SameEnds, vars
  <2>2. QED
    BY <2>1, Quiet
<1>7. QED
  BY <1>1, <1>2, <1>3, <1>4, <1>5, <1>6 DEF Next

LEMMA Inductive == Spec => [](TypeOK /\ IInv)
<1>1. Init => TypeOK /\ IInv
  BY InitTypes, InitHolds
<1>2. TypeOK /\ IInv /\ [Next]_vars => (TypeOK /\ IInv)'
  BY TypeStep, InvariantStep
<1>3. QED
  BY <1>1, <1>2, PTL DEF Spec

(* A submission has a row in cf_submissions exactly when its state is one  *)
(* of the platform (the transaction of nyx_watcher.go:249-309).            *)
THEOREM TablesAlwaysAgree == Spec => []TablesAgree
<1>1. IInv => TablesAgree
  BY DEF IInv
<1>2. QED
  BY Inductive, <1>1, PTL

(* However late polls, ends of watches and unregistrations come, at most   *)
(* one watcher may still act on a submission (nyx_manager.go:168-178).     *)
THEOREM OneWatcherEach == Spec => []OneWatcher
<1>1. IInv => OneWatcher
  BY DEF IInv, Registered, OneWatcher
<1>2. QED
  BY Inductive, <1>1, PTL

(* What the other steps post is no request.                                *)
LEMMA OthersRequestNothing ==
  ASSUME TypeOK, Next, NEW s \in Subs, Request(s) \in mails' \ mails
  PROVE  \E w \in Watchers : RequestMaster(w) /\ sub[w] = s
<1>1. CASE Manage
  <2>1. CASE Poll
    BY <2>1 DEF Poll, Request, FluxSubmission
  <2>2. ASSUME NEW x \in Subs, Submit(x) \/ HandleSubmission(x) PROVE FALSE
    BY <2>2 DEF Submit, HandleSubmission, Answering, Request, FluxSubmission, SubmitMail
  <2>3. ASSUME NEW x \in Subs, HandleWatchEnd(x) \/ BounceToManager(x) PROVE FALSE
    BY <2>3 DEF HandleWatchEnd, BounceToManager, Answering, Request, Unregister, InvalidClient
  <2>4. ASSUME NEW x \in Subs,
               \/ HandleUnregister(x) \/ BounceToMaster(x)
               \/ HandleInvalidClient(x) \/ DeliverInVain(x)
        PROVE  FALSE
    BY <2>4 DEF HandleUnregister, BounceToMaster, HandleInvalidClient, DeliverInVain, Handling
  <2>5. QED
    BY <1>1, <2>1, <2>2, <2>3, <2>4 DEF Manage
<1>2. ASSUME NEW w \in Watchers, Watch(w) PROVE RequestMaster(w) /\ sub[w] = s
  BY <1>2 DEF Watch, ReadSubmission, ReadSubmissionFails, AbortSubmission, RequestMaster,
     NoProblem, ResultFails, InsertCfSubmission, CheckState, Commit, Rollback,
     CheckFailure, UpdateToFailure, Handling, Request, WatchEnd
<1>3. ASSUME NEW x \in Subs, DropRequest(x) \/ \E stat \in Statuses : Answer(x, stat)
      PROVE  FALSE
  BY <1>3 DEF DropRequest, Answer, Handling, Answering, Request, Result
<1>4. CASE FollowVerdicts \/ Restart
  BY <1>4 DEF FollowVerdicts, Restart
<1>5. QED
  BY <1>1, <1>2, <1>3, <1>4 DEF Next

(* A submission that was recorded, by an earlier watcher or in an earlier  *)
(* run of the program, is not submitted again (nyx_watcher.go:157-171).    *)
THEOREM NothingRequestedAgain == Spec => RequestsOnlyUnrecorded
<1>1. ASSUME TypeOK, IInv, Next, NEW s \in Subs, Request(s) \in mails' \ mails
      PROVE  ~ Recorded(s)
  <2>1. PICK w \in Watchers : RequestMaster(w) /\ sub[w] = s
    BY <1>1, OthersRequestNothing
  <2>2. pc[w] = "read" /\ val[w].id = 0
    BY <2>1 DEF RequestMaster
  <2>3. QED
    BY <1>1, <2>1, <2>2 DEF IInv, StillTrue
<1>2. TypeOK /\ IInv /\ [Next]_vars =>
        [\A s \in Subs : Request(s) \in mails' \ mails => ~ Recorded(s)]_vars
  BY <1>1
<1>3. QED
  BY Inductive, <1>2, PTL DEF Spec, RequestsOnlyUnrecorded

(* Whatever the manager, its watchers, the monitors and a restart do, in   *)
(* whatever order, a row changes as Submission says: it waits, is recorded *)
(* once under an id no other has, and follows the verdict.                 *)
THEOREM SubmissionImplemented == Spec => SubmissionSpec
<1>1. Init => InitRows
  BY DEF Init
<1>2. ASSUME TypeOK, IInv, Next PROVE [RowsNext]_rows
  <2>1. ASSUME NEW s \in Subs, Submit(s) PROVE RowsNext
    BY <2>1 DEF Submit, RowsNext
  <2>2. ASSUME NEW w \in Watchers, Commit(w) PROVE RowsNext
    <3>1. /\ sub[w] \in Subs /\ Pending(sub[w])
          /\ val[w].id \in CfIds /\ val[w].verdict \in Verdicts
          /\ ~ Recorded(sub[w]) /\ ~ Taken(val[w].id)
      BY <1>2, <2>2, CommitRows
    <3>2. Record(sub[w], val[w].id, val[w].verdict)
      BY <2>2, <3>1 DEF Commit, Record
    <3>3. QED
      BY <3>1, <3>2 DEF RowsNext
  <2>3. ASSUME NEW w \in Watchers, UpdateToFailure(w) PROVE [RowsNext]_rows
    <3>1. sub[w] \in Subs /\ Pending(sub[w]) /\ cfSubID' = cfSubID
      BY <1>2, <2>3 DEF UpdateToFailure, TypeOK, IInv, StillTrue
    <3>2. Fail(sub[w]) \/ UNCHANGED rows
      BY <2>3, <3>1 DEF UpdateToFailure, Fail, rows
    <3>3. QED
      BY <3>1, <3>2 DEF RowsNext
  <2>4. ASSUME NEW w \in Watchers, Watch(w) PROVE [RowsNext]_rows
    BY <2>2, <2>3, <2>4 DEF Watch, ReadSubmission, ReadSubmissionFails, AbortSubmission,
       RequestMaster, NoProblem, ResultFails, InsertCfSubmission, CheckState, Rollback,
       CheckFailure
  <2>5. CASE Manage
    BY <2>1, <2>5 DEF Manage, Poll, HandleSubmission, HandleWatchEnd, HandleUnregister,
       BounceToManager, BounceToMaster, HandleInvalidClient, DeliverInVain
  <2>6. CASE FollowVerdicts
    BY <2>6 DEF FollowVerdicts, RowsNext
  <2>7. ASSUME NEW s \in Subs, DropRequest(s) \/ \E stat \in Statuses : Answer(s, stat)
        PROVE  UNCHANGED rows
    BY <2>7 DEF DropRequest, Answer
  <2>8. CASE Restart
    BY <2>8 DEF Restart
  <2>9. QED
    BY <1>2, <2>4, <2>5, <2>6, <2>7, <2>8 DEF Next
<1>3. TypeOK /\ IInv /\ [Next]_vars => [RowsNext]_rows
  BY <1>2 DEF vars, rows
<1>4. QED
  BY Inductive, <1>1, <1>3, PTL DEF Spec, SubmissionSpec

-----------------------------------------------------------------------------
(* What follows from Submission for those who read the rows.               *)

(* A submission of the platform is one submission's.                       *)
IdsDistinct ==
  \A s, t \in Subs : Recorded(s) /\ cfSubID[s] = cfSubID[t] => s = t

(* What is recorded keeps its id, and its state once that is final.        *)
KeepsVerdict ==
  \A s \in Subs : Recorded(s) =>
    /\ cfSubID'[s] = cfSubID[s]
    /\ Sink(state[s]) => state'[s] = state[s]

LEMMA IdsStep ==
  cfSubID \in [Subs -> {0} \cup CfIds] /\ IdsDistinct /\ [RowsNext]_rows => IdsDistinct'
<1> SUFFICES ASSUME cfSubID \in [Subs -> {0} \cup CfIds], IdsDistinct, [RowsNext]_rows
             PROVE  IdsDistinct'
  OBVIOUS
<1>1. CASE UNCHANGED cfSubID
  BY <1>1 DEF IdsDistinct, Recorded
<1>2. ASSUME NEW s \in Subs, NEW id \in CfIds, NEW verdict \in Verdicts,
             Record(s, id, verdict)
      PROVE  IdsDistinct'
  <2>1. /\ \A t \in Subs : cfSubID[t] # id
        /\ \A t \in Subs : cfSubID'[t] = IF t = s THEN id ELSE cfSubID[t]
    BY <1>2 DEF Record, Taken
  <2>2. QED
    BY <2>1 DEF IdsDistinct, Recorded
<1>3. QED
  BY <1>1, <1>2 DEF RowsNext, Create, Fail, Advance, rows

LEMMA VerdictStep ==
  /\ state \in [Subs -> States] /\ cfSubID \in [Subs -> {0} \cup CfIds]
  /\ \A s \in Subs : Recorded(s) => ~ Pending(s)
  /\ [RowsNext]_rows
  => KeepsVerdict
<1> SUFFICES ASSUME state \in [Subs -> States], cfSubID \in [Subs -> {0} \cup CfIds],
                    \A s \in Subs : Recorded(s) => ~ Pending(s), [RowsNext]_rows,
                    NEW s \in Subs, Recorded(s)
             PROVE  /\ cfSubID'[s] = cfSubID[s]
                    /\ Sink(state[s]) => state'[s] = state[s]
  BY DEF KeepsVerdict
<1>1. ASSUME NEW t \in Subs, Create(t) \/ Fail(t)
      PROVE  cfSubID' = cfSubID /\ (Sink(state[s]) => state'[s] = state[s])
  BY <1>1 DEF Create, Fail, Pending, Sink, nonSinkFluxStates
<1>2. ASSUME NEW t \in Subs, NEW id \in CfIds, NEW verdict \in Verdicts,
             Record(t, id, verdict)
      PROVE  cfSubID'[s] = cfSubID[s] /\ state'[s] = state[s]
  <2>1. s # t
    BY <1>2 DEF Record
  <2>2. QED
    BY <1>2, <2>1 DEF Record
<1>3. CASE Advance
  BY <1>3 DEF Advance
<1>4. CASE UNCHANGED rows
  BY <1>4 DEF rows
<1>5. QED
  BY <1>1, <1>2, <1>3, <1>4 DEF RowsNext

(* submissions.sql, nyx_watcher.go:262-291: two submissions are never      *)
(* recorded under one id, whoever is answered with which.                  *)
THEOREM NoIdTwice == Spec => []IdsDistinct
<1>1. Init => IdsDistinct
  BY DEF Init, InitRows, IdsDistinct, Recorded
<1>2. TypeOK /\ IInv /\ IdsDistinct /\ [RowsNext]_rows => IdsDistinct'
  BY IdsStep DEF TypeOK
<1>3. QED
  BY <1>1, <1>2, Inductive, SubmissionImplemented, PTL DEF Spec, SubmissionSpec

(* nyx_watcher.go:342-400, cf_bot_monitor.go:183-290: what is recorded     *)
(* keeps its id, and a final verdict is never taken back, although watcher *)
(* and monitor write the same row and either may come late.                *)
THEOREM VerdictsStay == Spec => [][KeepsVerdict]_rows
<1>1. TablesAgree => \A s \in Subs : Recorded(s) => ~ Pending(s)
  BY DEF TablesAgree, Pending, Verdicts, nonSinkFluxStates
<1>2. TypeOK /\ TablesAgree /\ [RowsNext]_rows => [KeepsVerdict]_rows
  BY <1>1, VerdictStep DEF TypeOK
<1>3. QED
  BY <1>2, TypeCorrect, TablesAlwaysAgree, SubmissionImplemented, PTL DEF SubmissionSpec
=============================================================================
