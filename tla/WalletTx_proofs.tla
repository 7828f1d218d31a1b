---------------------------- MODULE WalletTx_proofs ----------------------------
(***************************************************************************)
(* Machine-checked facts about WalletTx, for any number of handlers beside   *)
(* each other and any number of surprises.                                  *)
(***************************************************************************)
EXTENDS WalletTx, TLAPS

-----------------------------------------------------------------------------
(* The inductive invariant.  That a message goes out once needs two things   *)
(* besides: a drawer that may still be approved is the one its handler waits *)
(* for, unless it was given up; and whatever a handler waits for before its  *)
(* message is sent, the preview and the enabling of auto-sign included,      *)
(* finds it with nothing sent.                                              *)

\* A handler that has not reached the broadcast of its message.
Before(r) == r.at \notin {"fallback", "sync", "done"}

SendOK(r) ==
  /\ r.refused => r.at = "done"
  /\ r.gaveUp \/ /\ r.at # "fallback"
                 /\ r.drawer => r.at = "drawer"
                 /\ Before(r) => r.sent = 0
                 /\ r.sent <= 1
                 /\ r.refused => r.sent = 0

PreviewOK == preview # Nobody => task[preview].at \in {"preview", "setup"}

Inv == WalletTypeOK /\ PreviewOK /\ \A t \in Tasks : SendOK(task[t])

\* The invariant is stronger than the checked property.
LEMMA InvSentOnce == Inv => SentOnce
BY DEF Inv, WalletTypeOK, TaskType, SendOK, SentOnce

-----------------------------------------------------------------------------
(* What handlers become.                                                    *)

\* A step that takes one handler from one record to another that is in order.
LEMMA OneTask ==
  ASSUME Inv, NEW t \in Tasks, NEW r \in TaskType, SendOK(r),
         task' = [task EXCEPT ![t] = r]
  PROVE  task' \in [Tasks -> TaskType] /\ \A u \in Tasks : SendOK(task'[u])
BY DEF Inv, WalletTypeOK

\* Ending keeps what SendOK is about.
LEMMA EndedFields ==
  ASSUME NEW r \in TaskType
  PROVE  /\ Ended(r) \in TaskType /\ Ended(r).at = "done" /\ Ended(r).sent = r.sent
         /\ Ended(r).gaveUp = r.gaveUp /\ Ended(r).refused = r.refused
         /\ Ended(r).drawer = r.drawer
<1> DEFINE k == IF r.drawer THEN r.kind ELSE Fresh.kind
<1>1. k \in Kinds
  BY DEF TaskType, Fresh, Kinds
<1>2. PICK n \in 0..2 : n = 1
  OBVIOUS
<1>3. Ended(r) = [r EXCEPT !.at = "done", !.kind = k, !.auto = FALSE, !.left = n,
                           !.by = "user", !.old = FALSE]
  BY <1>2 DEF Ended
<1> HIDE DEF k
<1>4. Ended(r) \in TaskType
  BY <1>1, <1>3 DEF TaskType, Stages
<1> QED
  BY <1>3, <1>4 DEF TaskType

\* A handler that ends keeps what it sent, which is in order if it was, or if it ends
\* before its message is sent.
LEMMA EndedOK ==
  ASSUME NEW r \in TaskType, SendOK(r)
  PROVE  /\ Ended(r) \in TaskType /\ Ended(r).at = "done"
         /\ r.at \notin {"drawer", "idle"} \/ ~r.drawer => SendOK(Ended(r))
<1>1. Ended(r) \in TaskType /\ Ended(r).at = "done" /\ Ended(r).sent = r.sent
      /\ Ended(r).gaveUp = r.gaveUp /\ Ended(r).refused = r.refused
      /\ Ended(r).drawer = r.drawer
  BY EndedFields
<1>2. SendOK(Ended(r)) \/ ~(r.at \notin {"drawer", "idle"} \/ ~r.drawer)
  BY <1>1 DEF SendOK, Before, TaskType
<1> QED
  BY <1>1, <1>2

\* A handler before its message goes to the wallet, or to auto-sign's own preview.
LEMMA BeginTxOK ==
  ASSUME Inv, NEW t \in Tasks, NEW rec \in TaskType, NEW open \in Tasks \cup {Nobody},
         ~rec.refused, rec.gaveUp \/ (rec.sent = 0 /\ ~rec.drawer),
         open # Nobody => open # t /\ task[open].at \in {"preview", "setup"},
         BeginTx(t, rec, open)
  PROVE  /\ task' \in [Tasks -> TaskType] /\ \A u \in Tasks : SendOK(task'[u])
         /\ preview' \in Tasks \cup {Nobody} /\ PreviewOK'
<1> DEFINE asks == AsksAgain(rec)
           stage == IF ~asks THEN "services" ELSE IF enabling # Nobody THEN "enabling" ELSE "setup"
           r == [rec EXCEPT !.at = stage]
<1>1. task' = [task EXCEPT ![t] = r]
  BY DEF BeginTx
<1>2. /\ r \in TaskType /\ r.at = stage /\ r.sent = rec.sent /\ r.refused = rec.refused
      /\ r.gaveUp = rec.gaveUp /\ r.drawer = rec.drawer
  BY DEF TaskType, Stages
<1>3. SendOK(r)
  BY <1>2 DEF SendOK, Before, TaskType
<1>4. task' \in [Tasks -> TaskType] /\ \A u \in Tasks : SendOK(task'[u])
  BY <1>1, <1>2, <1>3, OneTask
<1>5. preview' \in Tasks \cup {Nobody}
  BY DEF BeginTx
<1>6. PreviewOK'
  <2>1. CASE asks /\ enabling = Nobody
    BY <1>1, <1>2, <2>1 DEF BeginTx, PreviewOK, Inv, WalletTypeOK
  <2>2. CASE ~(asks /\ enabling = Nobody)
    <3>1. preview' = open
      BY <2>2 DEF BeginTx
    <3> QED
      BY <1>1, <3>1 DEF PreviewOK, Inv, WalletTypeOK
  <2> QED
    BY <2>1, <2>2
<1> QED
  BY <1>4, <1>5, <1>6

\* The preview waits for the same handler, which is where it was.
LEMMA PreviewKept ==
  ASSUME Inv, NEW t \in Tasks, preview' = preview, NEW r,
         task' = [task EXCEPT ![t] = r], task[t].at \notin {"preview", "setup"}
  PROVE  PreviewOK'
BY WalletTxAssumption DEF PreviewOK, Inv, WalletTypeOK

-----------------------------------------------------------------------------
(* The steps.                                                               *)

\* A handler that is past its preview moves to a record in order.
LEMMA StepOf ==
  ASSUME Inv, NEW t \in Tasks, NEW r \in TaskType, SendOK(r),
         task' = [task EXCEPT ![t] = r], task[t].at \notin {"preview", "setup"},
         UNCHANGED <<preview, enabling, granted, tried, surprises>>,
         pending' \in Tasks \cup {Nobody}
  PROVE  Inv'
BY OneTask, PreviewKept DEF Inv, WalletTypeOK

\* What the wallet and the handlers do from the services to the end of a broadcast.
LEMMA WalletSteps ==
  ASSUME Inv, NEW t \in Tasks,
         WalletStep(t) \/ ServicesReady(t) \/ ServicesDown(t)
           \/ SessionFails(t) \/ SyncFails(t)
  PROVE  Inv'
<1>1. task[t] \in TaskType /\ SendOK(task[t]) /\ pending \in Tasks \cup {Nobody}
  BY DEF Inv, WalletTypeOK
<1>2. (IF UsesPending(task[t].kind) THEN Nobody ELSE pending) \in Tasks \cup {Nobody}
  BY <1>1
<1>3. CASE ServicesReady(t)
  <2>1. task[t].at = "services"
    BY <1>3 DEF ServicesReady
  <2>2. PICK r \in TaskType : SendOK(r) /\ task' = [task EXCEPT ![t] = r]
    <3>1. CASE task[t].auto
      <4>1. task' = [task EXCEPT ![t] = [task[t] EXCEPT !.at = "direct"]]
        BY <1>3, <3>1 DEF ServicesReady
      <4>2. [task[t] EXCEPT !.at = "direct"] \in TaskType /\ SendOK([task[t] EXCEPT !.at = "direct"])
        BY <1>1, <2>1 DEF TaskType, Stages, SendOK, Before
      <4> QED
        BY <4>1, <4>2
    <3>2. CASE ~task[t].auto
      <4>1. task' = [task EXCEPT ![t] = [task[t] EXCEPT !.at = "drawer", !.drawer = TRUE]]
        BY <1>3, <3>2 DEF ServicesReady
      <4>2. /\ [task[t] EXCEPT !.at = "drawer", !.drawer = TRUE] \in TaskType
            /\ SendOK([task[t] EXCEPT !.at = "drawer", !.drawer = TRUE])
        BY <1>1, <2>1 DEF TaskType, Stages, SendOK, Before
      <4> QED
        BY <4>1, <4>2
    <3> QED
      BY <3>1, <3>2
  <2> QED
    BY <1>1, <1>3, <2>1, <2>2, StepOf DEF ServicesReady
<1>4. CASE ServicesDown(t) \/ SessionFails(t) \/ SyncFails(t)
  <2>1. /\ task[t].at \in {"services", "session", "sync"}
        /\ task' = [task EXCEPT ![t] = Ended(task[t])]
        /\ pending' \in Tasks \cup {Nobody}
        /\ UNCHANGED <<preview, enabling, granted, tried, surprises>>
    BY <1>2, <1>4 DEF ServicesDown, SessionFails, SyncFails, Finish, ReleaseFlag
  <2>2. Ended(task[t]) \in TaskType /\ SendOK(Ended(task[t]))
    BY <1>1, <2>1, EndedOK
  <2> QED
    BY <2>1, <2>2, StepOf
<1>5. CASE Broadcast(t)
  <2> PICK s \in Nat : s = task[t].sent + 1
    BY <1>1 DEF TaskType
  <2> DEFINE r == [task[t] EXCEPT !.at = "sync", !.sent = s,
                                  !.drawer = task[t].drawer /\ task[t].at # "drawer"]
  <2>1. task[t].at \in {"drawer", "direct", "fallback"} /\ task' = [task EXCEPT ![t] = r]
    BY <1>1, <1>5 DEF Broadcast, Inv, WalletTypeOK, TaskType
  <2>2. r \in TaskType
    BY <1>1 DEF TaskType, Stages
  <2>3. SendOK(r)
    BY <1>1, <2>1 DEF TaskType, SendOK, Before
  <2> QED
    BY <1>1, <1>5, <2>1, <2>2, <2>3, StepOf DEF Broadcast
<1>6. CASE Refuse(t)
  <2> DEFINE r == [task[t] EXCEPT !.refused = TRUE,
                                  !.drawer = task[t].drawer /\ task[t].at # "drawer"]
  <2>1. /\ task[t].at \in {"drawer", "direct", "fallback"}
        /\ task' = [task EXCEPT ![t] = Ended(r)]
        /\ pending' \in Tasks \cup {Nobody}
    BY <1>2, <1>6 DEF Refuse, Finish, ReleaseFlag
  <2>2. r \in TaskType
    BY <1>1 DEF TaskType
  <2>3. /\ Ended(r) \in TaskType /\ Ended(r).at = "done" /\ Ended(r).sent = task[t].sent
        /\ Ended(r).gaveUp = task[t].gaveUp
        /\ Ended(r).drawer = (task[t].drawer /\ task[t].at # "drawer")
    BY <1>1, <2>2, EndedFields DEF TaskType
  <2>4. SendOK(Ended(r))
    BY <1>1, <2>1, <2>3 DEF SendOK, Before, TaskType
  <2> QED
    BY <1>6, <2>1, <2>3, <2>4, StepOf DEF Refuse
<1>7. CASE DrawerTimesOut(t)
  <2>1. [task[t] EXCEPT !.at = "fallback", !.gaveUp = TRUE] \in TaskType
    BY <1>1 DEF TaskType, Stages
  <2>2. task' = [task EXCEPT ![t] = [task[t] EXCEPT !.at = "fallback", !.gaveUp = TRUE]]
    BY <1>1, <1>7 DEF DrawerTimesOut, Inv, WalletTypeOK, TaskType
  <2>3. SendOK([task[t] EXCEPT !.at = "fallback", !.gaveUp = TRUE])
    BY <1>1, <1>7 DEF DrawerTimesOut, SendOK, TaskType
  <2> QED
    BY <1>1, <1>7, <2>1, <2>2, <2>3, StepOf DEF DrawerTimesOut
<1>8. CASE DrawerFails(t)
  <2> PICK n \in {0, 1} : task' = [task EXCEPT ![t].at = "fallback", ![t].gaveUp = TRUE,
                               ![t].drawer = FALSE, ![t].sent = @ + n]
    BY <1>8 DEF DrawerFails
  <2> PICK s \in Nat : s = task[t].sent + n
    BY <1>1 DEF TaskType
  <2> DEFINE r == [task[t] EXCEPT !.at = "fallback", !.gaveUp = TRUE, !.drawer = FALSE,
                                  !.sent = s]
  <2>1. r \in TaskType
    BY <1>1 DEF TaskType, Stages
  <2>2. task' = [task EXCEPT ![t] = r]
    BY <1>1 DEF Inv, WalletTypeOK, TaskType
  <2>3. SendOK(r)
    BY <1>1, <1>8 DEF DrawerFails, SendOK, TaskType
  <2> QED
    BY <1>1, <1>8, <2>1, <2>2, <2>3, StepOf DEF DrawerFails
<1>9. CASE DirectFails(t)
  <2> PICK n \in {0, 1} : Finish(t, [task[t] EXCEPT !.sent = @ + n])
    BY <1>9 DEF DirectFails
  <2> PICK s \in Nat : s = task[t].sent + n
    BY <1>1 DEF TaskType
  <2> DEFINE r == [task[t] EXCEPT !.sent = s]
  <2>1. /\ task[t].at \in {"direct", "fallback"} /\ task' = [task EXCEPT ![t] = Ended(r)]
        /\ pending' \in Tasks \cup {Nobody}
    BY <1>2, <1>9 DEF DirectFails, Finish, ReleaseFlag
  <2>2. r \in TaskType
    BY <1>1 DEF TaskType
  <2>3. /\ Ended(r) \in TaskType /\ Ended(r).at = "done" /\ Ended(r).sent = s
        /\ Ended(r).gaveUp = task[t].gaveUp /\ Ended(r).refused = task[t].refused
        /\ Ended(r).drawer = task[t].drawer
    BY <1>1, <2>2, EndedFields DEF TaskType
  <2>4. SendOK(Ended(r))
    BY <1>1, <2>1, <2>3 DEF SendOK, Before, TaskType
  <2> QED
    BY <1>9, <2>1, <2>3, <2>4, StepOf DEF DirectFails
<1>10. CASE LateApproval(t) \/ DrawerDismissed(t)
  <2>1. task[t].drawer /\ task[t].at # "drawer" /\ task[t].gaveUp
    BY <1>1, <1>10 DEF LateApproval, DrawerDismissed, SendOK
  <2>2. PICK s \in Nat :
          task' = [task EXCEPT ![t] = [task[t] EXCEPT !.sent = s, !.drawer = FALSE]]
    <3>1. CASE LateApproval(t)
      <4> PICK s \in Nat : s = task[t].sent + 1
        BY <1>1 DEF TaskType
      <4>1. task' = [task EXCEPT ![t] = [task[t] EXCEPT !.sent = s, !.drawer = FALSE]]
        BY <1>1, <3>1 DEF LateApproval, Inv, WalletTypeOK, TaskType
      <4> QED
        BY <4>1
    <3>2. CASE DrawerDismissed(t)
      <4> PICK s \in Nat : s = task[t].sent
        BY <1>1 DEF TaskType
      <4>1. task' = [task EXCEPT ![t] = [task[t] EXCEPT !.sent = s, !.drawer = FALSE]]
        BY <1>1, <3>2 DEF DrawerDismissed, TaskType
      <4> QED
        BY <4>1
    <3> QED
      BY <1>10, <3>1, <3>2
  <2> DEFINE r == [task[t] EXCEPT !.sent = s, !.drawer = FALSE]
  <2>3. r \in TaskType /\ r.at = task[t].at /\ r.gaveUp /\ r.refused = task[t].refused
    BY <1>1, <2>1 DEF TaskType
  <2>4. task' \in [Tasks -> TaskType] /\ \A u \in Tasks : SendOK(task'[u])
    BY <1>1, <2>2, <2>3, OneTask DEF SendOK
  <2>5. PreviewOK'
    BY <1>10, <2>2, <2>3 DEF LateApproval, DrawerDismissed, PreviewOK, Inv, WalletTypeOK
  <2> QED
    BY <1>10, <2>4, <2>5 DEF LateApproval, DrawerDismissed, Inv, WalletTypeOK
<1> QED
  BY <1>3, <1>4, <1>5, <1>6, <1>7, <1>8, <1>9, <1>10 DEF WalletStep

\* The session is there: the preview is this handler's, whoever waited for it before.
LEMMA SessionReadyInv ==
  ASSUME Inv, NEW t \in Tasks, SessionReady(t)
  PROVE  Inv'
<1> DEFINE r == [task[t] EXCEPT !.at = "preview"]
<1>1. task[t] \in TaskType /\ SendOK(task[t]) /\ task[t].at = "session"
  BY DEF SessionReady, Inv, WalletTypeOK
<1>2. r \in TaskType /\ r.at = "preview" /\ SendOK(r)
  BY <1>1 DEF TaskType, Stages, SendOK, Before
<1>3. task' = [task EXCEPT ![t] = r] /\ preview' = t
  BY <1>1 DEF SessionReady, Inv, WalletTypeOK, TaskType
<1>4. task' \in [Tasks -> TaskType] /\ \A u \in Tasks : SendOK(task'[u])
  BY <1>2, <1>3, OneTask
<1>5. PreviewOK'
  BY <1>2, <1>3 DEF PreviewOK, Inv, WalletTypeOK
<1> QED
  BY <1>3, <1>4, <1>5 DEF SessionReady, Inv, WalletTypeOK

\* After the sync a handler goes on with another message, of which nothing is sent
\* and for which no drawer was given up, or it ends.
LEMMA SyncDoneInv ==
  ASSUME Inv, NEW t \in Tasks, SyncDone(t)
  PROVE  Inv'
<1> DEFINE next == [task[t] EXCEPT !.sent = 0, !.left = @ - 1, !.drawer = FALSE, !.gaveUp = FALSE]
           claim == [next EXCEPT !.kind = "claimDrop", !.left = 1, !.by = "repayment"]
<1>1. /\ task[t] \in TaskType /\ SendOK(task[t]) /\ task[t].at = "sync"
      /\ preview \in Tasks \cup {Nobody} /\ pending \in Tasks \cup {Nobody}
  BY DEF SyncDone, Inv, WalletTypeOK
<1>2. preview # Nobody => preview # t /\ task[preview].at \in {"preview", "setup"}
  BY <1>1 DEF Inv, PreviewOK
<1>3. UNCHANGED <<enabling, granted, surprises>>
  BY DEF SyncDone
<1>4. CASE task[t].left = 2 /\ BeginTx(t, next, preview) /\ UNCHANGED <<pending, tried>>
  <2> PICK z \in Nat, n \in 0..2 : z = 0 /\ n = task[t].left - 1
    BY <1>4
  <2> DEFINE r == [task[t] EXCEPT !.sent = z, !.left = n, !.drawer = FALSE, !.gaveUp = FALSE]
  <2>1. next = r
    BY <1>1 DEF TaskType
  <2>2. r \in TaskType /\ r.sent = 0 /\ ~r.refused /\ ~r.drawer
    BY <1>1 DEF TaskType, SendOK
  <2>3. BeginTx(t, r, preview)
    BY <1>4, <2>1
  <2> HIDE DEF r
  <2>4. /\ task' \in [Tasks -> TaskType] /\ \A u \in Tasks : SendOK(task'[u])
        /\ preview' \in Tasks \cup {Nobody} /\ PreviewOK'
    BY <1>1, <1>2, <2>2, <2>3, BeginTxOK
  <2> QED
    BY <1>3, <1>4, <2>4 DEF Inv, WalletTypeOK
<1>5. CASE tried' = TRUE /\ pending' = t /\ BeginTx(t, claim, preview)
  <2> PICK z \in Nat, n \in 0..2 : z = 0 /\ n = 1
    OBVIOUS
  <2> DEFINE r == [task[t] EXCEPT !.sent = z, !.left = n, !.drawer = FALSE, !.gaveUp = FALSE,
                                  !.kind = "claimDrop", !.by = "repayment"]
  <2>1. claim = r
    BY <1>1 DEF TaskType
  <2>2. r \in TaskType /\ r.sent = 0 /\ ~r.refused /\ ~r.drawer
    BY <1>1 DEF TaskType, SendOK, Kinds
  <2>3. BeginTx(t, r, preview)
    BY <1>5, <2>1
  <2> HIDE DEF r
  <2>4. /\ task' \in [Tasks -> TaskType] /\ \A u \in Tasks : SendOK(task'[u])
        /\ preview' \in Tasks \cup {Nobody} /\ PreviewOK'
    BY <1>1, <1>2, <2>2, <2>3, BeginTxOK
  <2> QED
    BY <1>3, <1>5, <2>4 DEF Inv, WalletTypeOK
<1>6. CASE Finish(t, task[t]) /\ UNCHANGED <<preview, tried>>
  <2>1. task' = [task EXCEPT ![t] = Ended(task[t])] /\ pending' \in Tasks \cup {Nobody}
    BY <1>1, <1>6 DEF Finish, ReleaseFlag
  <2>2. Ended(task[t]) \in TaskType /\ SendOK(Ended(task[t]))
    BY <1>1, EndedOK
  <2> QED
    BY <1>1, <1>3, <1>6, <2>1, <2>2, StepOf
<1> QED
  BY <1>4, <1>5, <1>6 DEF SyncDone

\* A slot before its first handler.
LEMMA FreshOK ==
  /\ Fresh \in TaskType /\ Fresh.at = "idle" /\ Fresh.sent = 0
  /\ ~Fresh.refused /\ ~Fresh.drawer /\ ~Fresh.gaveUp
<1>1. PICK n \in 0..2, z \in Nat : n = 1 /\ z = 0
  OBVIOUS
<1>2. Fresh = [kind |-> "action", at |-> "idle", auto |-> FALSE, left |-> n, sent |-> z,
               drawer |-> FALSE, by |-> "user", gaveUp |-> FALSE, refused |-> FALSE, old |-> FALSE]
  BY <1>1 DEF Fresh
<1>3. Fresh \in TaskType
  BY <1>2 DEF TaskType, Kinds, Stages
<1> QED
  BY <1>3 DEF Fresh

\* A handler that starts.
LEMMA StartedOK ==
  ASSUME granted \in BOOLEAN, NEW kind \in Kinds
  PROVE  \E s \in TaskType : /\ s = Started(kind) /\ s.sent = 0
                             /\ ~s.refused /\ ~s.drawer /\ ~s.gaveUp
<1>1. PICK n \in 0..2 : n = IF kind = "claimAll" THEN 2 ELSE 1
  OBVIOUS
<1>2. Started(kind) = [Fresh EXCEPT !.kind = kind, !.auto = granted, !.left = n]
  BY <1>1 DEF Started
<1>3. /\ Started(kind) \in TaskType /\ Started(kind).sent = 0
      /\ ~Started(kind).refused /\ ~Started(kind).drawer /\ ~Started(kind).gaveUp
  BY ZenonT(40), <1>2, FreshOK DEF TaskType
<1> QED
  BY <1>3

\* A handler takes a slot in which none runs, at a stage before its broadcast.
LEMMA SlotTaken ==
  ASSUME Inv, NEW t \in NextTask, NEW r \in TaskType,
         r.sent = 0, ~r.refused, ~r.drawer, ~r.gaveUp,
         r.at \in {"session", "preview", "enabling"},
         task' = [task EXCEPT ![t] = r],
         preview' = preview \/ (preview' = t /\ r.at = "preview"),
         pending' \in Tasks \cup {Nobody},
         UNCHANGED <<enabling, granted, tried, surprises>>
  PROVE  Inv'
<1>1. t \in Tasks /\ task[t].at \in {"idle", "done"}
  BY DEF NextTask, Running
<1>2. SendOK(r)
  BY DEF SendOK
<1>3. task' \in [Tasks -> TaskType] /\ \A u \in Tasks : SendOK(task'[u])
  BY <1>1, <1>2, OneTask
<1>4. PreviewOK' /\ preview' \in Tasks \cup {Nobody}
  <2>1. CASE preview' = preview
    BY <1>1, <2>1, PreviewKept DEF Inv, WalletTypeOK
  <2>2. CASE preview' = t /\ r.at = "preview"
    BY <1>1, <2>2 DEF PreviewOK, Inv, WalletTypeOK
  <2> QED
    BY <2>1, <2>2
<1> QED
  BY <1>3, <1>4 DEF Inv, WalletTypeOK

\* The same for a handler as Started describes it.
LEMMA StartInv ==
  ASSUME Inv, NEW t \in NextTask, NEW kind \in Kinds, NEW a \in {"session", "preview", "enabling"},
         task' = [task EXCEPT ![t] = [Started(kind) EXCEPT !.at = a]],
         preview' = preview \/ (preview' = t /\ a = "preview"),
         pending' \in Tasks \cup {Nobody},
         UNCHANGED <<enabling, granted, tried, surprises>>
  PROVE  Inv'
<1> PICK s \in TaskType : s = Started(kind) /\ s.sent = 0 /\ ~s.refused /\ ~s.drawer /\ ~s.gaveUp
  BY StartedOK DEF Inv, WalletTypeOK
<1> DEFINE r == [s EXCEPT !.at = a]
<1>1. r \in TaskType /\ r.sent = 0 /\ ~r.refused /\ ~r.drawer /\ ~r.gaveUp /\ r.at = a
  BY DEF TaskType, Stages
<1>2. task' = [task EXCEPT ![t] = r]
  OBVIOUS
<1> HIDE DEF r
<1> QED
  BY <1>1, <1>2, SlotTaken

\* The bridge starts as the last message of claimAll, and holds the flag.
LEMMA BridgeInv ==
  ASSUME Inv, NEW t \in NextTask, PressBridge(t)
  PROVE  Inv'
<1> PICK s \in TaskType : /\ s = Started("claimAll") /\ s.sent = 0
                           /\ ~s.refused /\ ~s.drawer /\ ~s.gaveUp
  BY StartedOK DEF Kinds, Inv, WalletTypeOK
<1> DEFINE r == [s EXCEPT !.at = "preview", !.left = 1]
<1>1. r \in TaskType /\ r.sent = 0 /\ ~r.refused /\ ~r.drawer /\ ~r.gaveUp /\ r.at = "preview"
  <2>1. 1 \in 0..2 /\ "preview" \in Stages
    BY DEF Stages
  <2> QED
    BY <2>1 DEF TaskType
<1>2. task' = [task EXCEPT ![t] = r] /\ preview' = t
  BY DEF PressBridge
<1>3. pending' \in Tasks \cup {Nobody}
  BY DEF PressBridge, NextTask
<1>4. UNCHANGED <<enabling, granted, tried, surprises>>
  BY DEF PressBridge
<1> HIDE DEF r
<1> QED
  BY <1>1, <1>2, <1>3, <1>4, SlotTaken

\* The buttons.
LEMMA PressInv ==
  ASSUME Inv, NEW t \in NextTask, NEW kind \in Kinds,
         \/ PressAction(t, kind) \/ PressFlow(t, kind)
         \/ PressEnable(t) \/ PressBuy(t) \/ PressBridge(t)
  PROVE  Inv'
<1>1. t \in Tasks /\ pending \in Tasks \cup {Nobody} /\ {"enable", "request"} \subseteq Kinds
  BY DEF NextTask, Inv, WalletTypeOK, Kinds
<1>2. CASE PressAction(t, kind)
  BY <1>1, <1>2, StartInv DEF PressAction
<1>3. CASE PressFlow(t, kind)
  BY <1>1, <1>3, StartInv DEF PressFlow
<1>4. CASE PressEnable(t)
  BY <1>1, <1>4, StartInv DEF PressEnable
<1>5. CASE PressBuy(t)
  BY <1>1, <1>5, StartInv DEF PressBuy
<1>6. CASE PressBridge(t)
  BY <1>6, BridgeInv
<1> QED
  BY <1>2, <1>3, <1>4, <1>5, <1>6

\* The claim that the page starts.
LEMMA AutoClaimInv ==
  ASSUME Inv, NEW t \in NextTask, AutoClaim(t)
  PROVE  Inv'
<1> PICK s \in TaskType : /\ s = Started("claimDrop") /\ s.sent = 0
                           /\ ~s.refused /\ ~s.drawer /\ ~s.gaveUp
  BY StartedOK DEF Kinds, Inv, WalletTypeOK
<1> DEFINE rec == [s EXCEPT !.by = "effect"]
<1>1. t \in Tasks /\ task[t].at \in {"idle", "done"} /\ preview \in Tasks \cup {Nobody}
  BY DEF NextTask, Running, Inv, WalletTypeOK
<1>2. rec \in TaskType /\ rec.sent = 0 /\ ~rec.refused /\ ~rec.drawer
  BY DEF TaskType
<1>3. preview # Nobody => preview # t /\ task[preview].at \in {"preview", "setup"}
  BY <1>1 DEF Inv, PreviewOK
<1>4. BeginTx(t, rec, preview)
  BY DEF AutoClaim
<1> HIDE DEF rec
<1>5. /\ task' \in [Tasks -> TaskType] /\ \A u \in Tasks : SendOK(task'[u])
      /\ preview' \in Tasks \cup {Nobody} /\ PreviewOK'
  BY <1>1, <1>2, <1>3, <1>4, BeginTxOK
<1> QED
  BY <1>1, <1>5 DEF AutoClaim, Inv, WalletTypeOK

-----------------------------------------------------------------------------
(* The preview and the auto-sign session.                                   *)

\* The handler of the confirmed preview goes on with nothing sent.
LEMMA ConfirmInv ==
  ASSUME Inv, Confirm
  PROVE  Inv'
<1> PICK t \in Tasks : t = preview
  BY DEF Confirm, Inv, WalletTypeOK
<1>1. task[t] \in TaskType /\ SendOK(task[t]) /\ task[t].at \in {"preview", "setup"}
      /\ pending \in Tasks \cup {Nobody}
  BY DEF Confirm, Inv, PreviewOK, WalletTypeOK
<1>2. CASE /\ BeginTx(t, task[t], Nobody) /\ UNCHANGED enabling
           /\ pending' = IF UsesPending(task[t].kind) THEN t ELSE pending
  <2>1. ~task[t].refused /\ (task[t].gaveUp \/ (task[t].sent = 0 /\ ~task[t].drawer))
    BY <1>1 DEF SendOK, Before, TaskType
  <2>2. /\ task' \in [Tasks -> TaskType] /\ \A u \in Tasks : SendOK(task'[u])
        /\ preview' \in Tasks \cup {Nobody} /\ PreviewOK'
    BY <1>1, <1>2, <2>1, BeginTxOK
  <2> QED
    BY <1>1, <1>2, <2>2 DEF Confirm, Inv, WalletTypeOK
<1>3. CASE /\ preview' = Nobody /\ enabling' = t
           /\ task' = [task EXCEPT ![t].at = "enabling"] /\ UNCHANGED pending
  <2> DEFINE r == [task[t] EXCEPT !.at = "enabling"]
  <2>1. task' = [task EXCEPT ![t] = r]
    BY <1>1, <1>3 DEF Inv, WalletTypeOK, TaskType
  <2>2. r \in TaskType /\ SendOK(r)
    BY <1>1 DEF TaskType, Stages, SendOK, Before
  <2>3. task' \in [Tasks -> TaskType] /\ \A u \in Tasks : SendOK(task'[u])
    BY <2>1, <2>2, OneTask
  <2> QED
    BY <1>3, <2>3 DEF Confirm, Inv, WalletTypeOK, PreviewOK
<1> QED
  BY <1>2, <1>3 DEF Confirm

\* What a cancelled preview leaves, for the handlers, with the mark of a reconnection
\* or without.
LEMMA CancelInv ==
  ASSUME Inv, Cancel \/ Reconnect
  PROVE  Inv'
<1>1. \A t \in Tasks : task[t] \in TaskType /\ SendOK(task[t])
  BY DEF Inv, WalletTypeOK
<1>2. \A t \in Tasks : Cancelled(t) \in TaskType /\ SendOK(Cancelled(t))
  BY <1>1, EndedOK, WalletTxAssumption DEF Cancelled, Inv, PreviewOK
<1>3. preview' = Nobody /\ pending' \in Tasks \cup {Nobody}
  BY DEF Cancel, Reconnect, ReleaseCancelled, Inv, WalletTypeOK
<1>4. CASE Cancel
  <2>1. task' = [t \in Tasks |-> Cancelled(t)]
    BY <1>4 DEF Cancel
  <2> QED
    BY <1>2, <1>3, <1>4, <2>1 DEF Cancel, Inv, WalletTypeOK, PreviewOK
<1>5. CASE Reconnect
  <2>1. task' = [t \in Tasks |-> [Cancelled(t) EXCEPT !.old = Running(t)]]
    BY <1>5 DEF Reconnect
  <2>2. ASSUME NEW t \in Tasks
        PROVE  task'[t] \in TaskType /\ SendOK(task'[t])
    <3>1. Running(t) \in BOOLEAN
      BY DEF Running
    <3>2. [Cancelled(t) EXCEPT !.old = Running(t)] \in TaskType
      BY <1>2, <3>1 DEF TaskType
    <3> QED
      BY <1>2, <2>1, <3>1, <3>2 DEF SendOK, Before, TaskType
  <2>3. surprises' \in 0..MaxSurprises /\ tried' \in BOOLEAN
    BY <1>5, WalletTxAssumption DEF Reconnect, Surprise, Inv, WalletTypeOK
  <2> QED
    BY <1>3, <1>5, <2>1, <2>2, <2>3 DEF Reconnect, Inv, WalletTypeOK, PreviewOK
<1> QED
  BY <1>4, <1>5

\* All that waited for auto-sign goes to the wallet with nothing sent, or ends.
LEMMA EnableInv ==
  ASSUME Inv, EnableSucceeds \/ EnableFails
  PROVE  Inv'
<1>1. ASSUME NEW t \in Tasks
      PROVE  /\ task[t] \in TaskType /\ SendOK(task[t])
             /\ t \in Enabling => Ended(task[t]) \in TaskType /\ SendOK(Ended(task[t]))
             /\ t \in Enabling => /\ [task[t] EXCEPT !.at = "services"] \in TaskType
                                  /\ SendOK([task[t] EXCEPT !.at = "services"])
  <2>1. task[t] \in TaskType /\ SendOK(task[t])
    BY DEF Inv, WalletTypeOK
  <2>2. t \in Enabling => task[t].at = "enabling"
    BY DEF Enabling
  <2>3. [task[t] EXCEPT !.at = "services"] \in TaskType
    BY <2>1 DEF TaskType, Stages
  <2>4. t \in Enabling => SendOK([task[t] EXCEPT !.at = "services"])
    BY <2>1, <2>2 DEF TaskType, SendOK, Before
  <2> QED
    BY <2>1, <2>2, <2>3, <2>4, EndedOK
<1>2. /\ task' \in [Tasks -> TaskType] /\ \A t \in Tasks : SendOK(task'[t])
      /\ \A t \in Tasks \ Enabling : task'[t] = task[t]
  BY <1>1 DEF EnableSucceeds, EnableFails
<1>3. PreviewOK'
  BY <1>2 DEF EnableSucceeds, EnableFails, Enabling, PreviewOK, Inv, WalletTypeOK
<1>4. granted' \in BOOLEAN
  BY DEF EnableSucceeds, EnableFails, Inv, WalletTypeOK
<1>5. pending' \in Tasks \cup {Nobody} /\ enabling' = Nobody
  BY DEF EnableSucceeds, EnableFails, Inv, WalletTypeOK
<1> QED
  BY <1>2, <1>3, <1>4, <1>5 DEF EnableSucceeds, EnableFails, Inv, WalletTypeOK

\* What happens around the handlers leaves them alone.
LEMMA AroundInv ==
  ASSUME Inv, Refresh \/ Expire \/ UNCHANGED vars
  PROVE  Inv'
<1>1. task' = task /\ preview' = preview /\ pending' = pending /\ enabling' = enabling
      /\ {granted', tried'} \subseteq BOOLEAN
  BY DEF Refresh, Expire, vars, Inv, WalletTypeOK
<1>2. surprises' \in 0..MaxSurprises
  BY WalletTxAssumption DEF Refresh, Expire, Surprise, vars, Inv, WalletTypeOK
<1> QED
  BY <1>1, <1>2 DEF Inv, WalletTypeOK, PreviewOK

-----------------------------------------------------------------------------
(* The theorem.                                                             *)

\* The loaded page, on which no handler has started.
LEMMA InitInv == Init => Inv
<1> SUFFICES ASSUME Init PROVE Inv
  OBVIOUS
<1>1. \A t \in Tasks : task[t] \in TaskType /\ SendOK(task[t])
  BY FreshOK DEF Init, SendOK
<1>2. task \in [Tasks -> TaskType]
  BY FreshOK DEF Init
<1>3. surprises \in 0..MaxSurprises
  BY WalletTxAssumption DEF Init
<1>4. {preview, pending, enabling} \subseteq Tasks \cup {Nobody}
  BY DEF Init
<1>5. {granted, tried} \subseteq BOOLEAN
  BY DEF Init
<1> QED
  BY <1>1, <1>2, <1>3, <1>4, <1>5 DEF Init, Inv, WalletTypeOK, PreviewOK

\* Every step keeps the invariant.
LEMMA NextInv == Inv /\ [Next]_vars => Inv'
<1> SUFFICES ASSUME Inv, [Next]_vars
             PROVE  Inv'
  OBVIOUS
<1>1. ASSUME NEW t \in Tasks, WalletStep(t) \/ HandlerStep(t)
      PROVE  Inv'
  BY <1>1, WalletSteps, SessionReadyInv, SyncDoneInv DEF HandlerStep
<1>2. ASSUME NEW t \in NextTask,
             \/ \E kind \in Kinds : PressAction(t, kind) \/ PressFlow(t, kind)
             \/ PressEnable(t) \/ PressBuy(t) \/ PressBridge(t) \/ AutoClaim(t)
      PROVE  Inv'
  BY <1>2, PressInv, AutoClaimInv DEF Kinds
<1>3. CASE Confirm \/ Cancel \/ EnableSucceeds \/ EnableFails \/ Reconnect
  BY <1>3, ConfirmInv, CancelInv, EnableInv
<1>4. CASE Refresh \/ Expire \/ UNCHANGED vars
  BY <1>4, AroundInv
<1> QED
  BY <1>1, <1>2, <1>3, <1>4 DEF Next

\* For any number of handlers beside each other: a confirmed message reaches the chain
\* once, and not at all once the user has rejected it, unless the wallet drawer was
\* given up for a direct submission while it could still be approved.
THEOREM SentOnceAlways == Spec => []SentOnce
<1>1. Init => Inv
  BY InitInv
<1>2. Inv /\ [Next]_vars => Inv'
  BY NextInv
<1>3. Inv => SentOnce
  BY InvSentOnce
<1> QED
  BY <1>1, <1>2, <1>3, PTL DEF Spec

-----------------------------------------------------------------------------
(* Claims that overlap.  Of the claims that the page started by itself, and  *)
(* over whose start the account was not reconnected, there is one at a time: *)
(* while it runs the purchase is remembered as tried, because only a         *)
(* reconnection forgets it, and that makes the running claim an old one.     *)

Goes(r) == r.at \notin {"idle", "done"} /\ r.by = "effect" /\ ~r.old
EffectClaims == {t \in Tasks : Goes(task[t])}

OneEffectClaim ==
  /\ EffectClaims # {} => tried
  /\ \A t, u \in EffectClaims : t = u

\* No handler becomes such a claim.
NoneBegins == \A t \in Tasks : Goes(task'[t]) => Goes(task[t])

LEMMA OneBecomes ==
  ASSUME Inv, NEW t \in Tasks, NEW r, task' = [task EXCEPT ![t] = r],
         Goes(r) => Goes(task[t])
  PROVE  NoneBegins
BY DEF NoneBegins, Inv, WalletTypeOK

LEMMA EndedRests == ASSUME NEW r PROVE ~Goes(Ended(r))
BY DEF Goes, Ended

\* Wherever a handler goes with its transaction, it is the claim it was.
LEMMA BeginTxGoes ==
  ASSUME Inv, NEW t \in Tasks, NEW rec \in TaskType, NEW open, BeginTx(t, rec, open),
         rec.by = "effect" /\ ~rec.old => Goes(task[t])
  PROVE  NoneBegins
<1>1. PICK stage \in Stages : task' = [task EXCEPT ![t] = [rec EXCEPT !.at = stage]]
  BY Zenon DEF BeginTx, Stages
<1>2. Goes([rec EXCEPT !.at = stage]) => rec.by = "effect" /\ ~rec.old
  BY DEF Goes, TaskType
<1> QED
  BY <1>1, <1>2, OneBecomes

LEMMA WalletBeginsNone ==
  ASSUME Inv, NEW t \in Tasks,
         WalletStep(t) \/ ServicesReady(t) \/ ServicesDown(t)
           \/ SessionReady(t) \/ SessionFails(t) \/ SyncFails(t)
  PROVE  NoneBegins /\ tried' = tried
<1>0. task \in [Tasks -> TaskType] /\ task[t] \in TaskType
  BY DEF Inv, WalletTypeOK
<1>1. tried' = tried
  BY DEF WalletStep, Broadcast, Refuse, DrawerTimesOut, DrawerFails, DirectFails,
         LateApproval, DrawerDismissed, ServicesReady, ServicesDown, SessionReady,
         SessionFails, SyncFails
<1>2. CASE \/ Refuse(t) \/ DirectFails(t) \/ ServicesDown(t)
           \/ SessionFails(t) \/ SyncFails(t)
  <2>1. PICK r : task' = [task EXCEPT ![t] = Ended(r)]
    BY <1>2 DEF Refuse, DirectFails, ServicesDown, SessionFails, SyncFails, Finish
  <2> QED
    BY <1>1, <2>1, OneBecomes, EndedRests
<1>3. CASE \/ Broadcast(t) \/ DrawerTimesOut(t) \/ DrawerFails(t) \/ LateApproval(t)
           \/ DrawerDismissed(t) \/ ServicesReady(t) \/ SessionReady(t)
  <2>1. /\ \A u \in Tasks : u # t => task'[u] = task[u]
        /\ task'[t].by = task[t].by /\ task'[t].old = task[t].old
        /\ Running(t) \/ task'[t].at = task[t].at
    <3>1. CASE Broadcast(t)
      BY <1>0, <3>1 DEF Broadcast, TaskType, Running
    <3>2. CASE DrawerTimesOut(t)
      BY <1>0, <3>2 DEF DrawerTimesOut, TaskType, Running
    <3>3. CASE DrawerFails(t)
      BY <1>0, <3>3 DEF DrawerFails, TaskType, Running
    <3>4. CASE LateApproval(t) \/ DrawerDismissed(t)
      BY <1>0, <3>4 DEF LateApproval, DrawerDismissed, TaskType
    <3>5. CASE ServicesReady(t)
      BY <1>0, <3>5 DEF ServicesReady, TaskType, Running
    <3>6. CASE SessionReady(t)
      BY <1>0, <3>6 DEF SessionReady, TaskType, Running
    <3> QED
      BY <1>3, <3>1, <3>2, <3>3, <3>4, <3>5, <3>6
  <2> QED
    BY <1>1, <2>1 DEF NoneBegins, Goes, Running
<1> QED
  BY <1>2, <1>3 DEF WalletStep

LEMMA SyncBeginsNone ==
  ASSUME Inv, NEW t \in Tasks, SyncDone(t)
  PROVE  NoneBegins /\ (tried => tried')
<1>0. /\ task[t] \in TaskType /\ task[t].at = "sync"
      /\ Goes(task[t]) <=> task[t].by = "effect" /\ ~task[t].old
  BY DEF SyncDone, Inv, WalletTypeOK, Goes
<1> DEFINE next == [task[t] EXCEPT !.sent = 0, !.left = @ - 1, !.drawer = FALSE, !.gaveUp = FALSE]
           claim == [next EXCEPT !.kind = "claimDrop", !.left = 1, !.by = "repayment"]
<1>1. CASE task[t].left = 2 /\ BeginTx(t, next, preview) /\ UNCHANGED <<pending, tried>>
  <2> PICK z \in Nat, n \in 0..2 : z = 0 /\ n = task[t].left - 1
    BY <1>1
  <2>1. PICK r : r = [task[t] EXCEPT !.sent = z, !.left = n, !.drawer = FALSE, !.gaveUp = FALSE]
    OBVIOUS
  <2>2. r \in TaskType /\ r.by = task[t].by /\ r.old = task[t].old
    BY <1>0, <2>1 DEF TaskType
  <2>3. BeginTx(t, r, preview)
    BY <1>0, <1>1, <2>1 DEF TaskType
  <2> QED
    BY <1>0, <1>1, <2>2, <2>3, BeginTxGoes
<1>2. CASE tried' = TRUE /\ BeginTx(t, claim, preview)
  <2> PICK z \in Nat, n \in 0..2 : z = 0 /\ n = 1
    OBVIOUS
  <2>1. PICK r : r = [task[t] EXCEPT !.sent = z, !.left = n, !.drawer = FALSE, !.gaveUp = FALSE,
                                     !.kind = "claimDrop", !.by = "repayment"]
    OBVIOUS
  <2>2. r \in TaskType /\ r.by # "effect"
    BY <1>0, <2>1 DEF TaskType, Kinds
  <2>3. BeginTx(t, r, preview)
    BY <1>0, <1>2, <2>1 DEF TaskType
  <2> QED
    BY <1>2, <2>2, <2>3, BeginTxGoes
<1>3. CASE Finish(t, task[t]) /\ UNCHANGED tried
  BY <1>3, OneBecomes, EndedRests DEF Finish
<1> QED
  BY <1>1, <1>2, <1>3 DEF SyncDone

LEMMA PressBeginsNone ==
  ASSUME Inv, NEW t \in NextTask, NEW kind \in Kinds,
         \/ PressAction(t, kind) \/ PressFlow(t, kind)
         \/ PressEnable(t) \/ PressBuy(t) \/ PressBridge(t)
  PROVE  NoneBegins /\ tried' = tried
<1>1. t \in Tasks
  BY DEF NextTask
<1>2. tried' = tried
  BY DEF PressAction, PressFlow, PressEnable, PressBuy, PressBridge
<1>3. PICK r : task' = [task EXCEPT ![t] = r] /\ r.by = "user"
  <2>1. ASSUME NEW k, NEW stage
        PROVE  /\ [Started(k) EXCEPT !.at = stage].by = "user"
               /\ [Started(k) EXCEPT !.at = stage, !.left = 1].by = "user"
    BY Zenon DEF Started, Fresh
  <2>2. CASE PressAction(t, kind)
    <3>1. task' = [task EXCEPT ![t] = [Started(kind) EXCEPT !.at = "preview"]]
      BY <2>2 DEF PressAction
    <3> QED
      BY <2>1, <3>1
  <2>3. CASE PressFlow(t, kind)
    <3>1. task' = [task EXCEPT ![t] = [Started(kind) EXCEPT !.at = "session"]]
      BY <2>3 DEF PressFlow
    <3> QED
      BY <2>1, <3>1
  <2>4. CASE PressEnable(t)
    <3>1. task' = [task EXCEPT ![t] = [Started("enable") EXCEPT !.at = "enabling"]]
      BY <2>4 DEF PressEnable
    <3> QED
      BY <2>1, <3>1
  <2>5. CASE PressBuy(t)
    <3>1. task' = [task EXCEPT ![t] = [Started("request") EXCEPT !.at = "preview"]]
      BY <2>5 DEF PressBuy
    <3> QED
      BY <2>1, <3>1
  <2>6. CASE PressBridge(t)
    <3>1. task' = [task EXCEPT ![t] = [Started("claimAll") EXCEPT !.at = "preview", !.left = 1]]
      BY <2>6 DEF PressBridge
    <3> QED
      BY ZenonT(40), <2>1, <3>1
  <2> QED
    BY <2>2, <2>3, <2>4, <2>5, <2>6
<1> QED
  BY <1>1, <1>2, <1>3, OneBecomes DEF Goes

LEMMA SharedBeginsNone ==
  ASSUME Inv, Confirm \/ Cancel \/ EnableSucceeds \/ EnableFails
  PROVE  NoneBegins /\ tried' = tried
<1>0. task \in [Tasks -> TaskType]
  BY DEF Inv, WalletTypeOK
<1>1. tried' = tried
  BY DEF Confirm, Cancel, EnableSucceeds, EnableFails
<1>2. CASE Confirm
  <2> PICK t \in Tasks : t = preview
    BY <1>2 DEF Confirm, Inv, WalletTypeOK
  <2>1. task[t] \in TaskType /\ task[t].at \in {"preview", "setup"}
    BY <1>2 DEF Confirm, Inv, PreviewOK, WalletTypeOK
  <2>2. task[t].by = "effect" /\ ~task[t].old => Goes(task[t])
    BY <2>1 DEF Goes
  <2>3. CASE BeginTx(t, task[t], Nobody)
    BY <1>1, <2>1, <2>2, <2>3, BeginTxGoes
  <2>4. CASE task' = [task EXCEPT ![t].at = "enabling"]
    BY <1>0, <1>1, <2>1, <2>4 DEF NoneBegins, Goes, TaskType
  <2> QED
    BY <1>2, <2>3, <2>4 DEF Confirm
<1>3. CASE Cancel
  BY <1>1, <1>3, EndedRests DEF Cancel, Cancelled, NoneBegins
<1>4. CASE EnableSucceeds \/ EnableFails
  <2>1. ASSUME NEW t \in Tasks, Goes([task[t] EXCEPT !.at = "services"]), t \in Enabling
        PROVE  Goes(task[t])
    BY <1>0, <2>1 DEF Goes, Enabling, TaskType
  <2> QED
    BY <1>1, <1>4, <2>1, EndedRests DEF EnableSucceeds, EnableFails, NoneBegins
<1> QED
  BY <1>2, <1>3, <1>4

\* A step in which no claim begins and nothing is forgotten.
LEMMA EffectClaimKept ==
  ASSUME OneEffectClaim, NoneBegins, tried => tried'
  PROVE  OneEffectClaim'
<1>1. EffectClaims' \subseteq EffectClaims
  BY DEF EffectClaims, NoneBegins
<1> QED
  BY <1>1 DEF OneEffectClaim

\* The one that the effect starts finds none under way.
LEMMA EffectClaimBegins ==
  ASSUME Inv, OneEffectClaim, NEW t \in NextTask, AutoClaim(t)
  PROVE  OneEffectClaim'
<1>1. ~tried /\ tried' = TRUE
  BY DEF AutoClaim, MayAutoClaim
<1>2. EffectClaims = {}
  BY <1>1 DEF OneEffectClaim
<1>3. PICK r : task' = [task EXCEPT ![t] = r]
  BY DEF AutoClaim, BeginTx
<1>4. \A u \in Tasks : u # t => task'[u] = task[u]
  BY <1>3 DEF Inv, WalletTypeOK
<1>5. EffectClaims' \subseteq {t}
  BY <1>2, <1>4 DEF EffectClaims
<1> QED
  BY <1>1, <1>5 DEF OneEffectClaim

\* A reconnection makes all that runs old.
LEMMA EffectClaimsAge ==
  ASSUME Inv, Reconnect
  PROVE  OneEffectClaim'
<1>1. ASSUME NEW t \in Tasks
      PROVE  ~Goes(task'[t])
  <2>1. Cancelled(t) \in TaskType
    BY EndedFields DEF Cancelled, Inv, WalletTypeOK
  <2>2. task'[t] = [Cancelled(t) EXCEPT !.old = Running(t)]
    BY DEF Reconnect
  <2>3. task'[t].old = Running(t) /\ task'[t].at = Cancelled(t).at
    BY <2>1, <2>2 DEF TaskType
  <2>4. Cancelled(t).at = "done" \/ Cancelled(t).at = task[t].at
    BY DEF Cancelled, Ended
  <2> QED
    BY <2>3, <2>4 DEF Goes, Running
<1>2. EffectClaims' = {}
  BY <1>1 DEF EffectClaims
<1> QED
  BY <1>2 DEF OneEffectClaim

LEMMA OneEffectClaimNext ==
  ASSUME Inv, OneEffectClaim, [Next]_vars
  PROVE  OneEffectClaim'
<1>1. ASSUME NEW t \in Tasks, WalletStep(t) \/ HandlerStep(t)
      PROVE  OneEffectClaim'
  BY <1>1, WalletBeginsNone, SyncBeginsNone, EffectClaimKept DEF HandlerStep
<1>2. ASSUME NEW t \in NextTask, NEW kind \in Kinds,
             \/ PressAction(t, kind) \/ PressFlow(t, kind)
             \/ PressEnable(t) \/ PressBuy(t) \/ PressBridge(t)
      PROVE  OneEffectClaim'
  BY <1>2, PressBeginsNone, EffectClaimKept
<1>3. ASSUME NEW t \in NextTask, PressEnable(t) \/ PressBuy(t) \/ PressBridge(t)
      PROVE  OneEffectClaim'
  <2>1. "action" \in Kinds
    BY DEF Kinds
  <2> QED
    BY <1>2, <1>3, <2>1
<1>4. ASSUME NEW t \in NextTask, AutoClaim(t)
      PROVE  OneEffectClaim'
  BY <1>4, EffectClaimBegins
<1>5. CASE Confirm \/ Cancel \/ EnableSucceeds \/ EnableFails
  BY <1>5, SharedBeginsNone, EffectClaimKept
<1>6. CASE Reconnect
  BY <1>6, EffectClaimsAge
<1>7. CASE Refresh \/ Expire \/ UNCHANGED vars
  BY <1>7, EffectClaimKept DEF Refresh, Expire, vars, NoneBegins
<1> QED
  BY <1>1, <1>2, <1>3, <1>4, <1>5, <1>6, <1>7 DEF Next

\* For any number of handlers: where two claims of the collectible are under way,
\* one of them was the user's own or the tail of a repayment, or the account was
\* reconnected since; the page by itself never starts a second one.
THEOREM ClaimsOverlapExplainedAlways == Spec => []ClaimsOverlapExplained
<1>1. Init => Inv /\ OneEffectClaim
  BY InitInv DEF Init, Fresh, OneEffectClaim, EffectClaims, Goes
<1>2. Inv /\ OneEffectClaim /\ [Next]_vars => Inv' /\ OneEffectClaim'
  BY NextInv, OneEffectClaimNext
<1>3. OneEffectClaim => ClaimsOverlapExplained
  <2>1. \A t \in Claiming : t \in Tasks /\ task[t].at \notin {"idle", "done"}
    BY DEF Claiming, InWallet
  <2> QED
    BY <2>1 DEF OneEffectClaim, EffectClaims, Goes, ClaimsOverlapExplained
<1> QED
  BY <1>1, <1>2, <1>3, PTL DEF Spec
-----------------------------------------------------------------------------
(* The flag.  The handler that holds it runs, is of a kind that releases it,  *)
(* and, while a preview that could be cancelled without releasing it is       *)
(* ahead, is the one whose cancellation releases it all the same.             *)

Holds(r) ==
  /\ r.at \notin {"idle", "done"} /\ UsesPending(r.kind)
  /\ r.at \in {"session", "preview"} => r.kind = "claimAll"

FlagHeld == pending # Nobody => Holds(task[pending])

\* One handler moves: the flag stays with another, goes, or is held by this one.
LEMMA FlagMoves ==
  ASSUME Inv, FlagHeld, NEW t \in Tasks, NEW r, task' = [task EXCEPT ![t] = r],
         \/ pending' = Nobody
         \/ pending' = t /\ Holds(r)
         \/ pending' = pending /\ (pending = t => Holds(r))
  PROVE  FlagHeld'
BY WalletTxAssumption DEF FlagHeld, Inv, WalletTypeOK

\* The end of a handler.
LEMMA FinishReleases ==
  ASSUME Inv, FlagHeld, NEW t \in Tasks, NEW r, Finish(t, r)
  PROVE  FlagHeld'
<1>1. task' = [task EXCEPT ![t] = Ended(r)]
  BY DEF Finish
<1>2. pending = t => pending' = Nobody
  BY WalletTxAssumption DEF Finish, ReleaseFlag, FlagHeld, Holds
<1>3. pending' \in {pending, Nobody}
  BY DEF Finish, ReleaseFlag
<1> QED
  BY <1>1, <1>2, <1>3, FlagMoves

\* What a handler may become beyond its preview, as far as the flag goes.
LEMMA BeginTxHolds ==
  ASSUME Inv, NEW t \in Tasks, NEW rec \in TaskType, NEW open, BeginTx(t, rec, open)
  PROVE  \E r : /\ task' = [task EXCEPT ![t] = r]
                /\ UsesPending(rec.kind) => Holds(r)
<1>1. PICK stage \in {"services", "enabling", "setup"} :
        task' = [task EXCEPT ![t] = [rec EXCEPT !.at = stage]]
  BY Zenon DEF BeginTx
<1>2. UsesPending(rec.kind) => Holds([rec EXCEPT !.at = stage])
  BY DEF Holds, TaskType
<1> QED
  BY <1>1, <1>2

LEMMA WalletFlag ==
  ASSUME Inv, FlagHeld, NEW t \in Tasks,
         WalletStep(t) \/ ServicesReady(t) \/ ServicesDown(t)
           \/ SessionReady(t) \/ SessionFails(t) \/ SyncFails(t)
  PROVE  FlagHeld'
<1>0. task \in [Tasks -> TaskType] /\ task[t] \in TaskType
  BY DEF Inv, WalletTypeOK
<1>1. CASE \/ Refuse(t) \/ DirectFails(t) \/ ServicesDown(t)
           \/ SessionFails(t) \/ SyncFails(t)
  <2>1. PICK r : Finish(t, r)
    BY <1>1 DEF Refuse, DirectFails, ServicesDown, SessionFails, SyncFails
  <2> QED
    BY <2>1, FinishReleases
<1>2. CASE \/ Broadcast(t) \/ DrawerTimesOut(t) \/ DrawerFails(t) \/ LateApproval(t)
           \/ DrawerDismissed(t) \/ ServicesReady(t) \/ SessionReady(t)
  <2>1. pending' = pending
    BY <1>2 DEF Broadcast, DrawerTimesOut, DrawerFails, LateApproval, DrawerDismissed,
                ServicesReady, SessionReady
  <2>2. /\ \A u \in Tasks : u # t => task'[u] = task[u]
        /\ task'[t].kind = task[t].kind
        /\ \/ task'[t].at = task[t].at
           \/ task'[t].at \in {"sync", "fallback", "direct", "drawer"}
           \/ task[t].at = "session" /\ task'[t].at = "preview"
    <3>1. CASE Broadcast(t)
      BY <1>0, <3>1 DEF Broadcast, TaskType
    <3>2. CASE DrawerTimesOut(t)
      BY <1>0, <3>2 DEF DrawerTimesOut, TaskType
    <3>3. CASE DrawerFails(t)
      BY <1>0, <3>3 DEF DrawerFails, TaskType
    <3>4. CASE LateApproval(t) \/ DrawerDismissed(t)
      BY <1>0, <3>4 DEF LateApproval, DrawerDismissed, TaskType
    <3>5. CASE ServicesReady(t)
      BY <1>0, <3>5 DEF ServicesReady, TaskType
    <3>6. CASE SessionReady(t)
      BY <1>0, <3>6 DEF SessionReady, TaskType
    <3> QED
      BY <1>2, <3>1, <3>2, <3>3, <3>4, <3>5, <3>6
  <2>3. Holds(task[t]) => Holds(task'[t])
    BY <2>2 DEF Holds
  <2> QED
    BY <2>1, <2>2, <2>3 DEF FlagHeld, Inv, WalletTypeOK
<1> QED
  BY <1>1, <1>2 DEF WalletStep

\* The next message of a handler keeps the flag; a repayment that turns into a claim
\* takes it.
LEMMA SyncFlag ==
  ASSUME Inv, FlagHeld, NEW t \in Tasks, SyncDone(t)
  PROVE  FlagHeld'
<1>0. task[t] \in TaskType /\ task[t].at = "sync"
  BY DEF SyncDone, Inv, WalletTypeOK
<1> DEFINE next == [task[t] EXCEPT !.sent = 0, !.left = @ - 1, !.drawer = FALSE, !.gaveUp = FALSE]
           claim == [next EXCEPT !.kind = "claimDrop", !.left = 1, !.by = "repayment"]
<1>1. CASE task[t].left = 2 /\ BeginTx(t, next, preview) /\ UNCHANGED <<pending, tried>>
  <2> PICK z \in Nat, n \in 0..2 : z = 0 /\ n = task[t].left - 1
    BY <1>1
  <2>1. PICK r : r = [task[t] EXCEPT !.sent = z, !.left = n, !.drawer = FALSE, !.gaveUp = FALSE]
    OBVIOUS
  <2>2. r \in TaskType /\ r.kind = task[t].kind
    BY <1>0, <2>1 DEF TaskType
  <2>3. BeginTx(t, r, preview)
    BY <1>0, <1>1, <2>1 DEF TaskType
  <2>4. PICK s : task' = [task EXCEPT ![t] = s] /\ (UsesPending(r.kind) => Holds(s))
    BY <2>2, <2>3, BeginTxHolds
  <2>5. pending = t => UsesPending(r.kind)
    BY <2>2, WalletTxAssumption DEF FlagHeld, Holds
  <2> QED
    BY <1>1, <2>4, <2>5, FlagMoves
<1>2. CASE pending' = t /\ BeginTx(t, claim, preview)
  <2> PICK z \in Nat, n \in 0..2 : z = 0 /\ n = 1
    OBVIOUS
  <2>1. PICK r : r = [task[t] EXCEPT !.sent = z, !.left = n, !.drawer = FALSE, !.gaveUp = FALSE,
                                     !.kind = "claimDrop", !.by = "repayment"]
    OBVIOUS
  <2>2. r \in TaskType /\ UsesPending(r.kind)
    BY <1>0, <2>1 DEF TaskType, Kinds, UsesPending
  <2>3. BeginTx(t, r, preview)
    BY <1>0, <1>2, <2>1 DEF TaskType
  <2>4. PICK s : task' = [task EXCEPT ![t] = s] /\ Holds(s)
    BY <2>2, <2>3, BeginTxHolds
  <2> QED
    BY <1>2, <2>4, FlagMoves
<1>3. CASE Finish(t, task[t])
  BY <1>3, FinishReleases
<1> QED
  BY <1>1, <1>2, <1>3 DEF SyncDone

\* The buttons.  A handler that takes the flag before its preview is of the kind that
\* releases it when that is cancelled.
LEMMA PressFlag ==
  ASSUME Inv, FlagHeld, NEW t \in NextTask, NEW kind \in Kinds,
         \/ PressAction(t, kind) \/ PressFlow(t, kind)
         \/ PressEnable(t) \/ PressBuy(t) \/ PressBridge(t)
  PROVE  FlagHeld'
<1>1. t \in Tasks /\ pending # t
  BY WalletTxAssumption DEF NextTask, Running, FlagHeld, Holds
<1>2. CASE PressAction(t, kind) \/ PressEnable(t) \/ PressBuy(t)
  <2>1. pending' = pending /\ \E r : task' = [task EXCEPT ![t] = r]
    BY <1>2 DEF PressAction, PressEnable, PressBuy
  <2> QED
    BY <1>1, <2>1, FlagMoves
<1>3. ASSUME NEW k, NEW stage \in {"session", "preview"}, k = "claimAll"
      PROVE  /\ Holds([Started(k) EXCEPT !.at = stage])
             /\ Holds([Started(k) EXCEPT !.at = stage, !.left = 1])
  BY <1>3 DEF Holds, Started, Fresh, UsesPending
<1>4. CASE PressFlow(t, kind)
  <2>1. task' = [task EXCEPT ![t] = [Started(kind) EXCEPT !.at = "session"]]
    BY <1>4 DEF PressFlow
  <2>2. pending' = pending \/ (pending' = t /\ kind = "claimAll")
    BY <1>4 DEF PressFlow, UsesPending
  <2> QED
    BY <1>1, <1>3, <2>1, <2>2, FlagMoves
<1>5. CASE PressBridge(t)
  <2>1. /\ task' = [task EXCEPT ![t] = [Started("claimAll") EXCEPT !.at = "preview", !.left = 1]]
        /\ pending' = t
    BY <1>5 DEF PressBridge
  <2> QED
    BY <1>1, <1>3, <2>1, FlagMoves
<1> QED
  BY <1>2, <1>4, <1>5

LEMMA AutoClaimFlag ==
  ASSUME Inv, FlagHeld, NEW t \in NextTask, AutoClaim(t)
  PROVE  FlagHeld'
<1> PICK s \in TaskType : /\ s = Started("claimDrop") /\ s.sent = 0
                           /\ ~s.refused /\ ~s.drawer /\ ~s.gaveUp
  BY StartedOK DEF Kinds, Inv, WalletTypeOK
<1> PICK rec : rec = [s EXCEPT !.by = "effect"]
  OBVIOUS
<1>1. rec \in TaskType /\ UsesPending(rec.kind)
  BY DEF TaskType, UsesPending, Started, Fresh
<1>2. t \in Tasks /\ pending' = t /\ BeginTx(t, rec, preview)
  BY DEF AutoClaim, NextTask
<1>3. PICK r : task' = [task EXCEPT ![t] = r] /\ Holds(r)
  BY <1>1, <1>2, BeginTxHolds
<1> QED
  BY <1>2, <1>3, FlagMoves

\* The preview is confirmed: its handler takes the flag, unless it never will, in
\* which case the flag is not its own.
LEMMA ConfirmFlag ==
  ASSUME Inv, FlagHeld, Confirm
  PROVE  FlagHeld'
<1> PICK t \in Tasks : t = preview
  BY DEF Confirm, Inv, WalletTypeOK
<1>1. task[t] \in TaskType /\ task \in [Tasks -> TaskType]
      /\ task[t].at \in {"preview", "setup"}
  BY DEF Confirm, Inv, PreviewOK, WalletTypeOK
<1>2. pending = t => UsesPending(task[t].kind)
  BY WalletTxAssumption DEF FlagHeld, Holds
<1>3. CASE /\ BeginTx(t, task[t], Nobody)
           /\ pending' = IF UsesPending(task[t].kind) THEN t ELSE pending
  <2>1. PICK r : task' = [task EXCEPT ![t] = r] /\ (UsesPending(task[t].kind) => Holds(r))
    BY <1>1, <1>3, BeginTxHolds
  <2> QED
    BY <1>2, <1>3, <2>1, FlagMoves
<1>4. CASE task' = [task EXCEPT ![t].at = "enabling"] /\ UNCHANGED pending
  <2>1. PICK r : r = [task[t] EXCEPT !.at = "enabling"]
    OBVIOUS
  <2>2. task' = [task EXCEPT ![t] = r] /\ (UsesPending(task[t].kind) => Holds(r))
    BY <1>1, <1>4, <2>1 DEF TaskType, Holds
  <2> QED
    BY <1>2, <1>4, <2>2, FlagMoves
<1> QED
  BY <1>3, <1>4 DEF Confirm

\* A preview is cancelled: had its handler the flag, it is released.
LEMMA CancelFlag ==
  ASSUME Inv, FlagHeld, Cancel \/ Reconnect
  PROVE  FlagHeld'
<1>1. pending' # Nobody => pending' = pending /\ pending # preview
  BY DEF Cancel, Reconnect, ReleaseCancelled, FlagHeld, Holds, Inv, PreviewOK
<1>2. SUFFICES ASSUME pending' # Nobody PROVE Holds(task'[pending])
  BY <1>1 DEF FlagHeld
<1>3. pending \in Tasks /\ Cancelled(pending) = task[pending] /\ task[pending] \in TaskType
  BY <1>1, <1>2 DEF Inv, WalletTypeOK, Cancelled
<1>4. task'[pending].at = task[pending].at /\ task'[pending].kind = task[pending].kind
  <2>1. CASE Cancel
    BY <1>3, <2>1 DEF Cancel
  <2>2. CASE Reconnect
    <3>1. task'[pending] = [task[pending] EXCEPT !.old = Running(pending)]
      BY <1>3, <2>2 DEF Reconnect
    <3> QED
      BY <1>3, <3>1 DEF TaskType
  <2> QED
    BY <2>1, <2>2
<1> QED
  BY <1>1, <1>2, <1>4 DEF FlagHeld, Holds

\* The one who joined the request for auto-sign with the flag goes on with it, or ends
\* together with the others and the flag.
LEMMA EnableFlag ==
  ASSUME Inv, FlagHeld, EnableSucceeds \/ EnableFails
  PROVE  FlagHeld'
<1>1. pending' = pending \/ pending' = Nobody
  BY DEF EnableSucceeds, EnableFails
<1>2. SUFFICES ASSUME pending' = pending, pending # Nobody PROVE Holds(task'[pending])
  BY <1>1 DEF FlagHeld
<1>3. pending \in Tasks /\ task[pending] \in TaskType /\ Holds(task[pending])
  BY <1>2 DEF Inv, WalletTypeOK, FlagHeld
<1>4. CASE EnableSucceeds
  <2>1. task[pending].kind # "enable"
    BY <1>3 DEF Holds, UsesPending
  <2>2. task'[pending] \in {task[pending], [task[pending] EXCEPT !.at = "services"]}
    BY <1>3, <1>4, <2>1 DEF EnableSucceeds
  <2> QED
    BY <1>3, <2>2 DEF Holds, TaskType
<1>5. CASE EnableFails
  <2>1. pending \notin Enabling
    BY <1>2, <1>3, <1>5 DEF EnableFails, Holds
  <2> QED
    BY <1>3, <1>5, <2>1 DEF EnableFails
<1> QED
  BY <1>4, <1>5

LEMMA FlagHeldNext ==
  ASSUME Inv, FlagHeld, [Next]_vars
  PROVE  FlagHeld'
<1>1. ASSUME NEW t \in Tasks, WalletStep(t) \/ HandlerStep(t)
      PROVE  FlagHeld'
  BY <1>1, WalletFlag, SyncFlag DEF HandlerStep
<1>2. ASSUME NEW t \in NextTask,
             \/ \E kind \in Kinds : PressAction(t, kind) \/ PressFlow(t, kind)
             \/ PressEnable(t) \/ PressBuy(t) \/ PressBridge(t) \/ AutoClaim(t)
      PROVE  FlagHeld'
  BY <1>2, PressFlag, AutoClaimFlag DEF Kinds
<1>3. CASE Confirm \/ Cancel \/ EnableSucceeds \/ EnableFails \/ Reconnect
  BY <1>3, ConfirmFlag, CancelFlag, EnableFlag
<1>4. CASE Refresh \/ Expire \/ UNCHANGED vars
  BY <1>4 DEF Refresh, Expire, vars, FlagHeld
<1> QED
  BY <1>1, <1>2, <1>3, <1>4 DEF Next

\* For any number of handlers: as long as pendingProtocolAction is set, the handler
\* that set it last is running, so that whatever ends that one clears it; the buttons
\* and effects it disables are never disabled for good by a handler that is gone.
THEOREM PendingHeldAlways == Spec => []PendingHeld
<1>1. Init => Inv /\ FlagHeld
  BY InitInv DEF Init, FlagHeld
<1>2. Inv /\ FlagHeld /\ [Next]_vars => Inv' /\ FlagHeld'
  BY NextInv, FlagHeldNext
<1>3. FlagHeld => PendingHeld
  BY DEF FlagHeld, Holds, PendingHeld, Running
<1> QED
  BY <1>1, <1>2, <1>3, PTL DEF Spec

=============================================================================
