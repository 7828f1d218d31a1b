------------------------------- MODULE WalletTx -------------------------------
(***************************************************************************)
(* How the page takes an action of the borrower to the chain: the preview    *)
(* the user confirms, the auto-sign session that may replace the wallet's   *)
(* prompt, the wallet drawer with its 45 seconds and the direct submission  *)
(* that follows it, the sync afterwards, and the claim of a collectible     *)
(* that the page starts by itself (App.tsx, useTxPreview.ts,                *)
(* useAutoSignPermission.ts).                                               *)
(*                                                                          *)
(* Handlers run beside each other and share one preview, one pending flag   *)
(* and one auto-sign request.  The chain is what the handlers that race     *)
(* need of it: one loan about to be repaid, one purchase whose collectible  *)
(* is due once it is.                                                       *)
(***************************************************************************)
EXTENDS Naturals, FiniteSets

CONSTANTS
  Tasks,      \* bound: handlers that can run beside each other
  MaxSurprises, \* bound: expiries, reconnections and background refreshes
  Nobody      \* no handler

ASSUME WalletTxAssumption == Nobody \notin Tasks /\ MaxSurprises \in Nat

VARIABLES
  task,       \* the handlers, one record each
  preview,    \* txPreviewResolverRef: the handler the open preview belongs to
  pending,    \* pendingProtocolAction: the handler that set it last
  enabling,   \* autoSignEnablePromiseRef
  granted,    \* hasActiveAutoSignPermission; autoSignPreferenceEnabled is TRUE: nothing calls its reset
  tried,      \* the purchase is in autoClaimedPurchaseIdsRef
  chain,      \* the loan is repaid, the collectible claimed
  seen,       \* the same as the page shows it; neither, before it has loaded
  surprises   \* of MaxSurprises

vars == <<task, preview, pending, enabling, granted, tried,
          chain, seen, surprises>>

\* action: a button that goes through executeProtocolAction; claimDrop: the same
\* for the collectible; request: handleRequestLoan without, or handleBuyViralDrop with an
\* active loan; repay: handleRepay; claimAll: handleClaimAvailableRewards, and with one
\* message handleOpenLendBridge: the two that set the shared flag before the preview;
\* enable: handleEnableAutoSignSession.
Kinds == {"action", "claimDrop", "request", "repay", "claimAll", "enable"}

Stages == {"idle", "session", "preview", "setup", "enabling", "services", "drawer",
           "direct", "fallback", "sync", "done"}

\* auto: the render that started the handler could auto-sign; left: messages it has
\* yet to send; sent: broadcasts of the current one; drawer: a wallet drawer that
\* may still be approved.  History: by, who started it; gaveUp, the drawer was given
\* up; refused, the user rejected; old, the account was reconnected since.
TaskType ==
  [kind : Kinds, at : Stages, auto : BOOLEAN, left : 0..2, sent : Nat, drawer : BOOLEAN,
   by : {"user", "effect", "repayment"}, gaveUp : BOOLEAN, refused : BOOLEAN, old : BOOLEAN]

Fresh == [kind |-> "action", at |-> "idle", auto |-> FALSE, left |-> 1, sent |-> 0,
          drawer |-> FALSE, by |-> "user", gaveUp |-> FALSE, refused |-> FALSE, old |-> FALSE]

Unloaded == [loaded |-> FALSE, repaid |-> FALSE, claimed |-> FALSE]

Init ==
  /\ task = [t \in Tasks |-> Fresh]
  /\ preview = Nobody /\ pending = Nobody /\ enabling = Nobody
  /\ granted \in BOOLEAN
  /\ tried = FALSE
  /\ chain = [repaid |-> FALSE, claimed |-> FALSE]
  /\ seen = [loaded |-> TRUE, repaid |-> FALSE, claimed |-> FALSE]
  /\ surprises = 0

-----------------------------------------------------------------------------
(* What the page derives.                                                   *)

\* claimableDropPurchase, and no active loan.
Claimable(view) == view.loaded /\ view.repaid /\ ~view.claimed

Running(t) == task[t].at \notin {"idle", "done"}
InWallet(t) == task[t].at \in {"services", "drawer", "direct", "fallback"}

\* The handlers that hold pendingProtocolAction while they run.
UsesPending(kind) == kind \in {"action", "claimDrop", "claimAll"}

\* isProtocolActionPending
IsPending(kind) == pending # Nobody /\ task[pending].kind = kind

-----------------------------------------------------------------------------
(* The buttons.  The cards of the repay page are disabled while their handler *)
(* runs; the bar above each page, with the agent's panel beside it, and what  *)
(* the backend's guide suggests ask less.                                    *)

NoneRuns(kind) == ~\E t \in Tasks : Running(t) /\ task[t].kind = kind

Only(condition, kind) == IF condition THEN {kind} ELSE {}

ClaimCard == Only(Claimable(seen) /\ ~IsPending("claimDrop"), "claimDrop")

LoanBar ==
  Only(Claimable(seen), "claimDrop") \cup Only(~seen.repaid, "repay")
    \cup Only(~granted, "enable")
OverviewBar == Only(~seen.repaid, "repay") \cup Only(~granted, "enable")

\* The cards of the overview.  Whether there are rewards to claim is left open.
OverviewCards ==
  Only(~seen.repaid /\ NoneRuns("repay"), "repay") \cup Only(NoneRuns("claimAll"), "claimAll")
RewardsBar == {"claimAll"}

\* resolveAgentGuideAction: whatever key the backend sent, the page's own state decides.
Guide ==
  Only(~seen.repaid, "repay") \cup Only(Claimable(seen), "claimDrop")
    \cup {"claimAll"} \cup Only(NoneRuns("request"), "request")

Offered ==
  ClaimCard \cup OverviewCards \cup LoanBar \cup OverviewBar \cup RewardsBar \cup Guide

\* The shop's dialogue for an item, like the card on the repay page, is disabled
\* only while that item is being bought, and does not ask for a loan.
BuyDialogue == Only(NoneRuns("request"), "request")

\* requestBlockingMessage: no request beside an active loan.
RequestBlocked == ~seen.repaid

-----------------------------------------------------------------------------
(* requestWalletTx                                                          *)

\* ensureAutoSignPermission: the handler counts on auto-sign, which has run out.
AsksAgain(rec) == rec.auto /\ ~granted

\* From the confirmation to the wallet, when preview open stays on the screen: a
\* handler that counts on auto-sign and finds it expired waits for the request
\* under way, or makes one, which opens a preview of its own.
BeginTx(t, rec, open) ==
  LET asks == AsksAgain(rec) IN
  /\ task' = [task EXCEPT ![t] = [rec EXCEPT !.at =
       IF ~asks THEN "services" ELSE IF enabling # Nobody THEN "enabling" ELSE "setup"]]
  /\ preview' = IF asks /\ enabling = Nobody THEN t ELSE open

\* A handler ends; its finally clears the shared flag, whoever holds it by now.  What
\* it sent stays until another handler takes its place.
Ended(rec) ==
  [rec EXCEPT !.at = "done", !.kind = IF rec.drawer THEN rec.kind ELSE Fresh.kind,
              !.auto = FALSE, !.left = 1, !.by = "user", !.old = FALSE]
ReleaseFlag(t) ==
  pending' = IF UsesPending(task[t].kind) THEN Nobody ELSE pending
Finish(t, rec) ==
  /\ task' = [task EXCEPT ![t] = Ended(rec)]
  /\ ReleaseFlag(t)

\* assertWalletTxServicesReady passed: auto-sign submits directly, anything else
\* opens the drawer.
ServicesReady(t) ==
  /\ task[t].at = "services"
  /\ task' = [task EXCEPT ![t] = IF @.auto THEN [@ EXCEPT !.at = "direct"]
                                 ELSE [@ EXCEPT !.at = "drawer", !.drawer = TRUE]]
  /\ UNCHANGED <<preview, pending, enabling, granted, tried, chain, seen, surprises>>

ServicesDown(t) ==
  /\ task[t].at = "services"
  /\ Finish(t, task[t])
  /\ UNCHANGED <<preview, enabling, granted, tried, chain, seen, surprises>>

\* What a broadcast of the handler's message does on the chain; a claim that comes
\* too late or twice aborts there.
OnChain(kind) ==
  [repaid |-> chain.repaid \/ kind = "repay",
   claimed |-> chain.claimed \/ (kind = "claimDrop" /\ chain.repaid)]

\* The user approves in the drawer, or the direct submission goes through.
Broadcast(t) ==
  /\ task[t].at \in {"drawer", "direct", "fallback"}
  /\ task' = [task EXCEPT ![t].at = "sync", ![t].sent = @ + 1,
                          ![t].drawer = @ /\ task[t].at # "drawer"]
  /\ chain' = OnChain(task[t].kind)
  /\ UNCHANGED <<preview, pending, enabling, granted, tried, seen, surprises>>

\* Fault: a rejection is taken for one more failure of the drawer.
RefuseThenDirect(t) ==
  /\ task[t].at \in {"drawer", "direct", "fallback"}
  /\ task' = [task EXCEPT ![t].at = "fallback", ![t].refused = TRUE, ![t].drawer = FALSE]
  /\ UNCHANGED <<preview, pending, enabling, granted, tried, chain,
                 seen, surprises>>

\* The user rejects: no other way is tried.
Refuse(t) ==
  /\ task[t].at \in {"drawer", "direct", "fallback"}
  /\ Finish(t, [task[t] EXCEPT !.refused = TRUE,
                               !.drawer = @ /\ task[t].at # "drawer"])
  /\ UNCHANGED <<preview, enabling, granted, tried, chain, seen, surprises>>

\* 45 seconds went by.  The drawer stays open, the same messages are submitted
\* directly.
DrawerTimesOut(t) ==
  /\ task[t].at = "drawer"
  /\ task' = [task EXCEPT ![t].at = "fallback", ![t].gaveUp = TRUE]
  /\ UNCHANGED <<preview, pending, enabling, granted, tried,
                 chain, seen, surprises>>

\* The drawer fails with an infrastructure error, after the broadcast or before.
DrawerFails(t) ==
  /\ task[t].at = "drawer"
  /\ \E n \in {0, 1} :
       /\ task' = [task EXCEPT ![t].at = "fallback", ![t].gaveUp = TRUE,
                               ![t].drawer = FALSE, ![t].sent = @ + n]
       /\ chain' = IF n = 1 THEN OnChain(task[t].kind) ELSE chain
  /\ UNCHANGED <<preview, pending, enabling, granted, tried,
                 seen, surprises>>

\* A direct submission fails or is not included in 20 seconds; after the drawer has
\* failed as well, the page also offers to reconnect the wallet.
DirectFails(t) ==
  /\ task[t].at \in {"direct", "fallback"}
  /\ \E n \in {0, 1} :
       /\ Finish(t, [task[t] EXCEPT !.sent = @ + n])
       /\ chain' = IF n = 1 THEN OnChain(task[t].kind) ELSE chain
  /\ UNCHANGED <<preview, enabling, granted, tried, seen, surprises>>

\* A drawer the page no longer waits for is approved after all.
LateApproval(t) ==
  /\ task[t].drawer /\ task[t].at # "drawer"
  /\ task' = [task EXCEPT ![t].sent = @ + 1, ![t].drawer = FALSE]
  /\ chain' = OnChain(task[t].kind)
  /\ UNCHANGED <<preview, pending, enabling, granted, tried,
                 seen, surprises>>

\* The page closes a drawer no handler expects any more.
DrawerDismissed(t) ==
  /\ task[t].drawer /\ task[t].at # "drawer"
  /\ task' = [task EXCEPT ![t].drawer = FALSE]
  /\ UNCHANGED <<preview, pending, enabling, granted, tried, chain, seen, surprises>>

-----------------------------------------------------------------------------
(* The preview and the auto-sign session.                                   *)

\* The open preview is confirmed and its handler goes on: to the wallet, or, when
\* the preview was about auto-sign, to enabling it.  executeProtocolAction sets the
\* flag only now.
Confirm ==
  /\ preview # Nobody
  /\ LET t == preview IN
       \/ /\ task[t].at = "preview" /\ task[t].kind # "enable"
          /\ BeginTx(t, task[t], Nobody)
          /\ pending' = IF UsesPending(task[t].kind) THEN t ELSE pending
          /\ UNCHANGED enabling
       \/ /\ task[t].at = "setup" \/ task[t].kind = "enable"
          /\ preview' = Nobody /\ enabling' = t
          /\ task' = [task EXCEPT ![t].at = "enabling"]
          /\ UNCHANGED pending
  /\ UNCHANGED <<granted, tried, chain, seen, surprises>>

\* resolveTxPreview(false): the handler of the open preview ends.  One that had not
\* set the flag yet leaves it alone.
Cancelled(t) == IF t = preview THEN Ended(task[t]) ELSE task[t]
ReleaseCancelled ==
  pending' = IF /\ preview # Nobody /\ UsesPending(task[preview].kind)
                /\ task[preview].at = "setup" \/ task[preview].kind = "claimAll"
             THEN Nobody ELSE pending

Cancel ==
  /\ preview # Nobody
  /\ preview' = Nobody /\ ReleaseCancelled
  /\ task' = [t \in Tasks |-> Cancelled(t)]
  /\ UNCHANGED <<enabling, granted, tried, chain, seen, surprises>>

Enabling == {t \in Tasks : task[t].at = "enabling"}

\* The wallet grants the session: all that waits for it goes on.
EnableSucceeds ==
  /\ enabling # Nobody
  /\ enabling' = Nobody /\ granted' = TRUE
  /\ task' = [t \in Tasks |->
       IF t \notin Enabling THEN task[t]
       ELSE IF task[t].kind = "enable" THEN Ended(task[t])
       ELSE [task[t] EXCEPT !.at = "services"]]
  /\ UNCHANGED <<preview, pending, tried, chain, seen, surprises>>

\* It does not: what waits for it ends; a transaction does not fall back on the
\* drawer, since it was to be signed automatically.
EnableFails ==
  /\ enabling # Nobody
  /\ enabling' = Nobody
  /\ task' = [t \in Tasks |-> IF t \in Enabling THEN Ended(task[t]) ELSE task[t]]
  /\ pending' = IF \E t \in Enabling : UsesPending(task[t].kind) THEN Nobody ELSE pending
  /\ UNCHANGED <<preview, granted, tried, chain, seen, surprises>>

-----------------------------------------------------------------------------
(* The handlers from their button to the preview, and after the broadcast.  *)

NextTask == LET fresh == {t \in Tasks : ~Running(t) /\ ~task[t].drawer} IN
  IF fresh = {} THEN {} ELSE {CHOOSE t \in fresh : TRUE}

Started(kind) == [Fresh EXCEPT !.kind = kind, !.auto = granted,
                               !.left = IF kind = "claimAll" THEN 2 ELSE 1]

\* The preview covers the page: no button is pressed while it is open.
Pressable == seen.loaded /\ preview = Nobody

\* executeProtocolAction behind a button, and handleEnableAutoSignSession: preview first.
PressAction(t, kind) ==
  /\ Pressable
  /\ kind \in {"action"} \cup ({"claimDrop", "enable"} \cap Offered)
  /\ kind = "enable" => NoneRuns("enable") /\ enabling = Nobody
  /\ task' = [task EXCEPT ![t] = [Started(kind) EXCEPT !.at = "preview"]]
  /\ preview' = t
  /\ UNCHANGED <<pending, enabling, granted, tried, chain, seen, surprises>>

\* handleBuyViralDrop: the one item is bought with the active loan.
PressBuy(t) ==
  /\ Pressable /\ "request" \in BuyDialogue /\ ~seen.repaid
  /\ task' = [task EXCEPT ![t] = [Started("request") EXCEPT !.at = "preview"]]
  /\ preview' = t
  /\ UNCHANGED <<pending, enabling, granted, tried, chain, seen, surprises>>

\* handleOpenLendBridge.  Its button is disabled while its own key is pending.
PressBridge(t) ==
  /\ Pressable /\ ~IsPending("claimAll")
  /\ task' = [task EXCEPT ![t] = [Started("claimAll") EXCEPT !.at = "preview", !.left = 1]]
  /\ preview' = t /\ pending' = t
  /\ UNCHANGED <<enabling, granted, tried, chain, seen, surprises>>

\* Enabling is already under way for a transaction: the button joins it.
PressEnable(t) ==
  /\ Pressable /\ "enable" \in Offered /\ NoneRuns("enable") /\ enabling # Nobody
  /\ task' = [task EXCEPT ![t] = [Started("enable") EXCEPT !.at = "enabling"]]
  /\ UNCHANGED <<preview, pending, enabling, granted, tried, chain,
                 seen, surprises>>

\* The handlers that set their flag and ensure a session before the preview.
PressFlow(t, kind) ==
  /\ Pressable
  /\ kind \in {"request", "repay", "claimAll"} \cap Offered
  /\ kind = "request" => ~RequestBlocked
  /\ task' = [task EXCEPT ![t] = [Started(kind) EXCEPT !.at = "session"]]
  /\ pending' = IF UsesPending(kind) THEN t ELSE pending
  /\ UNCHANGED <<preview, enabling, granted, tried, chain, seen, surprises>>

\* The session is there: the handler's preview takes the place of any that is open.
SessionReady(t) ==
  /\ task[t].at = "session"
  /\ task' = [task EXCEPT ![t].at = "preview"]
  /\ preview' = t
  /\ UNCHANGED <<pending, enabling, granted, tried, chain, seen, surprises>>

\* It is not, or a check before the preview fails.
SessionFails(t) ==
  /\ task[t].at = "session"
  /\ Finish(t, task[t])
  /\ UNCHANGED <<preview, enabling, granted, tried, chain, seen, surprises>>

\* Fault: purchases the page has tried to claim are not remembered.
MayClaimAgain ==
  /\ Claimable(seen) /\ granted
  /\ pending = Nobody

\* The guard of the auto-claim effect.
MayAutoClaim ==
  /\ Claimable(seen) /\ granted
  /\ pending = Nobody
  /\ ~tried

\* The effect: a claim without a preview, at most one for a purchase.
AutoClaim(t) ==
  /\ MayAutoClaim
  /\ tried' = TRUE
  /\ pending' = t
  /\ BeginTx(t, [Started("claimDrop") EXCEPT !.by = "effect"], preview)
  /\ UNCHANGED <<enabling, granted, chain, seen, surprises>>

\* The page shows what the chain holds.
OnPage == [loaded |-> TRUE, repaid |-> chain.repaid, claimed |-> chain.claimed]

\* The sync after a broadcast: the next message of claimAll, the claim that follows
\* the last repayment, or the end.  A drawer left open for the message before no
\* longer counts: a second repayment or claim of the same does nothing on the chain.
SyncDone(t) ==
  /\ task[t].at = "sync"
  /\ seen' = OnPage
  /\ LET rec == [task[t] EXCEPT !.sent = 0, !.left = @ - 1, !.drawer = FALSE, !.gaveUp = FALSE] IN
       \/ /\ task[t].left = 2
          /\ BeginTx(t, rec, preview)
          /\ UNCHANGED <<pending, tried>>
       \/ /\ task[t].kind = "repay" /\ chain.repaid /\ ~chain.claimed
          /\ tried' = TRUE /\ pending' = t
          /\ BeginTx(t, [rec EXCEPT !.kind = "claimDrop", !.left = 1, !.by = "repayment"],
                     preview)
       \/ /\ task[t].left # 2 /\ ~(task[t].kind = "repay" /\ chain.repaid /\ ~chain.claimed)
          /\ Finish(t, task[t])
          /\ UNCHANGED <<preview, tried>>
  /\ UNCHANGED <<enabling, granted, chain, surprises>>

\* Fault: the flag stays set when the sync fails.
SyncFailsKept(t) ==
  /\ task[t].at = "sync"
  /\ task' = [task EXCEPT ![t] = Ended(@)]
  /\ UNCHANGED <<preview, pending, enabling, granted, tried, chain,
                 seen, surprises>>

\* The backend does not confirm yet, or the sync fails: a message, and the end.
SyncFails(t) ==
  /\ task[t].at = "sync"
  /\ Finish(t, task[t])
  /\ UNCHANGED <<preview, enabling, granted, tried, chain, seen, surprises>>

-----------------------------------------------------------------------------
(* What comes from outside the handlers.                                    *)

\* A background refresh, or the load of a connected account.
Refresh ==
  /\ seen # OnPage
  /\ seen' = OnPage
  /\ UNCHANGED <<task, preview, pending, enabling, granted, tried, chain, surprises>>

Surprise == surprises < MaxSurprises /\ surprises' = surprises + 1

\* The auto-sign session runs out.
Expire ==
  /\ granted /\ Surprise
  /\ granted' = FALSE
  /\ UNCHANGED <<task, preview, pending, enabling, tried, chain, seen>>

\* The session is reset, or the wallet disconnected and connected again: the page is
\* emptied and its preview cancelled, and in the second case what was tried is
\* forgotten.  Handlers under way go on.
Reconnect ==
  /\ seen.loaded /\ Surprise
  /\ preview' = Nobody /\ ReleaseCancelled
  /\ task' = [t \in Tasks |-> [Cancelled(t) EXCEPT !.old = Running(t)]]
  /\ \E changed \in BOOLEAN : tried' = (tried /\ ~changed)
  /\ seen' = Unloaded
  /\ UNCHANGED <<enabling, granted, chain>>

-----------------------------------------------------------------------------
WalletStep(t) ==
  \/ Broadcast(t) \/ Refuse(t) \/ DrawerTimesOut(t) \/ DrawerFails(t)
  \/ DirectFails(t) \/ LateApproval(t) \/ DrawerDismissed(t)

HandlerStep(t) ==
  \/ SessionReady(t) \/ SessionFails(t) \/ ServicesReady(t) \/ ServicesDown(t)
  \/ SyncDone(t) \/ SyncFails(t)

Next ==
  \/ \E t \in Tasks : WalletStep(t) \/ HandlerStep(t)
  \/ \E t \in NextTask :
       \/ \E kind \in Kinds : PressAction(t, kind) \/ PressFlow(t, kind)
       \/ PressEnable(t) \/ PressBuy(t) \/ PressBridge(t) \/ AutoClaim(t)
  \/ Confirm \/ Cancel \/ EnableSucceeds \/ EnableFails
  \/ Refresh \/ Expire \/ Reconnect

\* Health checks end in 2.5 seconds, the drawer in 45, a sync with the timeouts of
\* its requests.  Nothing is assumed of the user, of a signature the wallet asks
\* for, or of the provider's auto-sign setup.
TimedStep(t) ==
  \/ ServicesReady(t) \/ ServicesDown(t)
  \/ task[t].at = "drawer" /\ WalletStep(t)
  \/ SyncDone(t) \/ SyncFails(t)

Fairness == \A t \in Tasks : WF_vars(TimedStep(t))

Spec == Init /\ [][Next]_vars /\ Fairness

-----------------------------------------------------------------------------
(* Properties.                                                              *)

\* Types.
WalletTypeOK ==
  /\ task \in [Tasks -> TaskType]
  /\ {preview, pending, enabling} \subseteq Tasks \cup {Nobody}
  /\ {granted, tried} \subseteq BOOLEAN
  /\ surprises \in 0..MaxSurprises

\* A confirmed message reaches the chain once, and not at all after the user has
\* rejected it, unless the drawer was given up: only then are the same messages
\* submitted directly while the drawer can still be approved (requestWalletTx).
\* What auto-sign submits is never sent by another way.
SentOnce ==
  \A t \in Tasks :
    (task[t].sent > 1 \/ (task[t].refused /\ task[t].sent > 0)) => task[t].gaveUp

\* The claims of the one collectible that are on their way to the wallet.
Claiming ==
  {t \in Tasks : task[t].kind = "claimDrop"
                 /\ (InWallet(t) \/ task[t].at \in {"setup", "enabling"})}

\* pendingProtocolAction does not keep the auto-claim effect away from a claim under
\* way, since any other handler's finally clears it; autoClaimedPurchaseIdsRef does.
\* Where two claims overlap, one was the user's own, or the tail of a repayment,
\* which does not ask what is claimed already, or the account was reconnected.
ClaimsOverlapExplained ==
  \A t, u \in Claiming :
    t # u => \E x \in {t, u} : task[x].by # "effect" \/ task[x].old

\* The handler waits for the user or the wallet.
Waits(t) ==
  \/ task[t].at \in {"session", "enabling", "direct", "fallback"}
  \/ task[t].at \in {"preview", "setup"} /\ preview = t

\* Another preview took the place of the one this handler waits for: it never resumes.
Lost(t) == task[t].at \in {"preview", "setup"} /\ preview # t

\* The handler that set pendingProtocolAction last is still running, however it was
\* cancelled, failed, joined another's auto-sign request or turned into a claim: no
\* way out of a handler leaves the flag behind for good.
PendingHeld == pending # Nobody => Running(pending)

\* pendingProtocolAction, which disables buttons and effects, is always cleared again
\* unless a handler waits for the user or its preview was superseded.
PendingClears ==
  []<>(pending = Nobody \/ \E t \in Tasks : Waits(t) \/ Lost(t))
=============================================================================
