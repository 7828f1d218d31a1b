---------------------------- MODULE BorrowerSession ----------------------------
(***************************************************************************)
(* The browser's session with the backend: which wallet is connected, the   *)
(* session token kept in memory and in the storage of each wallet, the one  *)
(* login that may be under way, and the loads of borrower data that run     *)
(* beside each other (App.tsx, useBackendSession.ts, api.ts).               *)
(*                                                                          *)
(* A token is the login that obtained it.  A load or a login carries the    *)
(* wallet of the React render it was started from, as its closure does, and *)
(* the AbortSignal it was given: "none", or one that is "live" until the    *)
(* effect that made it is cleaned up.  Everything between two awaits is one *)
(* action; what waits on one promise is resumed with it.                    *)
(***************************************************************************)
EXTENDS Naturals, FiniteSets

CONSTANTS
  Wallets,  \* wallet addresses
  Logins,   \* bound: logins that can be started
  Loads,    \* bound: loads that can be under way at once
  MaxMoves, \* bound: what the user, the wallet and a logout do in a behaviour
  None      \* no wallet, no token, no login

ASSUME SessionAssumption == None \notin Wallets \cup Logins /\ MaxMoves \in Nat

VARIABLES
  address,  \* initiaAddress
  signer,   \* hasOfflineSigner
  token,    \* sessionTokenRef
  stored,   \* localStorage, per wallet
  promise,  \* sessionPromiseRef
  login,    \* authenticate(), one record per call
  load,     \* loadBorrowerState, a refresh, or a handler that syncs at its end
  live,     \* tokens the backend accepts
  shown,    \* whose data the last commit put on the page
  loaded,   \* hasLoadedBorrowerState
  syncing,  \* isBackendSyncing
  error,    \* loadError
  leaving,  \* handleLogout, while the backend is asked
  moves     \* what was done so far, of MaxMoves

vars == <<address, signer, token, stored, promise, login, load, live, shown,
          loaded, syncing, error, leaving, moves>>

Signals == {"none", "live", "aborted"}
Errors == {"none", "failed", "cancelled", "noSigner", "signedOut"}
LoginStages == {"unused", "challenge", "prompt", "verify", "ended"}
LoadStages == {"idle", "login", "sync", "data"}
Kinds == {"bootstrap", "retry", "refresh", "analyze", "action"}

\* loadBorrowerState runs for these, and only they own isBackendSyncing.
Full == {"bootstrap", "retry"}

LoginType ==
  [wallet : Wallets \cup {None}, signal : Signals, at : LoginStages, old : BOOLEAN]
LoadType ==
  [kind : Kinds, wallet : Wallets \cup {None}, signal : Signals, at : LoadStages,
   token : Logins \cup {None}, login : Logins \cup {None}, signed : BOOLEAN,
   old : BOOLEAN]

Unused == [wallet |-> None, signal |-> "none", at |-> "unused", old |-> FALSE]
Idle == [kind |-> "refresh", wallet |-> None, signal |-> "none", at |-> "idle",
         token |-> None, login |-> None, signed |-> TRUE, old |-> FALSE]

Init ==
  /\ address = None /\ signer = FALSE
  /\ token = None /\ stored = [w \in Wallets |-> None] /\ promise = None
  /\ login = [n \in Logins |-> Unused]
  /\ load = [l \in Loads |-> Idle]
  /\ live = {} /\ shown = None
  /\ loaded = FALSE /\ syncing = FALSE /\ error = "none" /\ leaving = None
  /\ moves = 0

-----------------------------------------------------------------------------
(* useBackendSession                                                        *)

\* What localStorage holds after assignSessionToken(t) in a render of wallet w.
Keep(store, w, t) == IF w = None THEN store ELSE [store EXCEPT ![w] = t]

\* assignSessionToken
Assign(w, t) == token' = t /\ stored' = Keep(stored, w, t)

\* resetBorrowerState with resetBackendSession, in a render of wallet w: storage,
\* reference and promise are forgotten and the page is emptied.
ResetBorrower(w) ==
  /\ token' = None /\ promise' = None /\ shown' = None
  /\ stored' = Keep(stored, w, None)

\* The next login and the next slot for a load, while there is one.
NextLogin == LET new == {n \in Logins : login[n].at = "unused"} IN
  IF new = {} THEN {} ELSE {CHOOSE n \in new : TRUE}
NextLoad == LET idle == {l \in Loads : load[l].at = "idle"} IN
  IF idle = {} THEN {} ELSE {CHOOSE l \in idle : TRUE}

\* ensureBackendSession for load l, when the reference holds t: the token, the
\* login that is under way whoever started it, or a new one.
EnsureSession(l, asked, t) ==
  \/ /\ t # None
     /\ load' = [load EXCEPT ![l] = [asked EXCEPT !.at = "sync", !.token = t]]
     /\ UNCHANGED <<login, promise>>
  \/ /\ t = None /\ promise # None
     /\ load' = [load EXCEPT ![l] = [asked EXCEPT !.at = "login", !.login = promise]]
     /\ UNCHANGED <<login, promise>>
  \/ /\ t = None /\ promise = None
     /\ \E n \in NextLogin :
          /\ login' = [login EXCEPT ![n] =
               [wallet |-> asked.wallet, signal |-> asked.signal,
                at |-> "challenge", old |-> FALSE]]
          /\ promise' = n
          /\ load' = [load EXCEPT ![l] = [asked EXCEPT !.at = "login", !.login = n]]

-----------------------------------------------------------------------------
(* The steps of a login, and of the loads that wait for it.                 *)

\* A history mark on the work that outlives the account or session it is for: the
\* page was cleared, or the account changed, since it began.
Outlived(rec) == [rec EXCEPT !.old = rec.at \notin {"idle", "unused", "ended"}]

\* All that is left of a login is the wallet its token belongs to.
Ended(rec) == [rec EXCEPT !.at = "ended", !.signal = "none", !.old = FALSE]

Waiting(n) == {l \in Loads : load[l].at = "login" /\ load[l].login = n}

\* Fault: the finally waits for a signal that a retry does not have.
UnsignalledLive(l) == load[l].kind \in Full /\ load[l].signal = "live"

\* The finally of loadBorrowerState ends syncing, unless its signal was aborted.
Unsignalled(l) == load[l].kind \in Full /\ load[l].signal # "aborted"

\* The loads of set L return, with nothing but their finally.
Return(L) ==
  /\ load' = [l \in Loads |-> IF l \in L THEN Idle ELSE load[l]]
  /\ syncing' = (syncing /\ ~\E l \in L : Unsignalled(l))

\* The same when the page is cleared under the other loads.
ReturnAndClear(L) ==
  /\ load' = [l \in Loads |-> IF l \in L THEN Idle ELSE Outlived(load[l])]
  /\ syncing' = (syncing /\ ~\E l \in L : Unsignalled(l))

\* The challenge arrived: the wallet is asked for a signature.
ChallengeArrives(n) ==
  /\ login[n].at = "challenge" /\ login[n].signal # "aborted"
  /\ login' = [login EXCEPT ![n].at = "prompt"]
  /\ UNCHANGED <<address, signer, token, stored, promise, load, live, shown,
                 loaded, syncing, error, leaving, moves>>

\* The user signs: the plain text, or the Amino challenge when the wallet cannot
\* sign plain text.  Aborting a login does not close its prompt.
UserSigns(n) ==
  /\ login[n].at = "prompt"
  /\ login' = [login EXCEPT ![n].at = "verify"]
  /\ UNCHANGED <<address, signer, token, stored, promise, load, live, shown,
                 loaded, syncing, error, leaving, moves>>

\* Fault: the wallet connected now, not the one of the render that logged in.
OwnerNow(n) == address

\* The wallet under which assignSessionToken keeps the token of a login.
Owner(n) == login[n].wallet

\* verifySession answers: the token is kept for the wallet of the login and the
\* waiting loads go on to fetch with it, except those that were aborted.
LoginSucceeds(n) ==
  /\ login[n].at = "verify" /\ login[n].signal # "aborted"
  /\ login' = [login EXCEPT ![n] = Ended(@)]
  /\ live' = live \cup {n}
  /\ Assign(Owner(n), n)
  /\ promise' = None /\ error' = "none"
  /\ load' = [l \in Loads |->
       IF l \notin Waiting(n) THEN load[l]
       ELSE IF load[l].signal = "aborted" THEN Idle
       ELSE [load[l] EXCEPT !.at = "sync", !.token = n]]
  /\ UNCHANGED <<address, signer, shown, loaded, syncing, leaving, moves>>

\* The user rejects the prompt, or the wallet or the backend refuses.  Every full
\* load that waits, aborted ones too, empties the page and reports it.
LoginFails(n, why) ==
  /\ \/ why \in {"cancelled", "failed"} /\ login[n].at = "prompt"
     \/ why = "failed" /\ login[n].at \in {"challenge", "verify"}
                       /\ login[n].signal # "aborted"
  /\ LET failing == {l \in Waiting(n) : load[l].kind \in Full}
         owners == {load[l].wallet : l \in failing} \cup {login[n].wallet} IN
       /\ token' = None
       /\ stored' = [w \in Wallets |-> IF w \in owners THEN None ELSE stored[w]]
       /\ promise' = None
       /\ shown' = IF failing = {} THEN shown ELSE None
       /\ loaded' = (loaded /\ failing = {})
       /\ error' = IF failing = {} THEN error ELSE why
       /\ IF failing = {}
            THEN /\ Return(Waiting(n))
                 /\ login' = [login EXCEPT ![n] = Ended(@)]
            ELSE /\ ReturnAndClear(Waiting(n))
                 /\ login' = [m \in Logins |->
                      IF m = n THEN Ended(login[m]) ELSE Outlived(login[m])]
  /\ UNCHANGED <<address, signer, live, leaving, moves>>

\* Fault: the promise is only forgotten when the login was not aborted.
LoginAbortsKept(n) ==
  /\ login[n].at \in {"challenge", "verify"} /\ login[n].signal = "aborted"
  /\ login' = [login EXCEPT ![n] = Ended(@)]
  /\ Return(Waiting(n))
  /\ UNCHANGED <<address, signer, token, stored, promise, live, shown, loaded, error,
                 leaving, moves>>

\* The request of a login whose signal was aborted rejects with an AbortError,
\* which all that waits for it, signalled or not, takes for its own.
LoginAborts(n) ==
  /\ login[n].at \in {"challenge", "verify"} /\ login[n].signal = "aborted"
  /\ login' = [login EXCEPT ![n] = Ended(@)]
  /\ promise' = None
  /\ Return(Waiting(n))
  /\ UNCHANGED <<address, signer, token, stored, live, shown, loaded, error, leaving, moves>>

-----------------------------------------------------------------------------
(* What the page says.                                                      *)

\* topbarStatus, assistantDetail: without data and without an error it is syncing.
SaysSyncing == address # None /\ ~loaded /\ error = "none"

-----------------------------------------------------------------------------
(* The steps of a load.                                                     *)

\* loadBorrowerState up to its first await, when the connected wallet is w: the
\* token stored for w replaces the one in memory; without one, that is used.
BeginFullLoad(l, kind, signal, w) ==
  LET kept == stored[w]
      asked == [kind |-> kind, wallet |-> w, signal |-> signal, at |-> "idle",
                token |-> None, login |-> None, signed |-> signer, old |-> FALSE] IN
  /\ syncing' = TRUE /\ error' = "none"
  /\ IF kept # None THEN Assign(w, kept) ELSE UNCHANGED <<token, stored>>
  /\ EnsureSession(l, asked, IF kept # None THEN kept ELSE token)

\* handleRetryLoad, offered with an error and on every loaded page.
Retry(l) ==
  /\ address # None
  /\ error # "none" \/ loaded
  /\ signer \/ stored[address] # None \/ token # None
  /\ BeginFullLoad(l, "retry", "none", address)
  /\ UNCHANGED <<address, signer, live, shown, loaded, leaving>>

\* A retry without a signer and without a token ends where it starts.
RetryWithoutSigner ==
  /\ address # None /\ ~signer /\ stored[address] = None /\ token = None
  /\ error # "none" \/ loaded
  /\ ResetBorrower(address)
  /\ loaded' = FALSE /\ syncing' = FALSE /\ error' = "failed"
  /\ login' = [n \in Logins |-> Outlived(login[n])]
  /\ load' = [l \in Loads |-> Outlived(load[l])]
  /\ UNCHANGED <<address, signer, live, leaving>>

\* The background refresh: any token at hand, no signal, no login.
Refresh(l) ==
  /\ address # None /\ loaded
  /\ LET t == IF token # None THEN token ELSE stored[address] IN
       /\ t # None
       /\ load' = [load EXCEPT ![l] =
            [kind |-> "refresh", wallet |-> address, signal |-> "none",
             at |-> "sync", token |-> t, login |-> None, signed |-> signer,
             old |-> FALSE]]
  /\ UNCHANGED <<address, signer, token, stored, promise, login, live, shown,
                 loaded, syncing, error, leaving>>

\* A handler of a loaded page that ensures a session, asks the backend and syncs.
StartHandler(l, kind) ==
  /\ address # None /\ loaded /\ signer
  /\ EnsureSession(l, [kind |-> kind, wallet |-> address, signal |-> "none",
                       at |-> "idle", token |-> None, login |-> None,
                       signed |-> TRUE, old |-> FALSE],
                   token)
  /\ UNCHANGED <<address, signer, token, stored, live, shown, loaded, syncing,
                 error, leaving>>

\* handleAnalyze and handleRefreshUsernameVerification complete the page, handleClaimFaucet,
\* handleApplyReferralCode and the sync after a transaction do not.
Analyze(l) == StartHandler(l, "analyze")
RefreshUsername(l) == StartHandler(l, "analyze")
ClaimFaucet(l) == StartHandler(l, "action")
ApplyReferralCode(l) == StartHandler(l, "action")

\* The backend answers all requests of a load; what the load does with the data,
\* it does when they arrive.
BackendAnswers(l) ==
  /\ load[l].at = "sync" /\ load[l].token \in live
  /\ load' = [load EXCEPT ![l].at = "data"]
  /\ UNCHANGED <<address, signer, token, stored, promise, login, live, shown,
                 loaded, syncing, error, leaving, moves>>

\* Fault: only a load the user asked for completes the page.
LoadedByUser(l) == loaded \/ load[l].kind \in {"retry", "analyze"}

\* setHasLoadedBorrowerState(true), after the sync of these.
LoadedAfter(l) == loaded \/ load[l].kind \in Full \cup {"analyze"}

\* The commit of syncBorrowerState.  A load without a signal commits whatever
\* became of the account and the session in the meantime.
Commit(l) ==
  /\ load[l].at = "data" /\ load[l].signal # "aborted"
  /\ shown' = login[load[l].token].wallet
  /\ error' = "none"
  /\ loaded' = LoadedAfter(l)
  /\ Return({l})
  /\ UNCHANGED <<address, signer, token, stored, promise, login, live, leaving, moves>>

\* An aborted load stops at its next await.
Abandon(l) ==
  /\ load[l].at \in {"sync", "data"} /\ load[l].signal = "aborted"
  /\ Return({l})
  /\ UNCHANGED <<address, signer, token, stored, promise, login, live, shown,
                 loaded, error, leaving, moves>>

\* The backend refuses the token a full load started with (401) and a signer can
\* replace it; a token the load has itself obtained is not replaced.
MaySignInAgain(l) ==
  load[l].token \notin live /\ load[l].login = None /\ load[l].signed

\* After such a 401 the token is forgotten and the load falls back on a session.
SignInAgain(l) ==
  /\ load[l].at = "sync" /\ load[l].kind \in Full /\ load[l].signal # "aborted"
  /\ MaySignInAgain(l)
  /\ Assign(load[l].wallet, None)
  /\ EnsureSession(l, [load[l] EXCEPT !.token = None], None)
  /\ UNCHANGED <<address, signer, live, shown, loaded, syncing, error, leaving, moves>>

\* Any other failure of a full load, a timeout included: the session and the page
\* are cleared and the error stays.
LoadFails(l) ==
  /\ load[l].at = "sync" /\ load[l].kind \in Full /\ load[l].signal # "aborted"
  /\ ResetBorrower(load[l].wallet)
  /\ loaded' = FALSE /\ error' = "failed"
  /\ ReturnAndClear({l})
  /\ login' = [n \in Logins |-> Outlived(login[n])]
  /\ UNCHANGED <<address, signer, live, leaving, moves>>

\* A refresh or a handler that fails leaves everything but a message alone.
Report(l) ==
  /\ load[l].at = "sync" /\ load[l].kind \notin Full
  /\ Return({l})
  /\ UNCHANGED <<address, signer, token, stored, promise, login, live, shown,
                 loaded, error, leaving, moves>>

-----------------------------------------------------------------------------
(* The wallet, the user and the backend.                                    *)

\* The cleanup of the bootstrap effect.
Aborted(rec) == [Outlived(rec) EXCEPT !.signal = IF @ = "live" THEN "aborted" ELSE @]

\* The wallet is disconnected; the effect clears the page in a render without a
\* wallet, so what is stored stays.
Disconnect ==
  /\ address # None
  /\ address' = None /\ signer' = FALSE
  /\ login' = [n \in Logins |-> Aborted(login[n])]
  /\ load' = [l \in Loads |-> Aborted(load[l])]
  /\ ResetBorrower(None)
  /\ loaded' = FALSE /\ syncing' = FALSE /\ error' = "none"
  /\ UNCHANGED <<live, leaving>>

\* A wallet is connected or the account changes, before its signer is there.
ConnectWithoutSigner(w) ==
  /\ w # address \/ signer
  /\ address' = w /\ signer' = FALSE
  /\ login' = [n \in Logins |-> Aborted(login[n])]
  /\ load' = [l \in Loads |-> Aborted(load[l])]
  /\ loaded' = FALSE /\ syncing' = FALSE /\ error' = "noSigner"
  /\ UNCHANGED <<token, stored, promise, live, shown, leaving>>

\* The account or its signer arrives: the old effect is aborted and bootstrap
\* runs.  Neither the token in memory nor the loaded page is reset by it.
Connect(w, l) ==
  /\ w # address \/ ~signer
  /\ address' = w /\ signer' = TRUE
  /\ syncing' = TRUE /\ error' = "none"
  /\ IF stored[w] # None THEN Assign(w, stored[w]) ELSE UNCHANGED <<token, stored>>
  /\ LET t == IF stored[w] # None THEN stored[w] ELSE token
         cut == [k \in Loads |-> Aborted(load[k])]
         ended == [n \in Logins |-> Aborted(login[n])]
         boot == [kind |-> "bootstrap", wallet |-> w, signal |-> "live", at |-> "login",
                  token |-> None, login |-> promise, signed |-> TRUE, old |-> FALSE] IN
       \/ /\ t # None
          /\ load' = [cut EXCEPT ![l] = [boot EXCEPT !.at = "sync", !.token = t, !.login = None]]
          /\ login' = ended /\ UNCHANGED promise
       \/ /\ t = None /\ promise # None
          /\ load' = [cut EXCEPT ![l] = boot]
          /\ login' = ended /\ UNCHANGED promise
       \/ /\ t = None /\ promise = None
          /\ \E n \in NextLogin :
               /\ login' = [ended EXCEPT ![n] =
                    [wallet |-> w, signal |-> "live", at |-> "challenge", old |-> FALSE]]
               /\ promise' = n
               /\ load' = [cut EXCEPT ![l] = [boot EXCEPT !.login = n]]
  /\ UNCHANGED <<live, shown, loaded, leaving>>

\* handleLogout asks the backend to drop the token at hand.
AskLogout ==
  /\ address # None /\ leaving = None
  /\ leaving' = address
  /\ \/ UNCHANGED live
     \/ live' = live \ {IF token # None THEN token ELSE stored[address]}
  /\ UNCHANGED <<address, signer, token, stored, promise, login, load, shown,
                 loaded, syncing, error>>

\* Answered or not, the page is cleared in the render the button was pressed in.
\* The wallet is then disconnected, or stays connected.
Logout ==
  /\ leaving # None
  /\ leaving' = None
  /\ ResetBorrower(leaving)
  /\ loaded' = FALSE /\ syncing' = FALSE /\ error' = "signedOut"
  /\ login' = [n \in Logins |-> Outlived(login[n])]
  /\ load' = [l \in Loads |-> Outlived(load[l])]
  /\ UNCHANGED <<address, signer, live, moves>>

\* The page is reloaded: only what is stored outlives it.
Reload ==
  /\ address # None
  /\ address' = None /\ signer' = FALSE
  /\ token' = None /\ promise' = None /\ shown' = None /\ UNCHANGED stored
  /\ login' = [n \in Logins |->
       IF login[n].at = "unused" THEN login[n] ELSE Ended(login[n])]
  /\ load' = [l \in Loads |-> Idle]
  /\ loaded' = FALSE /\ syncing' = FALSE /\ error' = "none" /\ leaving' = None
  /\ UNCHANGED live

\* The backend forgets a session: it expired, or the backend restarted.
Expire(n) ==
  /\ n \in live
  /\ live' = live \ {n}
  /\ UNCHANGED <<address, signer, token, stored, promise, login, load, shown,
                 loaded, syncing, error, leaving>>

-----------------------------------------------------------------------------
LoginStep(n) ==
  \/ ChallengeArrives(n) \/ UserSigns(n)
  \/ LoginSucceeds(n) \/ LoginFails(n, "cancelled") \/ LoginFails(n, "failed")
  \/ LoginAborts(n)

LoadStep(l) ==
  \/ BackendAnswers(l) \/ Commit(l) \/ Abandon(l) \/ SignInAgain(l)
  \/ LoadFails(l) \/ Report(l)

Move == moves < MaxMoves /\ moves' = moves + 1

UserStep ==
  /\ \/ \E l \in NextLoad :
          \/ Retry(l) \/ Refresh(l)
          \/ Analyze(l) \/ RefreshUsername(l) \/ ClaimFaucet(l) \/ ApplyReferralCode(l)
     \/ RetryWithoutSigner \/ AskLogout \/ Reload
  /\ Move

AccountStep ==
  /\ \/ Disconnect
     \/ \E w \in Wallets : \/ ConnectWithoutSigner(w)
                           \/ \E l \in NextLoad : Connect(w, l)
  /\ Move

ExpireStep == (\E n \in Logins : Expire(n)) /\ Move

Next ==
  \/ \E n \in Logins : LoginStep(n)
  \/ \E l \in Loads : LoadStep(l)
  \/ UserStep \/ AccountStep \/ ExpireStep \/ Logout

\* A request ends within 15 seconds an attempt, and three attempts: answered,
\* failed or timed out (api.ts).  Nothing is assumed of the user or the wallet.
Fairness ==
  /\ \A n \in Logins :
       WF_vars(ChallengeArrives(n) \/ LoginSucceeds(n) \/ LoginAborts(n)
               \/ (login[n].at \in {"challenge", "verify"} /\ LoginFails(n, "failed")))
  /\ \A l \in Loads : WF_vars(LoadStep(l))

Spec == Init /\ [][Next]_vars /\ Fairness

-----------------------------------------------------------------------------
(* Properties.                                                              *)

Pending(n) == login[n].at \in {"challenge", "prompt", "verify"}

\* Types; moreover sessionPromiseRef never holds a login that has ended, no load
\* waits for one, and a load that fetches has a token some wallet signed for.
SessionTypeOK ==
  /\ address \in Wallets \cup {None} /\ signer \in BOOLEAN
  /\ {token, promise} \subseteq Logins \cup {None}
  /\ stored \in [Wallets -> Logins \cup {None}]
  /\ login \in [Logins -> LoginType] /\ load \in [Loads -> LoadType]
  /\ live \subseteq Logins /\ {shown, leaving} \subseteq Wallets \cup {None}
  /\ loaded \in BOOLEAN /\ syncing \in BOOLEAN /\ error \in Errors
  /\ moves \in 0..MaxMoves
  /\ promise # None => Pending(promise)
  /\ \A l \in Loads :
       /\ load[l].at = "login" => load[l].login # None /\ Pending(load[l].login)
       /\ load[l].at \in {"sync", "data"} =>
            load[l].token # None /\ login[load[l].token].wallet # None

\* "The backend returns a signed session token, which is stored per wallet
\* address" (src/frontend/README.md:135).  Whatever the order in which accounts
\* change, logins end and failed loads clear the session, what is stored for a
\* wallet is a token that this wallet signed for.
StoredTokenOwn ==
  \A w \in Wallets : stored[w] # None => login[stored[w]].wallet = w

\* The page says that account data is syncing (App.tsx:5221), while nothing that
\* is under way for this account will load it or report why not.
Stranded ==
  /\ SaysSyncing /\ ~syncing
  /\ ~\E l \in Loads : /\ load[l].at # "idle" /\ ~load[l].old
                        /\ load[l].kind \in Full \cup {"analyze"}

\* Only work that outlived its account or its session strands the page: a login
\* that was aborted under a load of the next account, or a load that commits
\* after the page was cleared.  What belongs to the account at hand never does.
StrandedByOutlived ==
  [][(Stranded' /\ ~Stranded) =>
       \/ \E n \in Logins : login[n].old /\ login'[n] # login[n]
       \/ \E l \in Loads : load[l].old /\ load'[l] # load[l]]_vars

\* While isBackendSyncing is set, a full load is under way whose finally will clear
\* it, although loads beside it end in any order and aborted ones do not touch it.
SyncingOwned ==
  syncing => \E l \in Loads : /\ load[l].at # "idle" /\ load[l].kind \in Full
                               /\ load[l].signal # "aborted"

PromptOpen == \E n \in Logins : login[n].at = "prompt"

\* The page stops syncing or a wallet prompt is open: no order of aborts, joined
\* logins and answers leaves isBackendSyncing set.
SyncingEnds == syncing ~> (~syncing \/ PromptOpen)
=============================================================================
