------------------------ MODULE BorrowerSession_proofs ------------------------
(***************************************************************************)
(* Machine-checked facts about BorrowerSession, for any set of wallets, of    *)
(* logins and of loads.                                                     *)
(***************************************************************************)
EXTENDS BorrowerSession, TLAPS

-----------------------------------------------------------------------------
(* The inductive invariant.  To know that a stored token is its wallet's own *)
(* one has to know that a login that has not begun has no wallet, so that no *)
(* token can be its; that a load or a login under way has one; and that a    *)
(* token in memory belongs to somebody, since it is what loads fetch with.  *)

LoginsOK ==
  /\ login \in [Logins -> LoginType]
  /\ \A n \in Logins : login[n].at = "unused" <=> login[n].wallet = None

TokensOK ==
  /\ token \in Logins \cup {None}
  /\ token # None => login[token].wallet # None
  /\ promise \in Logins \cup {None}
  /\ promise # None => Pending(promise)

StoredOK ==
  /\ stored \in [Wallets -> Logins \cup {None}]
  /\ StoredTokenOwn

LoadOK(l) ==
  /\ load[l].at # "idle" => load[l].wallet # None
  /\ load[l].at = "login" => load[l].login # None /\ Pending(load[l].login)
  /\ load[l].at \in {"sync", "data"} =>
       load[l].token # None /\ login[load[l].token].wallet # None

LoadsOK == load \in [Loads -> LoadType] /\ \A l \in Loads : LoadOK(l)

PageOK ==
  /\ address \in Wallets \cup {None} /\ signer \in BOOLEAN
  /\ live \subseteq Logins /\ {shown, leaving} \subseteq Wallets \cup {None}
  /\ loaded \in BOOLEAN /\ syncing \in BOOLEAN /\ error \in Errors

SessionInv == LoginsOK /\ TokensOK /\ StoredOK /\ LoadsOK /\ PageOK

\* The invariant, with the bound on moves, is the checked invariants at once.
LEMMA InvGivesProperties ==
  ASSUME SessionInv, moves \in 0..MaxMoves
  PROVE  SessionTypeOK /\ StoredTokenOwn
BY DEF SessionInv, LoginsOK, TokensOK, StoredOK, LoadsOK, LoadOK, PageOK, SessionTypeOK

-----------------------------------------------------------------------------
(* The operators that touch records.                                        *)

\* A mark or an abort changes neither what a record is for nor how far it is.
LEMMA LoginMarks ==
  ASSUME NEW r \in LoginType
  PROVE  /\ Outlived(r) \in LoginType /\ Outlived(r).at = r.at /\ Outlived(r).wallet = r.wallet
         /\ Aborted(r) \in LoginType /\ Aborted(r).at = r.at /\ Aborted(r).wallet = r.wallet
         /\ Ended(r) \in LoginType /\ Ended(r).at = "ended" /\ Ended(r).wallet = r.wallet
<1>1. Outlived(r) \in LoginType /\ Outlived(r).at = r.at /\ Outlived(r).wallet = r.wallet
  BY DEF LoginType, Outlived
<1>2. Aborted(r) \in LoginType /\ Aborted(r).at = r.at /\ Aborted(r).wallet = r.wallet
  BY <1>1 DEF LoginType, Aborted, Signals
<1>3. Ended(r) \in LoginType /\ Ended(r).at = "ended" /\ Ended(r).wallet = r.wallet
  BY DEF LoginType, Ended, Signals, LoginStages
<1> QED
  BY <1>1, <1>2, <1>3

\* The same of a load; it keeps its token and the login it waits for too.
LEMMA LoadMarks ==
  ASSUME NEW r \in LoadType
  PROVE  /\ Outlived(r) \in LoadType /\ Outlived(r).at = r.at /\ Outlived(r).wallet = r.wallet
         /\ Outlived(r).login = r.login /\ Outlived(r).token = r.token
         /\ Aborted(r) \in LoadType /\ Aborted(r).at = r.at /\ Aborted(r).wallet = r.wallet
         /\ Aborted(r).login = r.login /\ Aborted(r).token = r.token
<1>1. /\ Outlived(r) \in LoadType /\ Outlived(r).at = r.at /\ Outlived(r).wallet = r.wallet
      /\ Outlived(r).login = r.login /\ Outlived(r).token = r.token
  BY DEF LoadType, Outlived
<1>2. /\ Aborted(r) \in LoadType /\ Aborted(r).at = r.at /\ Aborted(r).wallet = r.wallet
      /\ Aborted(r).login = r.login /\ Aborted(r).token = r.token
  BY <1>1 DEF LoadType, Aborted, Signals
<1> QED
  BY <1>1, <1>2

\* What a load leaves behind when it returns.
LEMMA IdleType ==
  /\ Idle \in LoadType /\ Idle.at = "idle"
BY DEF Idle, LoadType, Kinds, Signals, LoadStages

\* The login that begins next has not begun.
LEMMA NextLoginNew ==
  ASSUME NEW n \in NextLogin
  PROVE  n \in Logins /\ login[n].at = "unused"
BY DEF NextLogin

\* The slot a load takes next is free.
LEMMA NextLoadIdle ==
  ASSUME NEW l \in NextLoad
  PROVE  l \in Loads /\ load[l].at = "idle"
BY DEF NextLoad

\* Forgetting tokens, and storing one for the wallet that signed for it.
LEMMA StoreNone ==
  ASSUME StoredOK, LoginsOK, NEW w \in Wallets \cup {None}, stored' = Keep(stored, w, None),
         \A n \in Logins : login[n].at # "unused" => login'[n].wallet = login[n].wallet
  PROVE  StoredOK'
BY SessionAssumption DEF StoredOK, Keep, StoredTokenOwn, LoginsOK

\* assignSessionToken in the render that logged in: the token is that wallet's own.
LEMMA StoreOwn ==
  ASSUME StoredOK, NEW n \in Logins, stored' = Keep(stored, login[n].wallet, n),
         \A m \in Logins : login'[m].wallet = login[m].wallet
  PROVE  StoredOK'
BY SessionAssumption DEF StoredOK, Keep, StoredTokenOwn

\* Nothing stored changes, and no login that began changes its wallet.
LEMMA StoreSame ==
  ASSUME StoredOK, LoginsOK, stored' = stored,
         \A n \in Logins : login[n].at # "unused" => login'[n].wallet = login[n].wallet
  PROVE  StoredOK'
BY SessionAssumption DEF StoredOK, StoredTokenOwn, LoginsOK

-----------------------------------------------------------------------------
(* The steps of a login.                                                    *)

\* What a step owes the loads, when every login that was pending still is or is
\* waited for by nobody, and every login keeps its wallet.
LEMMA LoadsKept ==
  ASSUME SessionInv,
         load' \in [Loads -> LoadType],
         \A n \in Logins : login[n].at # "unused" => login'[n].wallet = login[n].wallet,
         \A l \in Loads :
           \/ load'[l].at = "idle"
           \/ /\ load'[l].at = load[l].at /\ load'[l].wallet = load[l].wallet
              /\ load'[l].login = load[l].login /\ load'[l].token = load[l].token
              /\ load[l].at = "login" => Pending(load[l].login)'
  PROVE  LoadsOK'
<1> SUFFICES ASSUME NEW l \in Loads
             PROVE  LoadOK(l)'
  BY DEF LoadsOK
<1>1. CASE load'[l].at = "idle"
  BY <1>1 DEF LoadOK
<1>2. CASE /\ load'[l].at = load[l].at /\ load'[l].wallet = load[l].wallet
           /\ load'[l].login = load[l].login /\ load'[l].token = load[l].token
           /\ load[l].at = "login" => Pending(load[l].login)'
  <2>1. LoadOK(l) /\ load[l] \in LoadType
    BY DEF SessionInv, LoadsOK
  <2>2. load[l].at \in {"sync", "data"} => login'[load[l].token].wallet # None
    BY <2>1 DEF LoadOK, LoadType, SessionInv, LoginsOK
  <2> QED
    BY <1>2, <2>1, <2>2 DEF LoadOK, Pending
<1> QED
  BY <1>1, <1>2

\* A login that goes on changes nothing but its own stage.
LEMMA ChallengeArrivesInv ==
  ASSUME SessionInv, NEW n \in Logins, ChallengeArrives(n) \/ UserSigns(n)
  PROVE  SessionInv'
<1>1. /\ login[n].at \in {"challenge", "prompt"}
      /\ \E s \in {"prompt", "verify"} : login' = [login EXCEPT ![n].at = s]
      /\ UNCHANGED <<address, signer, token, stored, promise, load, live, shown,
                     loaded, syncing, error, leaving>>
  BY DEF ChallengeArrives, UserSigns
<1>2. LoginsOK'
  BY <1>1 DEF SessionInv, LoginsOK, LoginType, LoginStages
<1>3. \A m \in Logins : login'[m].wallet = login[m].wallet /\ (Pending(m) => Pending(m)')
  BY <1>1 DEF SessionInv, LoginsOK, Pending
<1>4. TokensOK'
  BY <1>1, <1>3 DEF SessionInv, TokensOK, Pending
<1>5. StoredOK'
  BY <1>1, <1>3, StoreSame DEF SessionInv
<1>6. LoadsOK'
  BY <1>1, <1>3, LoadsKept DEF SessionInv, LoadsOK, LoadOK, LoadType
<1>7. PageOK'
  BY <1>1 DEF SessionInv, PageOK
<1> QED
  BY <1>2, <1>4, <1>5, <1>6, <1>7 DEF SessionInv

\* A login that succeeds hands its token to the store and to all that wait.
LEMMA LoginSucceedsInv ==
  ASSUME SessionInv, NEW n \in Logins, LoginSucceeds(n)
  PROVE  SessionInv'
<1>1. /\ login[n] \in LoginType /\ login[n].at = "verify" /\ login[n].wallet # None
      /\ login' = [login EXCEPT ![n] = Ended(login[n])]
  BY DEF LoginSucceeds, SessionInv, LoginsOK
<1>2. Ended(login[n]) \in LoginType /\ Ended(login[n]).at = "ended"
      /\ Ended(login[n]).wallet = login[n].wallet
  BY <1>1, LoginMarks
<1>3. LoginsOK'
  BY <1>1, <1>2 DEF SessionInv, LoginsOK
<1>4. \A m \in Logins : login'[m].wallet = login[m].wallet
  BY <1>1, <1>2 DEF SessionInv, LoginsOK
<1>5. TokensOK'
  BY <1>1, <1>4 DEF LoginSucceeds, Assign, TokensOK
<1>6. StoredOK'
  BY <1>4, StoreOwn DEF LoginSucceeds, Assign, Owner, SessionInv
<1>7. LoadsOK'
  <2>1. load' \in [Loads -> LoadType]
    BY ZenonT(40), IdleType DEF LoginSucceeds, SessionInv, LoadsOK, LoadType, LoadStages
  <2> SUFFICES ASSUME NEW l \in Loads
               PROVE  LoadOK(l)'
    BY <2>1 DEF LoadsOK
  <2>2. load[l] \in LoadType /\ LoadOK(l)
    BY DEF SessionInv, LoadsOK
  <2>3. CASE l \notin Waiting(n)
    <3>1. load'[l] = load[l]
      BY <2>3 DEF LoginSucceeds
    <3>2. load[l].at = "login" => load[l].login # n
      BY <2>3 DEF Waiting
    <3>3. load[l].at = "login" => Pending(load[l].login)'
      BY <1>1, <2>2, <3>1, <3>2 DEF LoadOK, Pending, LoadType, SessionInv, LoginsOK
    <3>4. load[l].at \in {"sync", "data"} => login'[load[l].token].wallet # None
      BY <1>4, <2>2 DEF LoadOK, LoadType
    <3> QED
      BY <2>2, <3>1, <3>3, <3>4 DEF LoadOK, Pending
  <2>4. CASE l \in Waiting(n) /\ load[l].signal = "aborted"
    <3>1. load'[l] = Idle
      BY <2>4 DEF LoginSucceeds
    <3> QED
      BY <3>1, IdleType DEF LoadOK
  <2>5. CASE l \in Waiting(n) /\ load[l].signal # "aborted"
    <3>1. load'[l] = [load[l] EXCEPT !.at = "sync", !.token = n]
      BY <2>5 DEF LoginSucceeds
    <3>2. load[l].at = "login"
      BY <2>5 DEF Waiting
    <3>3. /\ load'[l].at = "sync" /\ load'[l].token = n /\ load'[l].wallet = load[l].wallet
      BY <2>2, <3>1 DEF LoadType
    <3>4. n # None /\ login'[n].wallet # None
      BY <1>1, <1>4, SessionAssumption
    <3> QED
      BY <2>2, <3>2, <3>3, <3>4 DEF LoadOK
  <2> QED
    BY <2>3, <2>4, <2>5
<1>8. PageOK'
  BY DEF LoginSucceeds, SessionInv, PageOK, Errors
<1> QED
  BY <1>3, <1>5, <1>6, <1>7, <1>8 DEF SessionInv

\* Loads that return, the others as they were.
LEMMA ReturnInv ==
  ASSUME SessionInv, NEW L \in SUBSET Loads, Return(L),
         \A n \in Logins : login[n].at # "unused" => login'[n].wallet = login[n].wallet,
         \A l \in Loads \ L :
           load[l].at = "login" => login'[load[l].login].at = login[load[l].login].at
  PROVE  LoadsOK' /\ syncing' \in BOOLEAN
<1>1. load' = [l \in Loads |-> IF l \in L THEN Idle ELSE load[l]]
  BY DEF Return
<1>2. load' \in [Loads -> LoadType]
  BY <1>1, IdleType DEF SessionInv, LoadsOK
<1>3. \A l \in Loads :
        \/ load'[l].at = "idle"
        \/ /\ load'[l].at = load[l].at /\ load'[l].wallet = load[l].wallet
           /\ load'[l].login = load[l].login /\ load'[l].token = load[l].token
           /\ load[l].at = "login" => Pending(load[l].login)'
  BY <1>1, IdleType DEF SessionInv, LoadsOK, LoadOK, Pending
<1>4. LoadsOK'
  BY <1>2, <1>3, LoadsKept
<1> QED
  BY <1>4 DEF Return, SessionInv, PageOK

\* The same with a mark on the others.
LEMMA ReturnAndClearInv ==
  ASSUME SessionInv, NEW L \in SUBSET Loads, ReturnAndClear(L),
         \A n \in Logins : login[n].at # "unused" => login'[n].wallet = login[n].wallet,
         \A l \in Loads \ L :
           load[l].at = "login" => login'[load[l].login].at = login[load[l].login].at
  PROVE  LoadsOK' /\ syncing' \in BOOLEAN
<1>1. load' = [l \in Loads |-> IF l \in L THEN Idle ELSE Outlived(load[l])]
  BY DEF ReturnAndClear
<1>2. \A l \in Loads :
        /\ Outlived(load[l]) \in LoadType /\ Outlived(load[l]).at = load[l].at
        /\ Outlived(load[l]).wallet = load[l].wallet
        /\ Outlived(load[l]).login = load[l].login /\ Outlived(load[l]).token = load[l].token
  BY LoadMarks DEF SessionInv, LoadsOK
<1>3. load' \in [Loads -> LoadType]
  BY <1>1, <1>2, IdleType
<1>4. \A l \in Loads :
        \/ load'[l].at = "idle"
        \/ /\ load'[l].at = load[l].at /\ load'[l].wallet = load[l].wallet
           /\ load'[l].login = load[l].login /\ load'[l].token = load[l].token
           /\ load[l].at = "login" => Pending(load[l].login)'
  BY <1>1, <1>2, IdleType DEF SessionInv, LoadsOK, LoadOK, Pending
<1>5. LoadsOK'
  BY <1>3, <1>4, LoadsKept
<1> QED
  BY <1>5 DEF ReturnAndClear, SessionInv, PageOK

\* A login that fails takes with it all that wait, and what is stored for them.
LEMMA LoginFailsInv ==
  ASSUME SessionInv, NEW n \in Logins, NEW why \in {"cancelled", "failed"}, LoginFails(n, why)
  PROVE  SessionInv'
<1> DEFINE failing == {l \in Waiting(n) : load[l].kind \in Full}
<1>1. login[n] \in LoginType /\ Ended(login[n]) \in LoginType /\ Ended(login[n]).at = "ended"
      /\ Ended(login[n]).wallet = login[n].wallet /\ login[n].at # "unused"
  BY LoginMarks DEF LoginFails, SessionInv, LoginsOK
<1>2. \A m \in Logins : /\ Outlived(login[m]) \in LoginType
                        /\ Outlived(login[m]).at = login[m].at
                        /\ Outlived(login[m]).wallet = login[m].wallet
  BY LoginMarks DEF SessionInv, LoginsOK
<1>3. /\ login' \in [Logins -> LoginType]
      /\ \A m \in Logins : login'[m].wallet = login[m].wallet
      /\ \A m \in Logins \ {n} : login'[m].at = login[m].at
      /\ login'[n].at = "ended"
  <2>1. CASE failing = {}
    <3>1. login' = [login EXCEPT ![n] = Ended(login[n])]
      BY <2>1 DEF LoginFails
    <3> QED
      BY <1>1, <3>1 DEF SessionInv, LoginsOK
  <2>2. CASE failing # {}
    <3>1. login' = [m \in Logins |-> IF m = n THEN Ended(login[m]) ELSE Outlived(login[m])]
      BY <2>2 DEF LoginFails
    <3> QED
      BY <1>1, <1>2, <3>1
  <2> QED
    BY <2>1, <2>2
<1>4. LoginsOK'
  BY <1>1, <1>3 DEF SessionInv, LoginsOK
<1>5. TokensOK'
  BY DEF LoginFails, TokensOK
<1>6. StoredOK'
  <2>1. \E S : stored' = [w \in Wallets |-> IF w \in S THEN None ELSE stored[w]]
    BY DEF LoginFails
  <2> QED
    BY <1>3, <2>1 DEF SessionInv, StoredOK, StoredTokenOwn
<1>7. LoadsOK' /\ syncing' \in BOOLEAN
  <2>1. Waiting(n) \in SUBSET Loads
    BY DEF Waiting
  <2>2. \A l \in Loads \ Waiting(n) :
          load[l].at = "login" => login'[load[l].login].at = login[load[l].login].at
    BY <1>3 DEF Waiting, SessionInv, LoadsOK, LoadOK, LoadType
  <2>3. Return(Waiting(n)) \/ ReturnAndClear(Waiting(n))
    BY DEF LoginFails
  <2> QED
    BY <1>3, <2>1, <2>2, <2>3, ReturnInv, ReturnAndClearInv
<1>8. PageOK'
  BY <1>7 DEF LoginFails, SessionInv, PageOK, Errors
<1> QED
  BY <1>4, <1>5, <1>6, <1>7, <1>8 DEF SessionInv

\* An aborted login takes with it all that wait, and nothing that is stored.
LEMMA LoginAbortsInv ==
  ASSUME SessionInv, NEW n \in Logins, LoginAborts(n)
  PROVE  SessionInv'
<1>1. login[n] \in LoginType /\ Ended(login[n]) \in LoginType /\ Ended(login[n]).at = "ended"
      /\ Ended(login[n]).wallet = login[n].wallet /\ login[n].at # "unused"
  BY LoginMarks DEF LoginAborts, SessionInv, LoginsOK
<1>2. login' = [login EXCEPT ![n] = Ended(login[n])]
  BY DEF LoginAborts
<1>3. /\ \A m \in Logins : login'[m].wallet = login[m].wallet
      /\ \A m \in Logins \ {n} : login'[m].at = login[m].at
  BY <1>1, <1>2 DEF SessionInv, LoginsOK
<1>4. LoginsOK'
  BY <1>1, <1>2 DEF SessionInv, LoginsOK
<1>5. TokensOK'
  BY <1>3 DEF LoginAborts, SessionInv, TokensOK
<1>6. StoredOK'
  BY <1>3, StoreSame DEF LoginAborts, SessionInv
<1>7. LoadsOK' /\ syncing' \in BOOLEAN
  <2>1. Waiting(n) \in SUBSET Loads
    BY DEF Waiting
  <2>2. \A l \in Loads \ Waiting(n) :
          load[l].at = "login" => login'[load[l].login].at = login[load[l].login].at
    BY <1>3 DEF Waiting, SessionInv, LoadsOK, LoadOK, LoadType
  <2> QED
    BY <1>3, <2>1, <2>2, ReturnInv DEF LoginAborts
<1>8. PageOK'
  BY <1>7 DEF LoginAborts, SessionInv, PageOK
<1> QED
  BY <1>4, <1>5, <1>6, <1>7, <1>8 DEF SessionInv

-----------------------------------------------------------------------------
(* The steps of a load.                                                     *)

\* ensureBackendSession with a token that has an owner, for a load of a wallet.
LEMMA EnsureSessionInv ==
  ASSUME SessionInv, NEW l \in Loads, NEW asked \in LoadType, asked.wallet # None,
         NEW t \in Logins \cup {None}, t # None => login[t].wallet # None,
         EnsureSession(l, asked, t)
  PROVE  /\ LoginsOK' /\ LoadsOK'
         /\ promise' \in Logins \cup {None} /\ (promise' # None => Pending(promise)')
         /\ \A n \in Logins : login[n].at # "unused" => login'[n].wallet = login[n].wallet
<1>1. CASE t # None
  <2>1. /\ load' = [load EXCEPT ![l] = [asked EXCEPT !.at = "sync", !.token = t]]
        /\ UNCHANGED <<login, promise>>
    BY <1>1 DEF EnsureSession
  <2>2. LoginsOK' /\ promise' \in Logins \cup {None} /\ (promise' # None => Pending(promise)')
    BY <2>1 DEF SessionInv, LoginsOK, TokensOK, Pending
  <2>3. [asked EXCEPT !.at = "sync", !.token = t] \in LoadType
    BY <1>1 DEF LoadType, LoadStages
  <2>4. load' \in [Loads -> LoadType]
    BY <2>1, <2>3 DEF SessionInv, LoadsOK
  <2>5. ASSUME NEW k \in Loads PROVE LoadOK(k)'
    <3>1. CASE k = l
      BY <1>1, <2>1, <3>1 DEF LoadOK, LoadType, SessionInv, LoadsOK
    <3>2. CASE k # l
      BY <2>1, <3>2 DEF LoadOK, Pending, SessionInv, LoadsOK
    <3> QED
      BY <3>1, <3>2
  <2> QED
    BY <2>1, <2>2, <2>4, <2>5 DEF LoadsOK
<1>2. CASE t = None /\ promise # None
  <2>1. /\ load' = [load EXCEPT ![l] = [asked EXCEPT !.at = "login", !.login = promise]]
        /\ UNCHANGED <<login, promise>>
    BY <1>2 DEF EnsureSession
  <2>2. promise \in Logins /\ Pending(promise)
    BY <1>2 DEF SessionInv, TokensOK
  <2>3. LoginsOK' /\ promise' \in Logins \cup {None} /\ (promise' # None => Pending(promise)')
    BY <2>1 DEF SessionInv, LoginsOK, TokensOK, Pending
  <2>4. [asked EXCEPT !.at = "login", !.login = promise] \in LoadType
    BY <2>2 DEF LoadType, LoadStages
  <2>5. load' \in [Loads -> LoadType]
    BY <2>1, <2>4 DEF SessionInv, LoadsOK
  <2>6. ASSUME NEW k \in Loads PROVE LoadOK(k)'
    <3>1. CASE k = l
      BY <1>2, <2>1, <2>2, <3>1 DEF LoadOK, LoadType, Pending, SessionInv, LoadsOK
    <3>2. CASE k # l
      BY <2>1, <3>2 DEF LoadOK, Pending, SessionInv, LoadsOK
    <3> QED
      BY <3>1, <3>2
  <2> QED
    BY <2>1, <2>3, <2>5, <2>6 DEF LoadsOK
<1>3. CASE t = None /\ promise = None
  <2> PICK n \in NextLogin :
        /\ login' = [login EXCEPT ![n] =
             [wallet |-> asked.wallet, signal |-> asked.signal,
              at |-> "challenge", old |-> FALSE]]
        /\ promise' = n
        /\ load' = [load EXCEPT ![l] = [asked EXCEPT !.at = "login", !.login = n]]
    BY <1>3 DEF EnsureSession
  <2>1. n \in Logins /\ login[n].at = "unused" /\ n # None
    BY NextLoginNew, SessionAssumption
  <2>2. [wallet |-> asked.wallet, signal |-> asked.signal, at |-> "challenge", old |-> FALSE]
          \in LoginType
    BY DEF LoadType, LoginType, LoginStages
  <2>3. LoginsOK'
    BY <2>1, <2>2 DEF SessionInv, LoginsOK
  <2>4. promise' \in Logins \cup {None} /\ (promise' # None => Pending(promise)')
    BY <2>1 DEF Pending, SessionInv, LoginsOK
  <2>5. \A m \in Logins : login[m].at # "unused" =>
          login'[m].wallet = login[m].wallet /\ login'[m].at = login[m].at
    BY <2>1 DEF SessionInv, LoginsOK
  <2>6. [asked EXCEPT !.at = "login", !.login = n] \in LoadType
    BY <2>1 DEF LoadType, LoadStages
  <2>7. load' \in [Loads -> LoadType]
    BY <2>6 DEF SessionInv, LoadsOK
  <2>8. ASSUME NEW k \in Loads PROVE LoadOK(k)'
    <3>1. CASE k = l
      BY <2>1, <3>1 DEF LoadOK, LoadType, Pending, SessionInv, LoadsOK, LoginsOK
    <3>2. CASE k # l
      <4>1. load'[k] = load[k] /\ load[k] \in LoadType /\ LoadOK(k)
        BY <3>2 DEF SessionInv, LoadsOK
      <4>2. load[k].at = "login" => Pending(load[k].login)'
        BY <2>5, <4>1 DEF LoadOK, LoadType, Pending
      <4>3. load[k].at \in {"sync", "data"} => login'[load[k].token].wallet # None
        BY <2>5, <4>1 DEF LoadOK, LoadType, SessionInv, LoginsOK
      <4> QED
        BY <4>1, <4>2, <4>3 DEF LoadOK, Pending
    <3> QED
      BY <3>1, <3>2
  <2> QED
    BY <2>3, <2>4, <2>5, <2>7, <2>8 DEF LoadsOK
<1> QED
  BY <1>1, <1>2, <1>3

\* A load that ends, with its data on the page, abandoned, or with a message: the
\* page shows a wallet that signed for the token of the load, or what it showed.
LEMMA LoadEndsInv ==
  ASSUME SessionInv, NEW l \in Loads, Commit(l) \/ Abandon(l) \/ Report(l)
  PROVE  SessionInv'
<1>1. /\ Return({l})
      /\ UNCHANGED <<address, signer, token, stored, promise, login, live, leaving>>
  BY DEF Commit, Abandon, Report
<1>2. LoadsOK' /\ syncing' \in BOOLEAN
  BY <1>1, ReturnInv
<1>3. LoginsOK' /\ TokensOK' /\ StoredOK'
  BY <1>1 DEF SessionInv, LoginsOK, TokensOK, StoredOK, StoredTokenOwn, Pending
<1>4. shown' \in Wallets \cup {None} /\ loaded' \in BOOLEAN /\ error' \in Errors
  <2>1. CASE Commit(l)
    <3>1. load[l] \in LoadType /\ LoadOK(l) /\ load[l].at = "data"
      BY <2>1 DEF Commit, SessionInv, LoadsOK
    <3>2. login[load[l].token].wallet \in Wallets
      BY <3>1 DEF LoadOK, LoadType, SessionInv, LoginsOK, LoginType
    <3> QED
      BY <2>1, <3>2 DEF Commit, LoadedAfter, SessionInv, PageOK, Errors
  <2>2. CASE Abandon(l) \/ Report(l)
    BY <2>2 DEF Abandon, Report, SessionInv, PageOK
  <2> QED
    BY <2>1, <2>2
<1>5. PageOK'
  BY <1>1, <1>2, <1>4 DEF SessionInv, PageOK
<1> QED
  BY <1>2, <1>3, <1>5 DEF SessionInv

\* The answers of the backend are held until they are committed.
LEMMA BackendAnswersInv ==
  ASSUME SessionInv, NEW l \in Loads, BackendAnswers(l)
  PROVE  SessionInv'
<1>1. /\ load[l].at = "sync" /\ load' = [load EXCEPT ![l].at = "data"]
      /\ UNCHANGED <<address, signer, token, stored, promise, login, live, shown,
                     loaded, syncing, error, leaving>>
  BY DEF BackendAnswers
<1>2. LoadsOK'
  <2>1. load' \in [Loads -> LoadType]
    BY <1>1 DEF SessionInv, LoadsOK, LoadType, LoadStages
  <2>2. ASSUME NEW k \in Loads PROVE LoadOK(k)'
    BY <1>1 DEF SessionInv, LoadsOK, LoadOK, LoadType, Pending
  <2> QED
    BY <2>1, <2>2 DEF LoadsOK
<1>3. LoginsOK' /\ TokensOK' /\ StoredOK' /\ PageOK'
  BY <1>1 DEF SessionInv, LoginsOK, TokensOK, StoredOK, StoredTokenOwn, Pending, PageOK
<1> QED
  BY <1>2, <1>3 DEF SessionInv

\* Marks on all logins, and then on all loads, disturb neither.
LEMMA MarkedLogins ==
  ASSUME SessionInv,
         \/ login' = [n \in Logins |-> Outlived(login[n])]
         \/ login' = [n \in Logins |-> Aborted(login[n])]
  PROVE  /\ LoginsOK'
         /\ \A n \in Logins : login'[n].at = login[n].at /\ login'[n].wallet = login[n].wallet
<1>1. \A n \in Logins :
        /\ Outlived(login[n]) \in LoginType /\ Outlived(login[n]).at = login[n].at
        /\ Outlived(login[n]).wallet = login[n].wallet
        /\ Aborted(login[n]) \in LoginType /\ Aborted(login[n]).at = login[n].at
        /\ Aborted(login[n]).wallet = login[n].wallet
  BY LoginMarks DEF SessionInv, LoginsOK
<1>2. /\ login' \in [Logins -> LoginType]
      /\ \A n \in Logins : login'[n].at = login[n].at /\ login'[n].wallet = login[n].wallet
  BY <1>1
<1> QED
  BY <1>2 DEF SessionInv, LoginsOK

\* The loads, beside logins that keep their stage and their wallet.
LEMMA MarkedLoads ==
  ASSUME SessionInv,
         \/ load' = [l \in Loads |-> Outlived(load[l])]
         \/ load' = [l \in Loads |-> Aborted(load[l])],
         \A n \in Logins : login'[n].at = login[n].at /\ login'[n].wallet = login[n].wallet
  PROVE  LoadsOK'
<1>1. \A l \in Loads :
        /\ load'[l] \in LoadType /\ load'[l].at = load[l].at
        /\ load'[l].wallet = load[l].wallet
        /\ load'[l].login = load[l].login /\ load'[l].token = load[l].token
  BY LoadMarks DEF SessionInv, LoadsOK
<1>2. load' \in [Loads -> LoadType]
  BY <1>1
<1>3. \A l \in Loads : load[l].at = "login" => Pending(load[l].login)'
  BY <1>1 DEF SessionInv, LoadsOK, LoadOK, LoadType, Pending
<1> QED
  BY <1>1, <1>2, <1>3, LoadsKept

\* A failed load clears its wallet's session and the page under all the others.
LEMMA LoadFailsInv ==
  ASSUME SessionInv, NEW l \in Loads, LoadFails(l)
  PROVE  SessionInv'
<1>1. load[l] \in LoadType /\ ReturnAndClear({l})
  BY DEF LoadFails, SessionInv, LoadsOK
<1>2. LoginsOK' /\ \A n \in Logins : /\ login'[n].at = login[n].at
                                     /\ login'[n].wallet = login[n].wallet
  BY MarkedLogins DEF LoadFails
<1>3. \A k \in Loads \ {l} :
        load[k].at = "login" => login'[load[k].login].at = login[load[k].login].at
  BY <1>2 DEF SessionInv, LoadsOK, LoadOK, LoadType
<1>4. LoadsOK' /\ syncing' \in BOOLEAN
  BY <1>1, <1>2, <1>3, ReturnAndClearInv
<1>5. StoredOK'
  BY <1>1, <1>2, StoreNone DEF LoadFails, ResetBorrower, LoadType, SessionInv
<1>6. TokensOK' /\ PageOK'
  BY <1>4 DEF LoadFails, ResetBorrower, TokensOK, SessionInv, PageOK, Errors
<1> QED
  BY <1>2, <1>4, <1>5, <1>6 DEF SessionInv

\* A refused token is forgotten for the load's wallet and a session is ensured.
LEMMA SignInAgainInv ==
  ASSUME SessionInv, NEW l \in Loads, SignInAgain(l)
  PROVE  SessionInv'
<1> DEFINE asked == [load[l] EXCEPT !.token = None]
<1>1. load[l] \in LoadType /\ LoadOK(l) /\ load[l].at = "sync"
  BY DEF SignInAgain, SessionInv, LoadsOK
<1>2. asked \in LoadType /\ asked.wallet # None
  BY <1>1 DEF LoadType, LoadOK
<1>3. EnsureSession(l, asked, None)
  BY DEF SignInAgain
<1>4. /\ LoginsOK' /\ LoadsOK'
      /\ promise' \in Logins \cup {None} /\ (promise' # None => Pending(promise)')
      /\ \A n \in Logins : login[n].at # "unused" => login'[n].wallet = login[n].wallet
  BY <1>2, <1>3, EnsureSessionInv
<1>5. token' = None /\ stored' = Keep(stored, load[l].wallet, None)
  BY DEF SignInAgain, Assign
<1>6. StoredOK'
  BY <1>1, <1>4, <1>5, StoreNone DEF LoadType, SessionInv
<1>7. TokensOK' /\ PageOK'
  BY <1>4, <1>5 DEF SignInAgain, TokensOK, SessionInv, PageOK
<1> QED
  BY <1>4, <1>6, <1>7 DEF SessionInv

-----------------------------------------------------------------------------
(* What the user, the wallet and the backend do.                            *)

\* A full load starts with the token kept for its wallet, or the one in memory.
LEMMA RetryInv ==
  ASSUME SessionInv, NEW l \in Loads, Retry(l)
  PROVE  SessionInv'
<1> DEFINE kept == stored[address]
           t == IF kept # None THEN kept ELSE token
           asked == [kind |-> "retry", wallet |-> address, signal |-> "none", at |-> "idle",
                     token |-> None, login |-> None, signed |-> signer, old |-> FALSE]
<1>1. address \in Wallets /\ kept \in Logins \cup {None}
  BY DEF Retry, SessionInv, PageOK, StoredOK
<1>2. asked \in LoadType /\ asked.wallet # None
  BY <1>1, SessionAssumption
     DEF LoadType, LoadStages, Kinds, Signals, SessionInv, PageOK
<1>3. kept # None => login[kept].wallet # None
  BY <1>1, SessionAssumption DEF SessionInv, StoredOK, StoredTokenOwn
<1>4. t \in Logins \cup {None} /\ (t # None => login[t].wallet # None)
  BY <1>1, <1>3 DEF SessionInv, TokensOK
<1>5. EnsureSession(l, asked, t)
  BY DEF Retry, BeginFullLoad
<1>6. /\ LoginsOK' /\ LoadsOK'
      /\ promise' \in Logins \cup {None} /\ (promise' # None => Pending(promise)')
      /\ \A n \in Logins : login[n].at # "unused" => login'[n].wallet = login[n].wallet
  BY <1>2, <1>4, <1>5, EnsureSessionInv
<1>7. stored' = stored /\ token' = t
  BY <1>1 DEF Retry, BeginFullLoad, Assign, Keep, SessionInv, StoredOK
<1>8. StoredOK'
  BY <1>6, <1>7, StoreSame DEF SessionInv
<1>9. token' # None => login'[token'].wallet # None
  BY <1>4, <1>6, <1>7 DEF SessionInv, LoginsOK
<1>10. TokensOK' /\ PageOK'
  BY <1>4, <1>6, <1>7, <1>9 DEF Retry, BeginFullLoad, TokensOK, SessionInv, PageOK, Errors
<1> QED
  BY <1>6, <1>8, <1>10 DEF SessionInv

\* A handler of the page ensures a session and changes nothing else.
LEMMA StartHandlerInv ==
  ASSUME SessionInv, NEW l \in Loads, NEW kind \in {"analyze", "action"},
         StartHandler(l, kind)
  PROVE  SessionInv'
<1> DEFINE asked == [kind |-> kind, wallet |-> address, signal |-> "none", at |-> "idle",
                     token |-> None, login |-> None, signed |-> TRUE, old |-> FALSE]
<1>1. asked \in LoadType /\ asked.wallet # None
  BY DEF StartHandler, LoadType, LoadStages, Kinds, Signals, SessionInv, PageOK
<1>2. EnsureSession(l, asked, token)
  BY DEF StartHandler
<1>3. token \in Logins \cup {None} /\ (token # None => login[token].wallet # None)
  BY DEF SessionInv, TokensOK
<1>4. /\ LoginsOK' /\ LoadsOK'
      /\ promise' \in Logins \cup {None} /\ (promise' # None => Pending(promise)')
      /\ \A n \in Logins : login[n].at # "unused" => login'[n].wallet = login[n].wallet
  BY <1>1, <1>2, <1>3, EnsureSessionInv
<1>5. token' = token /\ stored' = stored
  BY DEF StartHandler
<1>6. StoredOK'
  BY <1>4, <1>5, StoreSame DEF SessionInv
<1>7. token' # None => login'[token'].wallet # None
  BY <1>3, <1>4, <1>5 DEF SessionInv, LoginsOK
<1>8. TokensOK' /\ PageOK'
  BY <1>3, <1>4, <1>5, <1>7 DEF StartHandler, TokensOK, SessionInv, PageOK
<1> QED
  BY <1>4, <1>6, <1>8 DEF SessionInv

\* A refresh fetches with a token at hand.
LEMMA RefreshInv ==
  ASSUME SessionInv, NEW l \in Loads, Refresh(l)
  PROVE  SessionInv'
<1> DEFINE t == IF token # None THEN token ELSE stored[address]
           begun == [kind |-> "refresh", wallet |-> address, signal |-> "none",
                     at |-> "sync", token |-> t, login |-> None, signed |-> signer,
                     old |-> FALSE]
<1>1. /\ address \in Wallets /\ t # None /\ load' = [load EXCEPT ![l] = begun]
      /\ UNCHANGED <<address, signer, token, stored, promise, login, live, shown,
                     loaded, syncing, error, leaving>>
  BY DEF Refresh, SessionInv, PageOK
<1>2. t \in Logins /\ login[t].wallet # None
  BY <1>1, SessionAssumption DEF SessionInv, TokensOK, StoredOK, StoredTokenOwn
<1>3. begun \in LoadType
  BY <1>1, <1>2 DEF LoadType, LoadStages, Kinds, Signals, SessionInv, PageOK
<1>4. load' \in [Loads -> LoadType]
  BY <1>1, <1>3 DEF SessionInv, LoadsOK
<1>5. ASSUME NEW k \in Loads PROVE LoadOK(k)'
  <2>1. CASE k = l
    <3>1. load'[k] = begun
      BY <1>1, <2>1 DEF SessionInv, LoadsOK
    <3> QED
      BY <1>1, <1>2, <3>1, SessionAssumption DEF LoadOK
  <2>2. CASE k # l
    BY <1>1, <2>2 DEF LoadOK, Pending, SessionInv, LoadsOK
  <2> QED
    BY <2>1, <2>2
<1>6. LoginsOK' /\ TokensOK' /\ StoredOK' /\ PageOK'
  BY <1>1 DEF SessionInv, LoginsOK, TokensOK, StoredOK, StoredTokenOwn, Pending, PageOK
<1> QED
  BY <1>4, <1>5, <1>6 DEF SessionInv, LoadsOK

\* A retry that cannot sign in, and a logout, clear one wallet's session.
LEMMA ClearInv ==
  ASSUME SessionInv, RetryWithoutSigner \/ Logout
  PROVE  SessionInv'
<1>1. /\ login' = [n \in Logins |-> Outlived(login[n])]
      /\ load' = [l \in Loads |-> Outlived(load[l])]
  BY DEF RetryWithoutSigner, Logout
<1>2. LoginsOK' /\ \A n \in Logins : /\ login'[n].at = login[n].at
                                     /\ login'[n].wallet = login[n].wallet
  BY <1>1, MarkedLogins
<1>3. LoadsOK'
  BY <1>1, <1>2, MarkedLoads
<1>4. PICK w \in Wallets \cup {None} : ResetBorrower(w)
  BY DEF RetryWithoutSigner, Logout, SessionInv, PageOK
<1>5. StoredOK'
  BY <1>2, <1>4, StoreNone DEF ResetBorrower, SessionInv
<1>6. TokensOK' /\ PageOK'
  BY <1>4 DEF RetryWithoutSigner, Logout, ResetBorrower, TokensOK, SessionInv, PageOK, Errors
<1> QED
  BY <1>2, <1>3, <1>5, <1>6 DEF SessionInv

\* The effect of an account that left is cleaned up; what is stored stays.
LEMMA DisconnectInv ==
  ASSUME SessionInv, Disconnect \/ \E w \in Wallets : ConnectWithoutSigner(w)
  PROVE  SessionInv'
<1>1. /\ login' = [n \in Logins |-> Aborted(login[n])]
      /\ load' = [l \in Loads |-> Aborted(load[l])]
  BY DEF Disconnect, ConnectWithoutSigner
<1>2. LoginsOK' /\ \A n \in Logins : /\ login'[n].at = login[n].at
                                     /\ login'[n].wallet = login[n].wallet
  BY <1>1, MarkedLogins
<1>3. LoadsOK'
  BY <1>1, <1>2, MarkedLoads
<1>4. stored' = stored
  BY DEF Disconnect, ConnectWithoutSigner, ResetBorrower, Keep
<1>5. StoredOK'
  BY <1>2, <1>4, StoreSame DEF SessionInv
<1>6. \/ token' = None /\ promise' = None
      \/ UNCHANGED <<token, promise>>
  BY DEF Disconnect, ConnectWithoutSigner, ResetBorrower
<1>7. TokensOK'
  BY <1>2, <1>6 DEF SessionInv, TokensOK, Pending
<1>8. PageOK'
  BY DEF Disconnect, ConnectWithoutSigner, ResetBorrower, SessionInv, PageOK, Errors
<1> QED
  BY <1>2, <1>3, <1>5, <1>7, <1>8 DEF SessionInv

\* The effect of the new account: beside the marks, a load for it that fetches with
\* a token of its own or in memory, joins the login under way, or begins one.
LEMMA ConnectInv ==
  ASSUME SessionInv, NEW w \in Wallets, NEW l \in NextLoad, Connect(w, l)
  PROVE  SessionInv'
<1> DEFINE t == IF stored[w] # None THEN stored[w] ELSE token
           cut == [k \in Loads |-> Aborted(load[k])]
           ended == [n \in Logins |-> Aborted(login[n])]
           boot == [kind |-> "bootstrap", wallet |-> w, signal |-> "live", at |-> "login",
                    token |-> None, login |-> promise, signed |-> TRUE, old |-> FALSE]
<1>1. l \in Loads /\ w # None
  BY NextLoadIdle, SessionAssumption
<1>2. t \in Logins \cup {None} /\ (t # None => login[t].wallet # None)
  BY <1>1, SessionAssumption DEF SessionInv, TokensOK, StoredOK, StoredTokenOwn
<1>3. token' = t /\ stored' = stored
  BY <1>1 DEF Connect, Assign, Keep, SessionInv, StoredOK
<1>4. /\ ended \in [Logins -> LoginType]
      /\ \A n \in Logins : ended[n].at = login[n].at /\ ended[n].wallet = login[n].wallet
  <2>1. \A n \in Logins : /\ Aborted(login[n]) \in LoginType
                          /\ Aborted(login[n]).at = login[n].at
                          /\ Aborted(login[n]).wallet = login[n].wallet
    BY LoginMarks DEF SessionInv, LoginsOK
  <2> QED
    BY <2>1
<1>5. /\ cut \in [Loads -> LoadType]
      /\ \A k \in Loads : /\ cut[k].at = load[k].at /\ cut[k].wallet = load[k].wallet
                          /\ cut[k].login = load[k].login /\ cut[k].token = load[k].token
  <2>1. \A k \in Loads : /\ Aborted(load[k]) \in LoadType
                         /\ Aborted(load[k]).at = load[k].at
                         /\ Aborted(load[k]).wallet = load[k].wallet
                         /\ Aborted(load[k]).login = load[k].login
                         /\ Aborted(load[k]).token = load[k].token
    BY LoadMarks DEF SessionInv, LoadsOK
  <2> QED
    BY <2>1
<1>6. PICK begun \in LoadType :
        /\ load' = [cut EXCEPT ![l] = begun]
        /\ begun.wallet = w
        /\ begun.at = "sync" \/ begun.at = "login"
        /\ begun.at = "sync" => begun.token = t /\ t # None
        /\ begun.at = "login" => begun.login = promise' /\ promise' # None
  <2>1. CASE t # None
    <3>1. load' = [cut EXCEPT ![l] = [boot EXCEPT !.at = "sync", !.token = t, !.login = None]]
      BY <2>1 DEF Connect
    <3>2. [boot EXCEPT !.at = "sync", !.token = t, !.login = None] \in LoadType
      BY <1>2, <2>1 DEF LoadType, LoadStages, Kinds, Signals
    <3> QED
      BY <2>1, <3>1, <3>2
  <2>2. CASE t = None /\ promise # None
    <3>1. load' = [cut EXCEPT ![l] = boot] /\ promise' = promise
      BY <2>2 DEF Connect
    <3>2. boot \in LoadType
      BY DEF LoadType, LoadStages, Kinds, Signals, SessionInv, TokensOK
    <3> QED
      BY <2>2, <3>1, <3>2
  <2>3. CASE t = None /\ promise = None
    <3>1. PICK n \in NextLogin :
            load' = [cut EXCEPT ![l] = [boot EXCEPT !.login = n]] /\ promise' = n
      BY <2>3 DEF Connect
    <3>2. n \in Logins /\ n # None
      BY NextLoginNew, SessionAssumption
    <3>3. [boot EXCEPT !.login = n] \in LoadType
      BY <3>2 DEF LoadType, LoadStages, Kinds, Signals
    <3> QED
      BY <3>1, <3>2, <3>3
  <2> QED
    BY <2>1, <2>2, <2>3
<1>7. /\ LoginsOK'
      /\ \A n \in Logins : login[n].at # "unused" =>
           login'[n].wallet = login[n].wallet /\ login'[n].at = login[n].at
      /\ promise' \in Logins \cup {None} /\ (promise' # None => Pending(promise)')
  <2>1. CASE login' = ended /\ promise' = promise
    BY <1>4, <2>1 DEF SessionInv, LoginsOK, TokensOK, Pending
  <2>2. CASE ~(login' = ended /\ promise' = promise)
    <3>1. PICK n \in NextLogin :
            /\ login' = [ended EXCEPT ![n] =
                 [wallet |-> w, signal |-> "live", at |-> "challenge", old |-> FALSE]]
            /\ promise' = n
      BY <2>2 DEF Connect
    <3>2. n \in Logins /\ login[n].at = "unused"
      BY NextLoginNew
    <3>3. [wallet |-> w, signal |-> "live", at |-> "challenge", old |-> FALSE] \in LoginType
      BY DEF LoginType, LoginStages, Signals
    <3>4. LoginsOK' /\ login'[n].at = "challenge"
      BY <1>1, <1>4, <3>1, <3>2, <3>3 DEF SessionInv, LoginsOK
    <3>5. \A m \in Logins : login[m].at # "unused" =>
            login'[m].wallet = login[m].wallet /\ login'[m].at = login[m].at
      BY <1>4, <3>1, <3>2
    <3> QED
      BY <3>1, <3>2, <3>4, <3>5 DEF Pending
  <2> QED
    BY <2>1, <2>2
<1>8. LoadsOK'
  <2>1. load' \in [Loads -> LoadType]
    BY <1>1, <1>5, <1>6
  <2>2. ASSUME NEW k \in Loads PROVE LoadOK(k)'
    <3>1. CASE k = l
      <4>1. load'[k] = begun
        BY <1>5, <1>6, <3>1
      <4>2. begun.at = "sync" => login'[begun.token].wallet # None
        BY <1>2, <1>6, <1>7 DEF SessionInv, LoginsOK
      <4> QED
        BY <1>1, <1>6, <1>7, <4>1, <4>2 DEF LoadOK, Pending
    <3>2. CASE k # l
      <4>1. /\ load'[k].at = load[k].at /\ load'[k].wallet = load[k].wallet
            /\ load'[k].login = load[k].login /\ load'[k].token = load[k].token
        BY <1>5, <1>6, <3>2
      <4>2. load[k] \in LoadType /\ LoadOK(k)
        BY DEF SessionInv, LoadsOK
      <4>3. load[k].at = "login" => Pending(load[k].login)'
        BY <1>7, <4>1, <4>2 DEF LoadOK, LoadType, Pending
      <4>4. load[k].at \in {"sync", "data"} => login'[load[k].token].wallet # None
        BY <1>7, <4>2 DEF LoadOK, LoadType, SessionInv, LoginsOK
      <4> QED
        BY <4>1, <4>2, <4>3, <4>4 DEF LoadOK, Pending
    <3> QED
      BY <3>1, <3>2
  <2> QED
    BY <2>1, <2>2 DEF LoadsOK
<1>9. StoredOK'
  BY <1>3, <1>7, StoreSame DEF SessionInv
<1>10. token' # None => login'[token'].wallet # None
  BY <1>2, <1>3, <1>7 DEF SessionInv, LoginsOK
<1>11. TokensOK' /\ PageOK'
  BY <1>2, <1>3, <1>7, <1>10 DEF Connect, TokensOK, SessionInv, PageOK, Errors
<1> QED
  BY <1>7, <1>8, <1>9, <1>11 DEF SessionInv

\* The backend is asked for a logout, or forgets a session by itself.
LEMMA BackendForgetsInv ==
  ASSUME SessionInv, AskLogout \/ \E n \in Logins : Expire(n)
  PROVE  SessionInv'
<1>1. /\ UNCHANGED <<address, signer, token, stored, promise, login, load, shown,
                     loaded, syncing, error>>
      /\ leaving' \in Wallets \cup {None} /\ live' \subseteq live
  BY DEF AskLogout, Expire, SessionInv, PageOK
<1>2. LoadsOK'
  BY <1>1 DEF SessionInv, LoadsOK, LoadOK, Pending
<1> QED
  BY <1>1, <1>2
     DEF SessionInv, LoginsOK, TokensOK, StoredOK, StoredTokenOwn, Pending, PageOK

\* A reload leaves what is stored, and of each login the wallet it is for.
LEMMA ReloadInv ==
  ASSUME SessionInv, Reload
  PROVE  SessionInv'
<1>1. \A n \in Logins : /\ login[n] \in LoginType /\ Ended(login[n]) \in LoginType
                        /\ Ended(login[n]).at = "ended"
                        /\ Ended(login[n]).wallet = login[n].wallet
  BY LoginMarks DEF SessionInv, LoginsOK
<1>2. login' = [n \in Logins |-> IF login[n].at = "unused" THEN login[n] ELSE Ended(login[n])]
  BY DEF Reload
<1>3. LoginsOK' /\ \A n \in Logins : login'[n].wallet = login[n].wallet
  BY <1>1, <1>2 DEF SessionInv, LoginsOK
<1>4. LoadsOK'
  BY IdleType DEF Reload, LoadsOK, LoadOK
<1>5. StoredOK'
  BY <1>3, StoreSame DEF Reload, SessionInv
<1>6. TokensOK' /\ PageOK'
  BY DEF Reload, TokensOK, SessionInv, PageOK, Errors
<1> QED
  BY <1>3, <1>4, <1>5, <1>6 DEF SessionInv

-----------------------------------------------------------------------------
(* The theorems.                                                            *)

Inv == SessionInv /\ moves \in 0..MaxMoves

\* The page before a wallet is connected.
LEMMA InitInv == Init => Inv
<1> SUFFICES ASSUME Init PROVE Inv
  OBVIOUS
<1>1. Unused \in LoginType /\ Unused.at = "unused" /\ Unused.wallet = None
  BY DEF Unused, LoginType, Signals, LoginStages
<1>2. LoginsOK
  BY <1>1 DEF Init, LoginsOK
<1>3. LoadsOK
  BY IdleType DEF Init, LoadsOK, LoadOK
<1>4. TokensOK /\ StoredOK /\ PageOK
  BY DEF Init, TokensOK, StoredOK, StoredTokenOwn, PageOK, Errors
<1> QED
  BY <1>2, <1>3, <1>4, SessionAssumption DEF Init, Inv, SessionInv

\* Every step of the browser, the wallet, the user and the backend keeps it.
LEMMA NextInv == Inv /\ [Next]_vars => Inv'
<1> SUFFICES ASSUME Inv, [Next]_vars
             PROVE  Inv'
  OBVIOUS
<1> USE DEF Inv
<1>1. ASSUME NEW n \in Logins, LoginStep(n) PROVE SessionInv' /\ moves' = moves
  <2>1. CASE ChallengeArrives(n) \/ UserSigns(n)
    BY <2>1, ChallengeArrivesInv DEF ChallengeArrives, UserSigns
  <2>2. CASE LoginSucceeds(n)
    BY <2>2, LoginSucceedsInv DEF LoginSucceeds
  <2>3. CASE LoginFails(n, "cancelled") \/ LoginFails(n, "failed")
    BY <2>3, LoginFailsInv DEF LoginFails
  <2>4. CASE LoginAborts(n)
    BY <2>4, LoginAbortsInv DEF LoginAborts
  <2> QED
    BY <1>1, <2>1, <2>2, <2>3, <2>4 DEF LoginStep
<1>2. ASSUME NEW l \in Loads, LoadStep(l) PROVE SessionInv' /\ moves' = moves
  <2>1. CASE BackendAnswers(l)
    BY <2>1, BackendAnswersInv DEF BackendAnswers
  <2>2. CASE Commit(l) \/ Abandon(l) \/ Report(l)
    BY <2>2, LoadEndsInv DEF Commit, Abandon, Report
  <2>3. CASE SignInAgain(l)
    BY <2>3, SignInAgainInv DEF SignInAgain
  <2>4. CASE LoadFails(l)
    BY <2>4, LoadFailsInv DEF LoadFails
  <2> QED
    BY <1>2, <2>1, <2>2, <2>3, <2>4 DEF LoadStep
<1>3. Move => moves' \in 0..MaxMoves
  BY SessionAssumption DEF Move
<1>4. ASSUME UserStep PROVE SessionInv'
  <2>1. CASE \E l \in NextLoad :
                \/ Retry(l) \/ Refresh(l)
                \/ Analyze(l) \/ RefreshUsername(l) \/ ClaimFaucet(l) \/ ApplyReferralCode(l)
    BY <2>1, NextLoadIdle, RetryInv, RefreshInv, StartHandlerInv
       DEF Analyze, RefreshUsername, ClaimFaucet, ApplyReferralCode
  <2>2. CASE RetryWithoutSigner \/ AskLogout \/ Reload
    BY <2>2, ClearInv, BackendForgetsInv, ReloadInv
  <2> QED
    BY <1>4, <2>1, <2>2 DEF UserStep
<1>5. ASSUME AccountStep PROVE SessionInv'
  BY <1>5, DisconnectInv, ConnectInv DEF AccountStep
<1>6. ASSUME ExpireStep PROVE SessionInv'
  BY <1>6, BackendForgetsInv DEF ExpireStep
<1>7. CASE Logout
  BY <1>7, ClearInv DEF Logout
<1>8. CASE UNCHANGED vars
  <2>1. LoadsOK'
    BY <1>8 DEF vars, SessionInv, LoadsOK, LoadOK, Pending
  <2> QED
    BY <1>8, <2>1 DEF vars, SessionInv, LoginsOK, TokensOK, StoredOK, StoredTokenOwn, Pending, PageOK
<1> QED
  BY <1>1, <1>2, <1>3, <1>4, <1>5, <1>6, <1>7, <1>8 DEF Next, UserStep, AccountStep, ExpireStep

\* The invariant holds in every behaviour.
LEMMA SpecInv == Spec => []Inv
<1>1. Init => Inv
  BY InitInv
<1>2. Inv /\ [Next]_vars => Inv'
  BY NextInv
<1> QED
  BY <1>1, <1>2, PTL DEF Spec

\* For any number of wallets, logins and loads: the session's state keeps its types,
\* the promise in sessionPromiseRef is of a login under way, no load waits for a
\* login that ended, and a load that fetches has a token a wallet signed for.
THEOREM SessionTypeHolds == Spec => []SessionTypeOK
<1>1. Inv => SessionTypeOK
  BY InvGivesProperties DEF Inv
<1> QED
  BY <1>1, SpecInv, PTL

\* For any number of wallets, logins and loads, in whatever order accounts change,
\* logins end and loads clear the session: a token stored for a wallet in local
\* storage is one this wallet signed for.
THEOREM StoredTokenOwnHolds == Spec => []StoredTokenOwn
<1>1. Inv => StoredTokenOwn
  BY InvGivesProperties DEF Inv
<1> QED
  BY <1>1, SpecInv, PTL

-----------------------------------------------------------------------------
(* What strands the page.  Work that belongs to the account at hand does not,  *)
(* because of three facts: only work that was outlived carries an aborted      *)
(* signal; a load that is not a full one and was not outlived began on a page  *)
(* that was loaded and still is; and every login under way is waited for.      *)

\* Of a load, when the page is loaded or not.
Owned(r, data) ==
  /\ r.signal # "none" => r.at # "idle"
  /\ r.signal = "aborted" => r.old
  /\ r.at # "idle" /\ ~r.old /\ r.kind \notin Full => data

\* Of a login.
Asking(r) ==
  /\ r.signal # "none" => r.at \in {"challenge", "prompt", "verify"}
  /\ r.signal = "aborted" => r.old

AllOwned == \A l \in Loads : Owned(load[l], loaded)
AllAsking == \A n \in Logins : Asking(login[n])
AllAwaited == \A n \in Logins : Pending(n) => Waiting(n) # {}

OwnWork == AllOwned /\ AllAsking /\ AllAwaited

\* Marks and aborts, and a load that returns, keep the first two facts; of the
\* third nothing is asked any more, whatever becomes of the page.
LEMMA MarksOwned ==
  ASSUME NEW r \in LoadType, NEW data, NEW later, Owned(r, data)
  PROVE  Owned(Outlived(r), later) /\ Owned(Aborted(r), later) /\ Owned(Idle, later)
<1>1. r.at \notin {"unused", "ended"}
  BY DEF LoadType, LoadStages
<1>2. Outlived(r) = [r EXCEPT !.old = (r.at # "idle")] /\ Outlived(r) \in LoadType
  BY <1>1, LoadMarks DEF Outlived
<1>3. /\ Outlived(r).at = r.at /\ Outlived(r).signal = r.signal
      /\ Outlived(r).old = (r.at # "idle")
  BY <1>2 DEF LoadType
<1>4. Owned(Outlived(r), later)
  BY <1>3 DEF Owned
<1>5. /\ Aborted(r).at = r.at /\ Aborted(r).old = (r.at # "idle")
      /\ Aborted(r).signal = IF r.signal = "live" THEN "aborted" ELSE r.signal
  BY <1>2, <1>3 DEF Aborted, LoadType
<1>6. Owned(Aborted(r), later)
  BY <1>5 DEF Owned
<1>7. Owned(Idle, later)
  BY DEF Owned, Idle
<1> QED
  BY <1>4, <1>6, <1>7

\* A load that goes on with the account's page as it is, or better.
LEMMA OwnedKept ==
  ASSUME NEW r, NEW data, NEW later, Owned(r, data), data => later
  PROVE  Owned(r, later)
BY DEF Owned

\* The same of logins.
LEMMA MarksAsking ==
  ASSUME NEW r \in LoginType, Asking(r)
  PROVE  Asking(Outlived(r)) /\ Asking(Aborted(r)) /\ Asking(Ended(r))
<1>1. /\ Outlived(r) \in LoginType /\ Outlived(r).at = r.at /\ Outlived(r).signal = r.signal
      /\ Outlived(r).old = (r.at \notin {"idle", "unused", "ended"})
  BY LoginMarks DEF LoginType, Outlived
<1>2. Asking(Outlived(r))
  BY <1>1 DEF Asking
<1>3. /\ Aborted(r).at = r.at /\ Aborted(r).old = (r.at \notin {"idle", "unused", "ended"})
      /\ Aborted(r).signal = IF r.signal = "live" THEN "aborted" ELSE r.signal
  BY <1>1 DEF Aborted, LoginType
<1>4. Asking(Aborted(r))
  BY <1>3 DEF Asking, LoginType, Signals
<1>5. Ended(r).signal = "none"
  BY DEF Ended, LoginType
<1> QED
  BY <1>2, <1>4, <1>5 DEF Asking

\* Who waits for a login that goes on.
LEMMA AwaitedKept ==
  ASSUME AllAwaited,
         \A n \in Logins : Pending(n)' =>
           \/ \E l \in Loads : load'[l].at = "login" /\ load'[l].login = n
           \/ /\ Pending(n)
              /\ \A l \in Waiting(n) : load'[l].at = "login" /\ load'[l].login = n
  PROVE  AllAwaited'
BY DEF AllAwaited, Waiting

\* The step of something that was outlived, and the steps the property is about.
OutlivedMoves ==
  \/ \E n \in Logins : login[n].old /\ login'[n] # login[n]
  \/ \E l \in Loads : load[l].old /\ load'[l] # load[l]
Explained == Stranded' /\ ~Stranded => OutlivedMoves

\* A load that will fill the page, or say why not.
AtWork(r) == r.at # "idle" /\ ~r.old /\ r.kind \in Full \cup {"analyze"}

\* The page is as it was, and what was at work for it still is.
LEMMA StillAtWork ==
  ASSUME UNCHANGED <<address, loaded, syncing, error>>,
         \A l \in Loads : AtWork(load[l]) => AtWork(load'[l])
  PROVE  Explained
BY DEF Explained, Stranded, SaysSyncing, AtWork

\* The page says something else, or is syncing.
LEMMA SaysElse ==
  ASSUME address' = None \/ loaded' \/ error' # "none" \/ syncing'
  PROVE  Explained
BY DEF Explained, Stranded, SaysSyncing

\* A login that goes on.
LEMMA ChallengeArrivesOwn ==
  ASSUME SessionInv, OwnWork, NEW n \in Logins, ChallengeArrives(n) \/ UserSigns(n)
  PROVE  OwnWork' /\ Explained
<1>1. /\ login[n].at \in {"challenge", "prompt"}
      /\ \E s \in {"prompt", "verify"} : login' = [login EXCEPT ![n].at = s]
      /\ UNCHANGED <<address, load, loaded, syncing, error>>
  BY DEF ChallengeArrives, UserSigns
<1>2. AllAsking'
  BY <1>1 DEF AllAsking, Asking, OwnWork, SessionInv, LoginsOK, LoginType
<1>3. \A m \in Logins : Pending(m)' => Pending(m)
  BY <1>1 DEF Pending, SessionInv, LoginsOK, LoginType
<1>4. AllAwaited'
  BY <1>1, <1>3, AwaitedKept DEF OwnWork, Waiting
<1>5. AllOwned'
  BY <1>1 DEF OwnWork, AllOwned
<1> QED
  BY <1>1, <1>2, <1>4, <1>5, StillAtWork DEF OwnWork

\* What a login that ends leaves of the logins, and of who waits for the others.
LEMMA LoginEndsOwn ==
  ASSUME SessionInv, OwnWork, NEW n \in Logins,
         login' = [login EXCEPT ![n] = Ended(@)],
         \A l \in Loads \ Waiting(n) : load'[l] = load[l]
  PROVE  AllAsking' /\ AllAwaited'
<1>1. /\ login[n] \in LoginType /\ login' = [login EXCEPT ![n] = Ended(login[n])]
      /\ Ended(login[n]).at = "ended" /\ Asking(Ended(login[n]))
  BY LoginMarks, MarksAsking DEF SessionInv, LoginsOK, OwnWork, AllAsking
<1>2. AllAsking'
  BY <1>1 DEF SessionInv, LoginsOK, OwnWork, AllAsking
<1>3. \A m \in Logins : Pending(m)' => m # n /\ Pending(m)
  BY <1>1 DEF Pending, SessionInv, LoginsOK
<1>4. \A m \in Logins \ {n} : \A l \in Waiting(m) :
        l \in Loads \ Waiting(n) /\ load[l].at = "login" /\ load[l].login = m
  BY DEF Waiting
<1>5. AllAwaited'
  BY <1>3, <1>4, AwaitedKept DEF OwnWork
<1> QED
  BY <1>2, <1>5

\* A login that succeeds finds somebody waiting.  If all of them belong to the
\* account at hand, one is a load that will fill the page, or the page is filled.
LEMMA LoginSucceedsOwn ==
  ASSUME SessionInv, OwnWork, NEW n \in Logins, LoginSucceeds(n)
  PROVE  OwnWork' /\ Explained
<1>1. /\ login' = [login EXCEPT ![n] = Ended(@)] /\ Pending(n)
      /\ \A l \in Loads \ Waiting(n) : load'[l] = load[l]
      /\ UNCHANGED <<address, loaded, syncing>>
  BY DEF LoginSucceeds, Pending
<1>2. AllAsking' /\ AllAwaited'
  BY <1>1, LoginEndsOwn
<1>3. ASSUME NEW l \in Loads
      PROVE  /\ Owned(load'[l], loaded')
             /\ AtWork(load[l]) => AtWork(load'[l])
             /\ l \in Waiting(n) => load'[l] # load[l]
  <2>1. load[l] \in LoadType /\ Owned(load[l], loaded)
    BY DEF SessionInv, LoadsOK, OwnWork, AllOwned
  <2>2. CASE l \notin Waiting(n)
    BY <1>1, <2>1, <2>2
  <2>3. CASE l \in Waiting(n) /\ load[l].signal = "aborted"
    <3>1. load'[l] = Idle /\ load[l].at = "login"
      BY <2>3 DEF LoginSucceeds, Waiting
    <3> QED
      BY <2>1, <2>3, <3>1, MarksOwned, IdleType DEF Owned, AtWork
  <2>4. CASE l \in Waiting(n) /\ load[l].signal # "aborted"
    <3>1. load'[l] = [load[l] EXCEPT !.at = "sync", !.token = n] /\ load[l].at = "login"
      BY <2>4 DEF LoginSucceeds, Waiting
    <3>2. /\ load'[l].at = "sync" /\ load'[l].signal = load[l].signal
          /\ load'[l].old = load[l].old /\ load'[l].kind = load[l].kind
      BY <2>1, <3>1 DEF LoadType
    <3> QED
      BY <1>1, <2>1, <3>1, <3>2 DEF Owned, AtWork
  <2> QED
    BY <2>2, <2>3, <2>4
<1>4. AllOwned'
  BY <1>3 DEF AllOwned
<1>5. PICK l \in Loads : l \in Waiting(n)
  BY <1>1 DEF OwnWork, AllAwaited, Waiting
<1>6. load[l].at = "login" /\ load[l] \in LoadType /\ Owned(load[l], loaded)
  BY <1>5 DEF Waiting, SessionInv, LoadsOK, OwnWork, AllOwned
<1>7. OwnWork'
  BY <1>2, <1>4 DEF OwnWork
<1>8. CASE load[l].old
  <2>1. load'[l] # load[l]
    BY <1>3, <1>5
  <2>2. OutlivedMoves
    BY <1>8, <2>1 DEF OutlivedMoves
  <2> QED
    BY <1>7, <2>2 DEF Explained
<1>9. CASE ~load[l].old /\ load[l].kind \notin Full
  <2>1. loaded
    BY <1>6, <1>9 DEF Owned
  <2>2. loaded' = loaded
    BY <1>1
  <2>3. loaded'
    BY <2>1, <2>2
  <2> QED
    BY <1>7, <2>3, SaysElse
<1>10. CASE ~load[l].old /\ load[l].kind \in Full
  <2>1. AtWork(load'[l])
    BY <1>3, <1>6, <1>10 DEF AtWork
  <2>2. ~Stranded'
    BY <2>1 DEF Stranded, AtWork
  <2> QED
    BY <1>7, <2>2 DEF Explained
<1> QED
  BY <1>8, <1>9, <1>10

\* Loads that return leave the others, and what is owed to them.
LEMMA ReturnOwn ==
  ASSUME SessionInv, OwnWork, NEW L \in SUBSET Loads, Return(L), loaded => loaded'
  PROVE  AllOwned' /\ \A l \in Loads \ L : load'[l] = load[l]
<1>1. load' = [l \in Loads |-> IF l \in L THEN Idle ELSE load[l]]
  BY DEF Return
<1>2. ASSUME NEW l \in Loads PROVE Owned(load'[l], loaded')
  <2>1. load[l] \in LoadType /\ Owned(load[l], loaded)
    BY DEF SessionInv, LoadsOK, OwnWork, AllOwned
  <2> QED
    BY <1>1, <2>1, MarksOwned, OwnedKept
<1> QED
  BY <1>1, <1>2 DEF AllOwned

\* Where the page is cleared, what goes on was outlived.
LEMMA ReturnAndClearOwn ==
  ASSUME SessionInv, OwnWork, NEW L \in SUBSET Loads, ReturnAndClear(L)
  PROVE  /\ AllOwned'
         /\ \A l \in Loads \ L : load'[l].at = load[l].at /\ load'[l].login = load[l].login
<1>1. load' = [l \in Loads |-> IF l \in L THEN Idle ELSE Outlived(load[l])]
  BY DEF ReturnAndClear
<1>2. ASSUME NEW l \in Loads
      PROVE  /\ Owned(load'[l], loaded')
             /\ l \notin L => load'[l].at = load[l].at /\ load'[l].login = load[l].login
  <2>1. load[l] \in LoadType /\ Owned(load[l], loaded)
    BY DEF SessionInv, LoadsOK, OwnWork, AllOwned
  <2>2. Outlived(load[l]).at = load[l].at /\ Outlived(load[l]).login = load[l].login
    BY <2>1, LoadMarks
  <2> QED
    BY <1>1, <2>1, <2>2, MarksOwned
<1> QED
  BY <1>2 DEF AllOwned

\* A login that fails: only handlers waited, whose page is loaded, or the page says so.
LEMMA LoginFailsOwn ==
  ASSUME SessionInv, OwnWork, NEW n \in Logins, NEW why, LoginFails(n, why)
  PROVE  OwnWork' /\ Explained
<1> DEFINE failing == {l \in Waiting(n) : load[l].kind \in Full}
<1>0. Waiting(n) \in SUBSET Loads
  BY DEF Waiting
<1>1. CASE failing = {}
  <2>1. /\ Return(Waiting(n)) /\ login' = [login EXCEPT ![n] = Ended(@)]
        /\ UNCHANGED <<address, error>> /\ loaded' = loaded
    BY <1>1 DEF LoginFails, SessionInv, PageOK
  <2>2. AllOwned' /\ \A l \in Loads \ Waiting(n) : load'[l] = load[l]
    BY <1>0, <2>1, ReturnOwn
  <2>3. AllAsking' /\ AllAwaited'
    BY <2>1, <2>2, LoginEndsOwn
  <2>4. syncing' = syncing
    BY <1>1, <2>1 DEF Return, Unsignalled, SessionInv, PageOK
  <2>5. OwnWork'
    BY <2>2, <2>3 DEF OwnWork
  <2>6. CASE loaded
    <3>1. loaded'
      BY <2>1, <2>6
    <3> QED
      BY <2>5, <3>1, SaysElse
  <2>7. CASE ~loaded
    <3>1. ASSUME NEW l \in Loads, AtWork(load[l]) PROVE l \notin Waiting(n)
      BY <1>1, <2>7, <3>1 DEF AtWork, OwnWork, AllOwned, Owned
    <3>2. UNCHANGED <<address, loaded, syncing, error>>
      BY <2>1, <2>4
    <3>3. \A l \in Loads : AtWork(load[l]) => AtWork(load'[l])
      BY <2>2, <3>1
    <3> QED
      BY <2>5, <3>2, <3>3, StillAtWork
  <2> QED
    BY <2>6, <2>7
<1>2. CASE failing # {}
  <2>1. /\ ReturnAndClear(Waiting(n)) /\ error' = why /\ why # "none"
        /\ login' = [m \in Logins |->
             IF m = n THEN Ended(login[m]) ELSE Outlived(login[m])]
    BY <1>2 DEF LoginFails
  <2>2. /\ AllOwned'
        /\ \A l \in Loads \ Waiting(n) :
             load'[l].at = load[l].at /\ load'[l].login = load[l].login
    BY <1>0, <2>1, ReturnAndClearOwn
  <2>3. \A m \in Logins : Asking(login'[m]) /\ (Pending(m)' => m # n /\ Pending(m))
    BY <2>1, LoginMarks, MarksAsking DEF Pending, SessionInv, LoginsOK, OwnWork, AllAsking
  <2>4. \A m \in Logins \ {n} : \A l \in Waiting(m) :
          l \in Loads \ Waiting(n) /\ load[l].at = "login" /\ load[l].login = m
    BY DEF Waiting
  <2>5. AllAwaited'
    BY <2>2, <2>3, <2>4, AwaitedKept DEF OwnWork
  <2> QED
    BY <2>1, <2>2, <2>3, <2>5, SaysElse DEF OwnWork, AllAsking
<1> QED
  BY <1>1, <1>2

\* A login that was aborted was outlived, whoever waits for it.
LEMMA LoginAbortsOwn ==
  ASSUME SessionInv, OwnWork, NEW n \in Logins, LoginAborts(n)
  PROVE  OwnWork' /\ Explained
<1>1. /\ login' = [login EXCEPT ![n] = Ended(@)] /\ Return(Waiting(n)) /\ loaded' = loaded
      /\ login[n] \in LoginType /\ login[n].at # "ended" /\ login[n].signal = "aborted"
  BY DEF LoginAborts, SessionInv, LoginsOK
<1>2. AllOwned' /\ \A l \in Loads \ Waiting(n) : load'[l] = load[l]
  BY <1>1, ReturnOwn DEF Waiting
<1>3. AllAsking' /\ AllAwaited'
  BY <1>1, <1>2, LoginEndsOwn
<1>4. login[n].old /\ login'[n] # login[n]
  BY <1>1, LoginMarks DEF SessionInv, LoginsOK, OwnWork, AllAsking, Asking
<1> QED
  BY <1>2, <1>3, <1>4 DEF OwnWork, Explained, OutlivedMoves

\* Steps that leave the logins and who waits for them.
LEMMA LoginsUntouched ==
  ASSUME OwnWork, login' = login,
         \A l \in Loads : load[l].at = "login" =>
           load'[l].at = "login" /\ load'[l].login = load[l].login
  PROVE  AllAsking' /\ AllAwaited'
<1>1. AllAwaited'
  BY AwaitedKept DEF OwnWork, Waiting, Pending
<1> QED
  BY <1>1 DEF OwnWork, AllAsking

\* The backend's answer leaves a load at work.
LEMMA BackendAnswersOwn ==
  ASSUME SessionInv, OwnWork, NEW l \in Loads, BackendAnswers(l)
  PROVE  OwnWork' /\ Explained
<1>1. /\ load[l].at = "sync" /\ load' = [load EXCEPT ![l].at = "data"]
      /\ UNCHANGED <<address, login, loaded, syncing, error>>
  BY DEF BackendAnswers
<1>2. ASSUME NEW k \in Loads
      PROVE  /\ load[k].at = "login" => load'[k].at = "login" /\ load'[k].login = load[k].login
             /\ Owned(load'[k], loaded')
             /\ AtWork(load[k]) => AtWork(load'[k])
  <2>1. load[k] \in LoadType /\ Owned(load[k], loaded)
    BY DEF SessionInv, LoadsOK, OwnWork, AllOwned
  <2>2. CASE k = l
    <3>1. /\ load'[k].at = "data" /\ load'[k].signal = load[k].signal
          /\ load'[k].old = load[k].old /\ load'[k].kind = load[k].kind
      BY <1>1, <2>1, <2>2 DEF LoadType, SessionInv, LoadsOK
    <3> QED
      BY <1>1, <2>1, <2>2, <3>1 DEF Owned, AtWork
  <2>3. CASE k # l
    <3>1. load'[k] = load[k]
      BY <1>1, <2>3 DEF SessionInv, LoadsOK
    <3> QED
      BY <1>1, <2>1, <3>1
  <2> QED
    BY <2>2, <2>3
<1>3. AllAsking' /\ AllAwaited'
  BY <1>1, <1>2, LoginsUntouched
<1>4. Explained
  BY <1>1, <1>2, StillAtWork
<1> QED
  BY <1>2, <1>3, <1>4 DEF OwnWork, AllOwned

\* A load that ends was outlived, or leaves the page loaded.
LEMMA LoadEndsOwn ==
  ASSUME SessionInv, OwnWork, NEW l \in Loads, Commit(l) \/ Abandon(l) \/ Report(l)
  PROVE  OwnWork' /\ Explained
<1>1. Return({l}) /\ login' = login /\ load[l].at \in {"sync", "data"}
  BY DEF Commit, Abandon, Report
<1>2. load[l] \in LoadType /\ Owned(load[l], loaded)
  BY DEF SessionInv, LoadsOK, OwnWork, AllOwned
<1>3. /\ Commit(l) => loaded' = LoadedAfter(l)
      /\ Abandon(l) => loaded' = loaded /\ load[l].signal = "aborted"
      /\ Report(l) => loaded' = loaded /\ load[l].kind \notin Full
  BY DEF Commit, Abandon, Report
<1>4. loaded => loaded'
  BY <1>3 DEF LoadedAfter
<1>5. AllOwned' /\ \A k \in Loads \ {l} : load'[k] = load[k]
  BY <1>1, <1>4, ReturnOwn
<1>6. AllAsking' /\ AllAwaited'
  BY <1>1, <1>5, LoginsUntouched
<1>7. Explained
  <2>1. CASE load[l].old
    <3>1. load'[l] # load[l]
      BY <1>1, IdleType DEF Return
    <3> QED
      BY <2>1, <3>1 DEF Explained, OutlivedMoves
  <2>2. CASE ~load[l].old
    <3>1. load[l].kind \notin Full => loaded
      BY <1>1, <1>2, <2>2 DEF Owned
    <3>2. load[l].signal # "aborted"
      BY <1>2, <2>2 DEF Owned
    <3>3. loaded'
      BY <1>3, <1>4, <3>1, <3>2 DEF LoadedAfter
    <3> QED
      BY <3>3, SaysElse
  <2> QED
    BY <2>1, <2>2
<1> QED
  BY <1>5, <1>6, <1>7 DEF OwnWork

\* A load that fails says so.
LEMMA LoadFailsOwn ==
  ASSUME SessionInv, OwnWork, NEW l \in Loads, LoadFails(l)
  PROVE  OwnWork' /\ Explained
<1>1. /\ ReturnAndClear({l}) /\ login' = [n \in Logins |-> Outlived(login[n])]
      /\ error' = "failed" /\ load[l].at = "sync"
  BY DEF LoadFails
<1>2. /\ AllOwned'
      /\ \A k \in Loads \ {l} : load'[k].at = load[k].at /\ load'[k].login = load[k].login
  BY <1>1, ReturnAndClearOwn
<1>3. \A n \in Logins : Asking(login'[n]) /\ (Pending(n)' => Pending(n))
  BY <1>1, LoginMarks, MarksAsking DEF Pending, SessionInv, LoginsOK, OwnWork, AllAsking
<1>4. AllAwaited'
  BY <1>1, <1>2, <1>3, AwaitedKept DEF OwnWork, Waiting
<1> QED
  BY <1>1, <1>2, <1>3, <1>4, SaysElse DEF OwnWork, AllAsking

\* A load that is at work, or begins, ensures a session for the account at hand.
LEMMA EnsureSessionOwn ==
  ASSUME SessionInv, OwnWork, NEW l \in Loads, load[l].at # "login",
         NEW asked \in LoadType, asked.signal # "aborted",
         asked.old \/ asked.kind \in Full \/ loaded,
         NEW t, EnsureSession(l, asked, t), loaded' = loaded
  PROVE  /\ OwnWork'
         /\ \A k \in Loads \ {l} : load'[k] = load[k]
         /\ load'[l].at # "idle" /\ load'[l].old = asked.old /\ load'[l].kind = asked.kind
<1>1. /\ \A k \in Loads \ {l} : load'[k] = load[k]
      /\ load'[l].at \in {"sync", "login"} /\ load'[l].old = asked.old
      /\ load'[l].kind = asked.kind /\ load'[l].signal = asked.signal
  <2>1. CASE load' = [load EXCEPT ![l] = [asked EXCEPT !.at = "sync", !.token = t]]
    BY <2>1 DEF LoadType, SessionInv, LoadsOK
  <2>2. CASE \E n \in Logins \cup {promise} :
               load' = [load EXCEPT ![l] = [asked EXCEPT !.at = "login", !.login = n]]
    BY <2>2 DEF LoadType, SessionInv, LoadsOK
  <2> QED
    BY <2>1, <2>2, NextLoginNew DEF EnsureSession
<1>2. ASSUME NEW k \in Loads PROVE Owned(load'[k], loaded')
  BY <1>1 DEF Owned, OwnWork, AllOwned
<1>3. CASE login' = login
  <2>1. AllAsking' /\ AllAwaited'
    BY <1>1, <1>3, LoginsUntouched
  <2> QED
    BY <1>1, <1>2, <2>1 DEF OwnWork, AllOwned
<1>4. CASE login' # login
  <2> PICK n \in NextLogin :
        /\ login' = [login EXCEPT ![n] =
             [wallet |-> asked.wallet, signal |-> asked.signal,
              at |-> "challenge", old |-> FALSE]]
        /\ load' = [load EXCEPT ![l] = [asked EXCEPT !.at = "login", !.login = n]]
    BY <1>4 DEF EnsureSession
  <2>1. n \in Logins /\ login[n].at = "unused"
    BY NextLoginNew
  <2>2. load'[l].at = "login" /\ load'[l].login = n
    BY DEF LoadType, SessionInv, LoadsOK
  <2>3. \A m \in Logins \ {n} : login'[m] = login[m]
    BY DEF SessionInv, LoginsOK
  <2>4. login'[n].signal = asked.signal /\ login'[n].at = "challenge"
    BY <2>1 DEF SessionInv, LoginsOK
  <2>5. AllAsking'
    BY <2>3, <2>4 DEF AllAsking, Asking, OwnWork
  <2>6. AllAwaited'
    BY <1>1, <2>2, <2>3, AwaitedKept DEF OwnWork, Waiting, Pending
  <2> QED
    BY <1>1, <1>2, <2>5, <2>6 DEF OwnWork, AllOwned
<1> QED
  BY <1>3, <1>4

\* A load that signs in again stays at work.
LEMMA SignInAgainOwn ==
  ASSUME SessionInv, OwnWork, NEW l \in Loads, SignInAgain(l)
  PROVE  OwnWork' /\ Explained
<1>1. /\ load[l] \in LoadType /\ load[l].at = "sync" /\ load[l].kind \in Full
      /\ load[l].signal # "aborted"
      /\ UNCHANGED <<address, loaded, syncing, error>>
  BY DEF SignInAgain, SessionInv, LoadsOK
<1> DEFINE asked == [load[l] EXCEPT !.token = None]
<1>2. /\ asked \in LoadType /\ asked.signal = load[l].signal
      /\ asked.old = load[l].old /\ asked.kind = load[l].kind
  BY <1>1 DEF LoadType
<1>3. EnsureSession(l, asked, None)
  BY DEF SignInAgain
<1> HIDE DEF asked
<1>4. /\ OwnWork'
      /\ \A k \in Loads \ {l} : load'[k] = load[k]
      /\ load'[l].at # "idle" /\ load'[l].old = asked.old /\ load'[l].kind = asked.kind
  BY <1>1, <1>2, <1>3, EnsureSessionOwn
<1>5. \A k \in Loads : AtWork(load[k]) => AtWork(load'[k])
  BY <1>2, <1>4 DEF AtWork
<1> QED
  BY <1>1, <1>4, <1>5, StillAtWork

\* A retry is syncing.
LEMMA RetryOwn ==
  ASSUME SessionInv, OwnWork, NEW l \in Loads, load[l].at = "idle", Retry(l)
  PROVE  OwnWork' /\ Explained
<1> DEFINE kept == stored[address]
           t == IF kept # None THEN kept ELSE token
           asked == [kind |-> "retry", wallet |-> address, signal |-> "none", at |-> "idle",
                     token |-> None, login |-> None, signed |-> signer, old |-> FALSE]
<1>1. asked \in LoadType /\ asked.signal = "none" /\ asked.kind = "retry"
  BY DEF LoadType, LoadStages, Kinds, Signals, SessionInv, PageOK
<1>2. EnsureSession(l, asked, t) /\ loaded' = loaded /\ syncing' = TRUE
  BY DEF Retry, BeginFullLoad
<1> HIDE DEF asked, t
<1>3. OwnWork'
  BY <1>1, <1>2, EnsureSessionOwn DEF Full
<1> QED
  BY <1>2, <1>3, SaysElse

\* A handler of the page starts on a loaded page.
LEMMA StartHandlerOwn ==
  ASSUME SessionInv, OwnWork, NEW l \in Loads, load[l].at = "idle",
         NEW kind \in {"analyze", "action"}, StartHandler(l, kind)
  PROVE  OwnWork' /\ Explained
<1> DEFINE asked == [kind |-> kind, wallet |-> address, signal |-> "none", at |-> "idle",
                     token |-> None, login |-> None, signed |-> TRUE, old |-> FALSE]
<1>1. asked \in LoadType /\ asked.signal = "none"
  BY DEF LoadType, LoadStages, Kinds, Signals, SessionInv, PageOK
<1>2. EnsureSession(l, asked, token) /\ loaded /\ loaded' = loaded
  BY DEF StartHandler
<1> HIDE DEF asked
<1>3. OwnWork'
  BY <1>1, <1>2, EnsureSessionOwn
<1>4. loaded'
  BY <1>2
<1> QED
  BY <1>3, <1>4, SaysElse

\* So does a refresh.
LEMMA RefreshOwn ==
  ASSUME SessionInv, OwnWork, NEW l \in Loads, load[l].at = "idle", Refresh(l)
  PROVE  OwnWork' /\ Explained
<1>1. /\ login' = login /\ loaded /\ loaded' = loaded
      /\ \E t : load' = [load EXCEPT ![l] =
           [kind |-> "refresh", wallet |-> address, signal |-> "none",
            at |-> "sync", token |-> t, login |-> None, signed |-> signer,
            old |-> FALSE]]
  BY DEF Refresh
<1>2. /\ \A k \in Loads \ {l} : load'[k] = load[k]
      /\ load'[l].signal = "none" /\ load'[l].at = "sync"
  BY <1>1 DEF SessionInv, LoadsOK
<1>3. loaded'
  BY <1>1
<1>4. AllOwned'
  BY <1>1, <1>2, <1>3 DEF OwnWork, AllOwned, Owned
<1>5. AllAsking' /\ AllAwaited'
  BY <1>1, <1>2, LoginsUntouched
<1> QED
  BY <1>3, <1>4, <1>5, SaysElse DEF OwnWork

\* Marks on everything: what goes on was outlived.
LEMMA AllMarked ==
  ASSUME SessionInv, OwnWork,
         \/ /\ login' = [n \in Logins |-> Outlived(login[n])]
            /\ load' = [l \in Loads |-> Outlived(load[l])]
         \/ /\ login' = [n \in Logins |-> Aborted(login[n])]
            /\ load' = [l \in Loads |-> Aborted(load[l])]
  PROVE  OwnWork'
<1>1. ASSUME NEW l \in Loads
      PROVE  /\ Owned(load'[l], loaded')
             /\ load'[l].at = load[l].at /\ load'[l].login = load[l].login
  <2>1. load[l] \in LoadType /\ Owned(load[l], loaded)
    BY DEF SessionInv, LoadsOK, OwnWork, AllOwned
  <2>2. /\ Owned(Outlived(load[l]), loaded') /\ Owned(Aborted(load[l]), loaded')
    BY <2>1, MarksOwned
  <2>3. /\ Outlived(load[l]).at = load[l].at /\ Outlived(load[l]).login = load[l].login
        /\ Aborted(load[l]).at = load[l].at /\ Aborted(load[l]).login = load[l].login
    BY <2>1, LoadMarks
  <2>4. load'[l] = Outlived(load[l]) \/ load'[l] = Aborted(load[l])
    OBVIOUS
  <2> QED
    BY <2>2, <2>3, <2>4
<1>2. \A n \in Logins : login'[n] = Outlived(login[n]) \/ login'[n] = Aborted(login[n])
  OBVIOUS
<1>3. \A n \in Logins : Asking(login'[n]) /\ (Pending(n)' => Pending(n))
  BY <1>2, LoginMarks, MarksAsking DEF Pending, SessionInv, LoginsOK, OwnWork, AllAsking
<1>4. AllAwaited'
  BY <1>1, <1>3, AwaitedKept DEF OwnWork, Waiting
<1> QED
  BY <1>1, <1>3, <1>4 DEF OwnWork, AllOwned, AllAsking

\* The page is cleared with an error, or without an account.
LEMMA ClearOwn ==
  ASSUME SessionInv, OwnWork,
         \/ RetryWithoutSigner \/ Logout \/ Disconnect
         \/ \E w \in Wallets : ConnectWithoutSigner(w)
  PROVE  OwnWork' /\ Explained
<1>1. OwnWork'
  BY AllMarked DEF RetryWithoutSigner, Logout, Disconnect, ConnectWithoutSigner
<1>2. address' = None \/ error' # "none"
  BY DEF RetryWithoutSigner, Logout, Disconnect, ConnectWithoutSigner
<1> QED
  BY <1>1, <1>2, SaysElse

\* The account changes: what ran for the old one was outlived, and the page syncs.
LEMMA ConnectOwn ==
  ASSUME SessionInv, OwnWork, NEW w \in Wallets, NEW l \in NextLoad, Connect(w, l)
  PROVE  OwnWork' /\ Explained
<1> DEFINE cut == [k \in Loads |-> Aborted(load[k])]
           ended == [n \in Logins |-> Aborted(login[n])]
           boot == [kind |-> "bootstrap", wallet |-> w, signal |-> "live", at |-> "login",
                    token |-> None, login |-> promise, signed |-> TRUE, old |-> FALSE]
<1>1. l \in Loads /\ load[l].at = "idle"
  BY NextLoadIdle
<1>2. \/ \E t : load' = [cut EXCEPT ![l] =
                    [boot EXCEPT !.at = "sync", !.token = t, !.login = None]]
      \/ load' = [cut EXCEPT ![l] = boot]
      \/ \E n : load' = [cut EXCEPT ![l] = [boot EXCEPT !.login = n]]
  BY DEF Connect
<1>3. /\ \A k \in Loads \ {l} : load'[k] = Aborted(load[k])
      /\ load'[l].at # "idle" /\ load'[l].signal = "live" /\ load'[l].kind = "bootstrap"
  <2>1. CASE \E t : load' = [cut EXCEPT ![l] =
                      [boot EXCEPT !.at = "sync", !.token = t, !.login = None]]
    BY <1>1, <2>1
  <2>2. CASE load' = [cut EXCEPT ![l] = boot]
    BY <1>1, <2>2
  <2>3. CASE \E n : load' = [cut EXCEPT ![l] = [boot EXCEPT !.login = n]]
    BY <1>1, <2>3
  <2> QED
    BY <1>2, <2>1, <2>2, <2>3
<1>4. ASSUME NEW k \in Loads
      PROVE  /\ Owned(load'[k], loaded')
             /\ k # l => load'[k].at = load[k].at /\ load'[k].login = load[k].login
  <2>1. load[k] \in LoadType /\ Owned(load[k], loaded)
    BY DEF SessionInv, LoadsOK, OwnWork, AllOwned
  <2>2. /\ Owned(Aborted(load[k]), loaded')
        /\ Aborted(load[k]).at = load[k].at /\ Aborted(load[k]).login = load[k].login
    BY <2>1, MarksOwned, LoadMarks
  <2>3. k = l => Owned(load'[k], loaded')
    BY <1>3 DEF Owned, Full
  <2> QED
    BY <1>3, <2>2, <2>3
<1>5. \A n \in Logins : Asking(ended[n]) /\ ended[n].at = login[n].at
  BY LoginMarks, MarksAsking DEF SessionInv, LoginsOK, OwnWork, AllAsking
<1>6. ASSUME NEW n \in Logins, Pending(n)'
      PROVE  \/ Pending(n)
             \/ load'[l].at = "login" /\ load'[l].login = n
  <2>1. CASE login' = ended
    BY <1>5, <1>6, <2>1 DEF Pending
  <2>2. CASE login' # ended
    <3> PICK m \in NextLogin :
          /\ login' = [ended EXCEPT ![m] =
               [wallet |-> w, signal |-> "live", at |-> "challenge", old |-> FALSE]]
          /\ load' = [cut EXCEPT ![l] = [boot EXCEPT !.login = m]]
      BY <2>2 DEF Connect
    <3>1. load'[l].at = "login" /\ load'[l].login = m
      BY <1>1
    <3>2. n # m => login'[n] = ended[n]
      OBVIOUS
    <3> QED
      BY <1>5, <1>6, <3>1, <3>2 DEF Pending
  <2> QED
    BY <2>1, <2>2
<1>7. AllAsking'
  <2>1. CASE login' = ended
    BY <1>5, <2>1 DEF AllAsking
  <2>2. CASE login' # ended
    <3> PICK m \in NextLogin :
          login' = [ended EXCEPT ![m] =
            [wallet |-> w, signal |-> "live", at |-> "challenge", old |-> FALSE]]
      BY <2>2 DEF Connect
    <3> QED
      BY <1>5 DEF AllAsking, Asking
  <2> QED
    BY <2>1, <2>2
<1>8. AllAwaited'
  BY <1>1, <1>4, <1>6, AwaitedKept DEF OwnWork, Waiting
<1>9. syncing'
  BY DEF Connect
<1> QED
  BY <1>4, <1>7, <1>8, <1>9, SaysElse DEF OwnWork, AllOwned

\* After a reload nothing runs.
LEMMA ReloadOwn ==
  ASSUME SessionInv, OwnWork, Reload
  PROVE  OwnWork' /\ Explained
<1>1. AllOwned'
  BY DEF Reload, AllOwned, Owned, Idle
<1>2. ASSUME NEW n \in Logins PROVE Asking(login'[n]) /\ ~Pending(n)'
  <2>1. login[n] \in LoginType /\ Asking(login[n]) /\ Ended(login[n]).at = "ended"
    BY LoginMarks DEF SessionInv, LoginsOK, OwnWork, AllAsking
  <2>2. login'[n] = IF login[n].at = "unused" THEN login[n] ELSE Ended(login[n])
    BY DEF Reload
  <2> QED
    BY <2>1, <2>2, MarksAsking DEF Pending
<1>3. address' = None
  BY DEF Reload
<1> QED
  BY <1>1, <1>2, <1>3, SaysElse DEF OwnWork, AllAsking, AllAwaited

\* What touches neither the page nor its work.
LEMMA ElsewhereOwn ==
  ASSUME OwnWork, UNCHANGED <<address, login, load, loaded, syncing, error>>
  PROVE  OwnWork' /\ Explained
<1>1. OwnWork'
  BY DEF OwnWork, AllOwned, AllAsking, AllAwaited, Pending, Waiting
<1> QED
  BY <1>1, StillAtWork

LEMMA OwnWorkNext ==
  ASSUME SessionInv, OwnWork, [Next]_vars
  PROVE  OwnWork' /\ Explained
<1>1. ASSUME NEW n \in Logins, LoginStep(n) PROVE OwnWork' /\ Explained
  BY <1>1, ChallengeArrivesOwn, LoginSucceedsOwn, LoginFailsOwn, LoginAbortsOwn DEF LoginStep
<1>2. ASSUME NEW l \in Loads, LoadStep(l) PROVE OwnWork' /\ Explained
  BY <1>2, BackendAnswersOwn, LoadEndsOwn, SignInAgainOwn, LoadFailsOwn DEF LoadStep
<1>3. ASSUME NEW l \in NextLoad,
             \/ Retry(l) \/ Refresh(l)
             \/ Analyze(l) \/ RefreshUsername(l) \/ ClaimFaucet(l) \/ ApplyReferralCode(l)
      PROVE  OwnWork' /\ Explained
  <2>1. l \in Loads /\ load[l].at = "idle"
    BY NextLoadIdle
  <2> QED
    BY <1>3, <2>1, RetryOwn, RefreshOwn, StartHandlerOwn
       DEF Analyze, RefreshUsername, ClaimFaucet, ApplyReferralCode
<1>4. ASSUME AskLogout \/ (\E n \in Logins : Expire(n)) \/ UNCHANGED vars
      PROVE  OwnWork' /\ Explained
  BY <1>4, ElsewhereOwn DEF AskLogout, Expire, vars
<1>5. CASE UserStep
  BY <1>3, <1>4, <1>5, ClearOwn, ReloadOwn DEF UserStep
<1>6. CASE AccountStep
  BY <1>6, ClearOwn, ConnectOwn DEF AccountStep
<1>7. CASE Logout
  BY <1>7, ClearOwn
<1> QED
  BY <1>1, <1>2, <1>4, <1>5, <1>6, <1>7 DEF Next, ExpireStep

\* For any number of wallets, logins and loads: the page comes to say that account
\* data is syncing, with nothing under way that would load it, only by a step of a
\* login or a load that outlived the account or the session it began for.
THEOREM StrandedByOutlivedHolds == Spec => StrandedByOutlived
<1>1. Init => OwnWork
  BY DEF Init, OwnWork, AllOwned, AllAsking, AllAwaited, Owned, Asking, Pending, Idle, Unused
<1>2. Inv /\ OwnWork /\ [Next]_vars => OwnWork' /\ Explained
  BY OwnWorkNext DEF Inv
<1>3. Explained =>
        [(Stranded' /\ ~Stranded) =>
           \/ \E n \in Logins : login[n].old /\ login'[n] # login[n]
           \/ \E l \in Loads : load[l].old /\ load'[l] # load[l]]_vars
  BY DEF Explained, OutlivedMoves
<1> QED
  BY <1>1, <1>2, <1>3, SpecInv, PTL DEF Spec, StrandedByOutlived
-----------------------------------------------------------------------------
(* isBackendSyncing.  Only a full load that was not aborted sets and clears   *)
(* it; as long as it is set, one such load is under way.                    *)

Syncs(r) == r.at # "idle" /\ r.kind \in Full /\ r.signal # "aborted"

\* A step under which a load that may clear the flag goes on, or which clears it.
LEMMA SyncingKept ==
  ASSUME SyncingOwned, syncing' => syncing,
         \A l \in Loads : Syncs(load[l]) => Syncs(load'[l]) \/ ~syncing'
  PROVE  SyncingOwned'
BY DEF SyncingOwned, Syncs

\* A mark on a load changes nothing about the flag.
LEMMA MarkSyncs ==
  ASSUME NEW r \in LoadType, Syncs(r)
  PROVE  Syncs(Outlived(r))
BY DEF Syncs, Outlived, LoadType

\* Loads return.  One that may clear the flag does.
LEMMA ReturnSyncing ==
  ASSUME SessionInv, SyncingOwned, NEW L, Return(L) \/ ReturnAndClear(L)
  PROVE  SyncingOwned'
<1>1. /\ syncing' => syncing
      /\ \A l \in L : Unsignalled(l) => ~syncing'
  BY DEF Return, ReturnAndClear
<1>2. ASSUME NEW l \in Loads, Syncs(load[l]), l \notin L
      PROVE  Syncs(load'[l])
  <2>1. load'[l] = load[l] \/ load'[l] = Outlived(load[l])
    BY <1>2 DEF Return, ReturnAndClear
  <2>2. load[l] \in LoadType
    BY DEF SessionInv, LoadsOK
  <2> QED
    BY <1>2, <2>1, <2>2, MarkSyncs
<1>3. ASSUME NEW l \in Loads, Syncs(load[l]), l \in L
      PROVE  ~syncing'
  BY <1>1, <1>3 DEF Syncs, Unsignalled
<1> QED
  BY <1>1, <1>2, <1>3, SyncingKept

\* A slot is taken, or a load goes on: the others are as they were.
LEMMA SlotSyncing ==
  ASSUME SessionInv, SyncingOwned, NEW l \in Loads, NEW r, load' = [load EXCEPT ![l] = r],
         syncing' = syncing, Syncs(load[l]) => Syncs(r)
  PROVE  SyncingOwned'
BY SyncingKept DEF SessionInv, LoadsOK

\* What ensuring a session makes of the load that asked for it.
LEMMA EnsureSyncs ==
  ASSUME NEW l \in Loads, NEW asked \in LoadType, NEW t, EnsureSession(l, asked, t)
  PROVE  \E r : /\ load' = [load EXCEPT ![l] = r]
                /\ r.at # "idle" /\ r.kind = asked.kind /\ r.signal = asked.signal
<1>1. CASE t # None
  <2>1. PICK r : r = [asked EXCEPT !.at = "sync", !.token = t]
    OBVIOUS
  <2>2. load' = [load EXCEPT ![l] = r]
    BY <1>1, <2>1 DEF EnsureSession
  <2>3. r.at # "idle" /\ r.kind = asked.kind /\ r.signal = asked.signal
    BY <2>1 DEF LoadType
  <2> QED
    BY <2>2, <2>3
<1>2. CASE t = None
  <2>1. PICK n : load' = [load EXCEPT ![l] = [asked EXCEPT !.at = "login", !.login = n]]
    BY <1>2 DEF EnsureSession
  <2>2. PICK r : r = [asked EXCEPT !.at = "login", !.login = n]
    OBVIOUS
  <2>3. r.at # "idle" /\ r.kind = asked.kind /\ r.signal = asked.signal
    BY <2>2 DEF LoadType
  <2> QED
    BY <2>1, <2>2, <2>3
<1> QED
  BY <1>1, <1>2

LEMMA LoginSyncing ==
  ASSUME SessionInv, SyncingOwned, NEW n \in Logins, LoginStep(n)
  PROVE  SyncingOwned'
<1>1. CASE ChallengeArrives(n) \/ UserSigns(n)
  BY <1>1 DEF ChallengeArrives, UserSigns, SyncingOwned
<1>2. CASE LoginSucceeds(n)
  <2>1. ASSUME NEW l \in Loads, Syncs(load[l]) PROVE Syncs(load'[l])
    <3>1. load[l] \in LoadType
      BY DEF SessionInv, LoadsOK
    <3>2. load'[l] \in {load[l], [load[l] EXCEPT !.at = "sync", !.token = n]}
      BY <1>2, <2>1 DEF LoginSucceeds, Syncs
    <3> QED
      BY <2>1, <3>1, <3>2 DEF Syncs, LoadType
  <2> QED
    BY <1>2, <2>1, SyncingKept DEF LoginSucceeds
<1>3. CASE LoginFails(n, "cancelled") \/ LoginFails(n, "failed") \/ LoginAborts(n)
  <2>1. Return(Waiting(n)) \/ ReturnAndClear(Waiting(n))
    BY <1>3 DEF LoginFails, LoginAborts
  <2> QED
    BY <2>1, ReturnSyncing
<1> QED
  BY <1>1, <1>2, <1>3 DEF LoginStep

LEMMA LoadSyncing ==
  ASSUME SessionInv, SyncingOwned, NEW l \in Loads, LoadStep(l)
  PROVE  SyncingOwned'
<1>0. load[l] \in LoadType /\ load \in [Loads -> LoadType]
  BY DEF SessionInv, LoadsOK
<1>1. CASE BackendAnswers(l)
  <2>1. PICK r : r = [load[l] EXCEPT !.at = "data"]
    OBVIOUS
  <2>2. load' = [load EXCEPT ![l] = r] /\ syncing' = syncing
    BY <1>0, <1>1, <2>1 DEF BackendAnswers
  <2>3. Syncs(load[l]) => Syncs(r)
    BY <1>0, <2>1 DEF Syncs, LoadType
  <2> QED
    BY <2>2, <2>3, SlotSyncing
<1>2. CASE Commit(l) \/ Abandon(l) \/ Report(l) \/ LoadFails(l)
  <2>1. Return({l}) \/ ReturnAndClear({l})
    BY <1>2 DEF Commit, Abandon, Report, LoadFails
  <2> QED
    BY <2>1, ReturnSyncing
<1>3. CASE SignInAgain(l)
  <2>1. PICK asked : asked = [load[l] EXCEPT !.token = None]
    OBVIOUS
  <2>2. /\ asked \in LoadType /\ asked.kind = load[l].kind /\ asked.signal = load[l].signal
        /\ EnsureSession(l, asked, None) /\ syncing' = syncing
    BY <1>0, <1>3, <2>1 DEF SignInAgain, LoadType
  <2>3. PICK r : /\ load' = [load EXCEPT ![l] = r]
                 /\ r.at # "idle" /\ r.kind = asked.kind /\ r.signal = asked.signal
    BY <2>2, EnsureSyncs
  <2>4. Syncs(load[l]) => Syncs(r)
    BY <2>2, <2>3 DEF Syncs
  <2> QED
    BY <2>2, <2>3, <2>4, SlotSyncing
<1> QED
  BY <1>1, <1>2, <1>3 DEF LoadStep

\* The flag is set by the load that will clear it; other work takes a free slot.
LEMMA BegunSyncing ==
  ASSUME SessionInv, SyncingOwned, NEW l \in NextLoad,
         \/ Retry(l) \/ Refresh(l)
         \/ Analyze(l) \/ RefreshUsername(l) \/ ClaimFaucet(l) \/ ApplyReferralCode(l)
         \/ \E w \in Wallets : Connect(w, l)
  PROVE  SyncingOwned'
<1>0. l \in Loads /\ ~Syncs(load[l]) /\ load \in [Loads -> LoadType]
  BY NextLoadIdle DEF Syncs, SessionInv, LoadsOK
<1>1. CASE Retry(l)
  <2>1. address \in Wallets
    BY <1>1 DEF Retry, SessionInv, PageOK
  <2>2. PICK asked : asked =
          [kind |-> "retry", wallet |-> address, signal |-> "none", at |-> "idle",
           token |-> None, login |-> None, signed |-> signer, old |-> FALSE]
    OBVIOUS
  <2>3. asked \in LoadType /\ asked.kind = "retry" /\ asked.signal = "none"
    BY <2>1, <2>2 DEF LoadType, LoadStages, Kinds, Signals, SessionInv, PageOK
  <2>4. \E t : EnsureSession(l, asked, t)
    BY <1>1, <2>2, Zenon DEF Retry, BeginFullLoad
  <2>5. PICK r : /\ load' = [load EXCEPT ![l] = r]
                 /\ r.at # "idle" /\ r.kind = asked.kind /\ r.signal = asked.signal
    BY <1>0, <2>3, <2>4, EnsureSyncs
  <2>6. load'[l].at # "idle" /\ load'[l].kind = "retry" /\ load'[l].signal = "none"
    BY <1>0, <2>3, <2>5
  <2> QED
    BY <1>0, <2>6 DEF SyncingOwned, Full
<1>2. CASE Refresh(l)
  <2>1. \E r : load' = [load EXCEPT ![l] = r] /\ syncing' = syncing
    BY <1>2 DEF Refresh
  <2> QED
    BY <1>0, <2>1, SlotSyncing
<1>3. CASE Analyze(l) \/ RefreshUsername(l) \/ ClaimFaucet(l) \/ ApplyReferralCode(l)
  <2>1. \E r : load' = [load EXCEPT ![l] = r] /\ syncing' = syncing
    <3>1. PICK kind : StartHandler(l, kind)
      BY <1>3 DEF Analyze, RefreshUsername, ClaimFaucet, ApplyReferralCode
    <3>2. syncing' = syncing /\ \E asked, t : EnsureSession(l, asked, t)
      BY <3>1 DEF StartHandler
    <3> QED
      BY <3>2 DEF EnsureSession
  <2> QED
    BY <1>0, <2>1, SlotSyncing
<1>4. CASE \E w \in Wallets : Connect(w, l)
  <2> PICK w \in Wallets : Connect(w, l)
    BY <1>4
  <2> DEFINE cut == [k \in Loads |-> Aborted(load[k])]
             boot == [kind |-> "bootstrap", wallet |-> w, signal |-> "live", at |-> "login",
                      token |-> None, login |-> promise, signed |-> TRUE, old |-> FALSE]
  <2>1. \/ \E t : load' = [cut EXCEPT ![l] = [boot EXCEPT !.at = "sync", !.token = t, !.login = None]]
        \/ load' = [cut EXCEPT ![l] = boot]
        \/ \E n : load' = [cut EXCEPT ![l] = [boot EXCEPT !.login = n]]
    BY DEF Connect
  <2>2. load'[l].at # "idle" /\ load'[l].kind = "bootstrap" /\ load'[l].signal = "live"
    <3>1. CASE \E t : load' = [cut EXCEPT ![l] = [boot EXCEPT !.at = "sync", !.token = t, !.login = None]]
      BY <1>0, <3>1
    <3>2. CASE load' = [cut EXCEPT ![l] = boot]
      BY <1>0, <3>2
    <3>3. CASE \E n : load' = [cut EXCEPT ![l] = [boot EXCEPT !.login = n]]
      <4> PICK n : load' = [cut EXCEPT ![l] = [boot EXCEPT !.login = n]]
        BY <3>3
      <4> QED
        BY <1>0
    <3> QED
      BY <2>1, <3>1, <3>2, <3>3
  <2> QED
    BY <1>0, <2>2 DEF SyncingOwned, Full
<1> QED
  BY <1>1, <1>2, <1>3, <1>4

LEMMA SyncingNext ==
  ASSUME SessionInv, SyncingOwned, [Next]_vars
  PROVE  SyncingOwned'
<1>1. ASSUME NEW n \in Logins, LoginStep(n) PROVE SyncingOwned'
  BY <1>1, LoginSyncing
<1>2. ASSUME NEW l \in Loads, LoadStep(l) PROVE SyncingOwned'
  BY <1>2, LoadSyncing
<1>3. CASE UserStep
  <2>1. CASE \E l \in NextLoad :
                \/ Retry(l) \/ Refresh(l)
                \/ Analyze(l) \/ RefreshUsername(l) \/ ClaimFaucet(l) \/ ApplyReferralCode(l)
    BY <2>1, BegunSyncing
  <2>2. CASE RetryWithoutSigner \/ AskLogout \/ Reload
    BY <2>2 DEF RetryWithoutSigner, AskLogout, Reload, SyncingOwned
  <2> QED
    BY <1>3, <2>1, <2>2 DEF UserStep
<1>4. CASE AccountStep
  <2>1. CASE Disconnect \/ \E w \in Wallets : ConnectWithoutSigner(w)
    BY <2>1 DEF Disconnect, ConnectWithoutSigner, SyncingOwned
  <2> QED
    BY <1>4, <2>1, BegunSyncing DEF AccountStep
<1>5. CASE ExpireStep \/ Logout \/ UNCHANGED vars
  BY <1>5 DEF ExpireStep, Expire, Logout, vars, SyncingOwned
<1> QED
  BY <1>1, <1>2, <1>3, <1>4, <1>5 DEF Next

\* For any number of logins and loads: while isBackendSyncing is set, a full load
\* that was not aborted is under way, whose finally clears it; the flag is never left
\* behind by a load that was aborted, failed with others' login, or joined one.
THEOREM SyncingOwnedAlways == Spec => []SyncingOwned
<1>1. Init => SyncingOwned
  BY DEF Init, SyncingOwned
<1>2. Inv /\ SyncingOwned /\ [Next]_vars => SyncingOwned'
  BY SyncingNext DEF Inv
<1> QED
  BY <1>1, <1>2, SpecInv, PTL DEF Spec

=============================================================================
