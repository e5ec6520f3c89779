-------------------------- MODULE AcmeOrderProofs ---------------------------
(***************************************************************************)
(* AuthorizedFirst and AcceptedOnce hold for any number of identifiers,    *)
(* requests, failed calls and crashes.                                     *)
(***************************************************************************)
EXTENDS AcmeOrder, TLAPS

\* A challenge request is not a finalize request.
LEMMA KindsDiffer == \A v \in Posts, f \in Finalizes : v # f
  BY AcmeAssumption DEF Posts, Finalizes

\* A new order satisfies OrderInv.
LEMMA InitOrderInv == Init => OrderInv
  <1> SUFFICES ASSUME Init PROVE OrderInv
    OBVIOUS
  <1>1. TypeOK
    BY AcmeAssumption DEF Init, NewOrder, TypeOK, Statuses, Places
  <1>2. AuthorizedFirst
    BY DEF Init, NewOrder, AuthorizedFirst
  <1>3. /\ \A v \in Posts : PostInv(v)
        /\ \A f \in Finalizes : FinalizeInv(f)
    BY DEF Init, PostInv, FinalizeInv, Requests, Places
  <1>4. \A r \in Requests : NonceInv(r)
    BY DEF Init, NonceInv
  <1> QED
    BY <1>1, <1>2, <1>3, <1>4 DEF OrderInv

\* The steps that touch only nonces keep OrderInv.
LEMMA NonceSteps ==
  ASSUME OrderInv,
         \/ \E r \in Requests : newNonce(r) \/ Expire(r) \/ Refuse(r)
         \/ cleanupNonces
  PROVE  OrderInv'
  <1> USE DEF config, rows, outer
  <1>1. UNCHANGED <<localCA, autoApprove, letters, accepted, order, authz, challenge, at,
                    certs, logged, bundles, faults>>
    BY DEF newNonce, Expire, Refuse, cleanupNonces
  <1>2. /\ nonce' \in [Requests -> {"unissued", "live", "expired", "gone"}]
        /\ \A r \in Requests : nonce'[r] \in {"unissued", "live"} => nonce[r] \in {"unissued", "live"}
    BY DEF newNonce, Expire, Refuse, cleanupNonces, OrderInv, TypeOK
  <1>3. TypeOK'
    BY <1>1, <1>2 DEF OrderInv, TypeOK
  <1>4. AuthorizedFirst' /\ (\A v \in Posts : PostInv(v)') /\ (\A f \in Finalizes : FinalizeInv(f)')
    BY <1>1 DEF OrderInv, AuthorizedFirst, PostInv, FinalizeInv, AllAuthorized
  <1>5. \A r \in Requests : NonceInv(r)'
    BY <1>1, <1>2 DEF OrderInv, NonceInv
  <1> QED
    BY <1>3, <1>4, <1>5 DEF OrderInv

\* Accepting a challenge request keeps OrderInv.
LEMMA handleChallengeStep ==
  ASSUME OrderInv, NEW v \in Posts, handleChallenge(v) PROVE OrderInv'
  <1> USE DEF config, rows, outer
  <1>0. v \in Requests
    BY DEF Requests
  <1>1. /\ UNCHANGED <<localCA, autoApprove, letters, order, authz, challenge, certs, logged, bundles, faults>>
        /\ nonce[v] = "live"
        /\ nonce' = [nonce EXCEPT ![v] = "gone"]
        /\ accepted' = [accepted EXCEPT ![v] = @ + 1]
    BY DEF handleChallenge, verifyJWS, consumeNonce
  <1>2. PICK p \in {"validate", "done"} : at' = [at EXCEPT ![v] = p]
    BY DEF handleChallenge, Goto
  <1>3. TypeOK'
    BY <1>0, <1>1, <1>2 DEF OrderInv, TypeOK, Places
  <1>4. AuthorizedFirst'
    BY <1>1 DEF OrderInv, AuthorizedFirst
  <1>5. \A w \in Posts : PostInv(w)'
    BY <1>0, <1>1, <1>2 DEF OrderInv, TypeOK, PostInv, AllAuthorized, Requests
  <1>6. \A f \in Finalizes : FinalizeInv(f)'
    BY <1>0, <1>1, <1>2, KindsDiffer DEF OrderInv, TypeOK, FinalizeInv, AllAuthorized, Requests
  <1>7. \A r \in Requests : NonceInv(r)'
    BY <1>0, <1>1 DEF OrderInv, TypeOK, NonceInv
  <1> QED
    BY <1>3, <1>4, <1>5, <1>6, <1>7 DEF OrderInv

\* Accepting a finalize request keeps OrderInv: it is let in only when the order
\* is ready, and then every authorization is valid.
LEMMA handleFinalizeStep ==
  ASSUME OrderInv, NEW f \in Finalizes, handleFinalize(f) PROVE OrderInv'
  <1> USE DEF config, rows, outer
  <1>0. f \in Requests
    BY DEF Requests
  <1>1. /\ UNCHANGED <<localCA, autoApprove, letters, order, authz, challenge, certs, logged, bundles, faults>>
        /\ nonce[f] = "live"
        /\ nonce' = [nonce EXCEPT ![f] = "gone"]
        /\ accepted' = [accepted EXCEPT ![f] = @ + 1]
    BY DEF handleFinalize, verifyJWS, consumeNonce
  <1>2. PICK p \in {"accept", "done"} :
           at' = [at EXCEPT ![f] = p] /\ (p = "accept" => order.status = "ready")
    BY DEF handleFinalize, Goto
  <1>3. TypeOK'
    BY <1>0, <1>1, <1>2 DEF OrderInv, TypeOK, Places
  <1>4. AuthorizedFirst'
    BY <1>1 DEF OrderInv, AuthorizedFirst
  <1>5. \A w \in Posts : PostInv(w)'
    BY <1>0, <1>1, <1>2, KindsDiffer DEF OrderInv, TypeOK, PostInv, AllAuthorized, Requests
  <1>6. \A g \in Finalizes : FinalizeInv(g)'
    BY <1>0, <1>1, <1>2 DEF OrderInv, TypeOK, FinalizeInv, AllAuthorized, AuthorizedFirst,
       Requests, Places
  <1>7. \A r \in Requests : NonceInv(r)'
    BY <1>0, <1>1 DEF OrderInv, TypeOK, NonceInv
  <1> QED
    BY <1>3, <1>4, <1>5, <1>6, <1>7 DEF OrderInv

\* The steps of a validation keep OrderInv: an authorization never stops being
\* valid, so what the validation saw in the list still holds when it sets the
\* order to "ready".
LEMMA PostSteps ==
  ASSUME OrderInv, NEW v \in Posts, PostStep(v) PROVE OrderInv'
  <1> USE DEF config, rows, outer, UpdateACMEAuthorizationStatus, UpdateACMEChallengeStatus
  <1>0. v \in Requests /\ v[1] \in Authzs
    BY DEF Requests, Posts
  <1>1. UNCHANGED <<localCA, autoApprove, letters, nonce, accepted, certs, logged, bundles, faults>>
    BY DEF PostStep, ValidateChallenge, ValidateAuthz, ListAuthzs, SetReady
  <1>2. PICK p \in {"authz", "list", "ready", "done"} : at' = [at EXCEPT ![v] = p]
    BY DEF PostStep, ValidateChallenge, ValidateAuthz, ListAuthzs, SetReady, Goto
  <1>3. /\ authz' \in [Authzs -> {"pending", "valid"}]
        /\ \A a \in Authzs : authz[a] = "valid" => authz'[a] = "valid"
    BY <1>0 DEF PostStep, ValidateChallenge, ValidateAuthz, ListAuthzs, SetReady, OrderInv, TypeOK
  <1>4. challenge' \in [Authzs -> {"pending", "valid", "invalid"}]
    BY <1>0 DEF PostStep, ValidateChallenge, ValidateAuthz, ListAuthzs, SetReady, OrderInv, TypeOK
  <1>5. \/ order' = order
        \/ order' = [order EXCEPT !.status = "ready", !.cert_serial = order.cert_serial,
                                  !.assertion = order.assertion] /\ at[v] = "ready"
    BY DEF PostStep, ValidateChallenge, ValidateAuthz, ListAuthzs, SetReady, UpdateACMEOrderStatus
  <1>6. AllAuthorized => AllAuthorized'
    BY <1>3 DEF AllAuthorized
  <1>7. /\ p \in {"list", "ready"} => authz'[v[1]] = "valid"
        /\ p = "ready" => AllAuthorized'
    <2>1. CASE ValidateChallenge(v)
      BY <2>1, <1>0, <1>2 DEF ValidateChallenge, Goto, OrderInv, TypeOK
    <2>2. CASE ValidateAuthz(v)
      BY <2>2, <1>0, <1>2 DEF ValidateAuthz, Goto, OrderInv, TypeOK
    <2>3. CASE ListAuthzs(v)
      BY <2>3, <1>0, <1>2 DEF ListAuthzs, Goto, OrderInv, TypeOK, PostInv, AllAuthorized
    <2>4. CASE SetReady(v)
      BY <2>4, <1>0, <1>2 DEF SetReady, Goto, OrderInv, TypeOK
    <2> QED
      BY <2>1, <2>2, <2>3, <2>4 DEF PostStep
  <1>8. order' \in [status : Statuses, cert_serial : Serial \cup {None},
                    final_cert : Finalizes \cup {None}, assertion : BOOLEAN]
    BY <1>5, ZenonT(30) DEF OrderInv, TypeOK, Statuses
  <1>9. TypeOK'
    <2>1. at' \in [Requests -> Places]
      BY <1>0, <1>2 DEF OrderInv, TypeOK, Places
    <2> QED
      BY <2>1, <1>1, <1>3, <1>4, <1>8 DEF OrderInv, TypeOK
  <1>10. AuthorizedFirst'
    <2>1. CASE order' = order
      BY <2>1, <1>1, <1>6 DEF OrderInv, AuthorizedFirst, AllAuthorized
    <2>2. CASE at[v] = "ready"
      BY <2>2, <1>6 DEF OrderInv, AuthorizedFirst, AllAuthorized, PostInv
    <2> QED
      BY <2>1, <2>2, <1>5
  <1>11. \A w \in Posts : PostInv(w)'
    <2> SUFFICES ASSUME NEW w \in Posts PROVE PostInv(w)'
      OBVIOUS
    <2>0. w \in Requests /\ w[1] \in Authzs
      BY DEF Requests, Posts
    <2>1. CASE w = v
      BY <2>0, <2>1, <1>2, <1>7 DEF OrderInv, TypeOK, PostInv
    <2>2. CASE w # v
      BY <2>0, <2>2, <1>2, <1>3, <1>6 DEF OrderInv, TypeOK, PostInv
    <2> QED
      BY <2>1, <2>2
  <1>12. \A f \in Finalizes : FinalizeInv(f)'
    <2> SUFFICES ASSUME NEW f \in Finalizes PROVE FinalizeInv(f)'
      OBVIOUS
    <2>1. at'[f] = at[f]
      BY <1>0, <1>2, KindsDiffer DEF OrderInv, TypeOK, Requests
    <2> QED
      BY <2>1, <1>6 DEF OrderInv, FinalizeInv
  <1>13. \A r \in Requests : NonceInv(r)'
    BY <1>1 DEF OrderInv, NonceInv
  <1> QED
    BY <1>9, <1>10, <1>11, <1>12, <1>13 DEF OrderInv

\* The steps of a finalization keep OrderInv: they change no authorization, and
\* there are only steps of a finalization that was let in.
LEMMA FinalizeSteps ==
  ASSUME OrderInv, NEW f \in Finalizes, FinalizeStep(f) PROVE OrderInv'
  <1> USE DEF config, rows, outer
  <1>0. f \in Requests
    BY DEF Requests
  <1>1. UNCHANGED <<localCA, autoApprove, letters, nonce, accepted, authz, challenge, logged, bundles, faults>>
    BY DEF FinalizeStep, SetProcessing, IssueLocal, proxyToCA, RecordSerial, waitForAssertion,
           SetValid, SetInvalid
  <1>2. at[f] \notin {"free", "done"}
    BY DEF FinalizeStep, SetProcessing, IssueLocal, proxyToCA, RecordSerial, waitForAssertion,
           SetValid, SetInvalid
  <1>3. PICK p \in Places \ {"validate", "authz", "list", "ready"} : at' = [at EXCEPT ![f] = p]
    BY DEF FinalizeStep, SetProcessing, IssueLocal, proxyToCA, RecordSerial, waitForAssertion,
           SetValid, SetInvalid, Goto, Places
  <1>4. certs' \in {certs, certs \cup {f}}
    BY DEF FinalizeStep, SetProcessing, IssueLocal, proxyToCA, RecordSerial, waitForAssertion,
           SetValid, SetInvalid
  <1>5. AllAuthorized /\ AllAuthorized'
    BY <1>1, <1>2 DEF OrderInv, FinalizeInv, AllAuthorized
  <1>s. ToUpper(SerialNumber(f)) \in Serial
    <2>1. SerialNumber(f) \in Serial
      BY DEF SerialNumber, Serial, OrderInv, TypeOK
    <2> QED
      BY <2>1 DEF ToUpper, Serial
  <1>6. order' \in [status : Statuses, cert_serial : Serial \cup {None},
                    final_cert : Finalizes \cup {None}, assertion : BOOLEAN]
    <2> USE DEF OrderInv, TypeOK, Statuses, UpdateACMEOrderStatus, SetOrderFinalCertDER
    <2>1. CASE SetProcessing(f)
      BY <2>1 DEF SetProcessing
    <2>2. CASE IssueLocal(f)
      BY <2>2 DEF IssueLocal
    <2>3. CASE proxyToCA(f)
      BY <2>3 DEF proxyToCA
    <2>4. CASE RecordSerial(f)
      BY <1>s, <2>4 DEF RecordSerial
    <2>5. CASE waitForAssertion(f)
      <3>1. PICK b \in BOOLEAN :
               order' = [order EXCEPT !.status = "valid", !.cert_serial = order.cert_serial,
                                      !.assertion = order.assertion \/ b]
        BY <2>5 DEF waitForAssertion
      <3>2. (order.assertion \/ b) \in BOOLEAN
        OBVIOUS
      <3> QED
        BY <3>1, <3>2
    <2>6. CASE SetValid(f)
      BY <1>s, <2>6 DEF SetValid
    <2>7. CASE SetInvalid(f)
      BY <2>7 DEF SetInvalid
    <2> QED
      BY <2>1, <2>2, <2>3, <2>4, <2>5, <2>6, <2>7 DEF FinalizeStep
  <1>7. TypeOK'
    <2>1. at' \in [Requests -> Places]
      BY <1>0, <1>3 DEF OrderInv, TypeOK
    <2> QED
      BY <2>1, <1>1, <1>4, <1>6 DEF OrderInv, TypeOK
  <1>8. AuthorizedFirst'
    BY <1>5 DEF AuthorizedFirst, AllAuthorized
  <1>9. \A w \in Posts : PostInv(w)'
    <2> SUFFICES ASSUME NEW w \in Posts PROVE PostInv(w)'
      OBVIOUS
    <2>1. at'[w] = at[w]
      BY <1>0, <1>3, KindsDiffer DEF OrderInv, TypeOK, Requests
    <2> QED
      BY <2>1, <1>1, <1>5 DEF OrderInv, PostInv
  <1>10. \A g \in Finalizes : FinalizeInv(g)'
    <2> SUFFICES ASSUME NEW g \in Finalizes PROVE FinalizeInv(g)'
      OBVIOUS
    <2>1. at'[g] = IF g = f THEN p ELSE at[g]
      BY <1>0, <1>3 DEF OrderInv, TypeOK, Requests
    <2> QED
      BY <2>1, <1>3, <1>5 DEF OrderInv, FinalizeInv
  <1>11. \A r \in Requests : NonceInv(r)'
    BY <1>1 DEF OrderInv, NonceInv
  <1> QED
    BY <1>7, <1>8, <1>9, <1>10, <1>11 DEF OrderInv

\* What the watcher and the assertion issuer do keeps OrderInv.
LEMMA OuterSteps ==
  ASSUME OrderInv, NEW f \in Finalizes, LogCert(f) \/ ToggleBundle(f) PROVE OrderInv'
  <1> USE DEF config, rows, outer
  <1>1. /\ UNCHANGED <<localCA, autoApprove, letters, nonce, accepted, order, authz, challenge, at,
                       certs, faults>>
        /\ logged' \subseteq certs' /\ bundles' \subseteq logged'
    BY DEF LogCert, ToggleBundle, OrderInv, TypeOK
  <1>2. TypeOK'
    BY <1>1 DEF OrderInv, TypeOK
  <1> QED
    BY <1>1, <1>2 DEF OrderInv, AuthorizedFirst, PostInv, FinalizeInv, AllAuthorized, NonceInv

\* A failed store call and a crash keep OrderInv: the tables stay as they are,
\* and a nonce that is lost with the process cannot be used again.
LEMMA FailureSteps ==
  ASSUME OrderInv, (\E r \in Requests : Fault(r)) \/ Crash PROVE OrderInv'
  <1> USE DEF config, rows, outer
  <1>1. UNCHANGED <<localCA, autoApprove, letters, accepted, order, authz, challenge, certs, logged, bundles>>
    BY DEF Fault, Crash
  <1>2. faults' \in 0..MaxFaults
    BY AcmeAssumption DEF Fault, Crash, OrderInv, TypeOK
  <1>3. /\ nonce' \in [Requests -> {"unissued", "live", "expired", "gone"}]
        /\ \A r \in Requests : nonce'[r] \in {"unissued", "live"} => nonce[r] \in {"unissued", "live"}
    BY DEF Fault, Crash, OrderInv, TypeOK
  <1>4. /\ DOMAIN at' = Requests /\ at' = [r \in Requests |-> at'[r]]
        /\ \A r \in Requests : \/ at'[r] = at[r]
                               \/ at'[r] = "done"
                               \/ at[r] = "serial" /\ at'[r] = "wait"
    <2>1. CASE Crash
      BY <2>1 DEF Crash, OrderInv, TypeOK
    <2>2. CASE \E r \in Requests : Fault(r)
      <3>1. PICK r \in Requests : Fault(r)
        BY <2>2
      <3> QED
        BY <3>1 DEF Fault, Goto, OrderInv, TypeOK
    <2> QED
      BY <2>1, <2>2
  <1>5. TypeOK'
    <2>1. \A r \in Requests : at'[r] \in Places
      BY <1>4 DEF OrderInv, TypeOK, Places
    <2>2. at' \in [Requests -> Places]
      BY <2>1, <1>4
    <2> QED
      BY <2>2, <1>1, <1>2, <1>3 DEF OrderInv, TypeOK
  <1>6. AuthorizedFirst'
    BY <1>1 DEF OrderInv, AuthorizedFirst
  <1>7. \A v \in Posts : PostInv(v)'
    BY <1>1, <1>4 DEF OrderInv, PostInv, AllAuthorized, Requests
  <1>8. \A f \in Finalizes : FinalizeInv(f)'
    BY <1>1, <1>4 DEF OrderInv, FinalizeInv, AllAuthorized, Requests, Places
  <1>9. \A r \in Requests : NonceInv(r)'
    BY <1>1, <1>3 DEF OrderInv, NonceInv
  <1> QED
    BY <1>5, <1>6, <1>7, <1>8, <1>9 DEF OrderInv

\* OrderInv holds in every reachable state, for any number of identifiers,
\* requests, failed calls and crashes.
THEOREM OrderInductive == Spec => []OrderInv
  <1>1. Init => OrderInv
    BY InitOrderInv
  <1>2. OrderInv /\ [Next]_vars => OrderInv'
    <2> SUFFICES ASSUME OrderInv, [Next]_vars PROVE OrderInv'
      OBVIOUS
    <2>1. CASE UNCHANGED vars
      BY <2>1 DEF vars, OrderInv, TypeOK, AuthorizedFirst, PostInv, FinalizeInv, AllAuthorized, NonceInv
    <2>2. CASE Next
      BY <2>2, NonceSteps, handleChallengeStep, handleFinalizeStep, PostSteps, FinalizeSteps,
         OuterSteps, FailureSteps DEF Next
    <2> QED
      BY <2>1, <2>2
  <1> QED
    BY <1>1, <1>2, PTL DEF Spec

\* No order is ready, processed or issued for before all its authorizations are
\* valid (validateChallenge, handleFinalize).
THEOREM AuthorizedSafe == Spec => []AuthorizedFirst
  <1>1. OrderInv => AuthorizedFirst
    BY DEF OrderInv
  <1> QED
    BY <1>1, OrderInductive, PTL

\* A signed request is accepted at most once (consumeNonce).
THEOREM AcceptedSafe == Spec => []AcceptedOnce
  <1>1. OrderInv => AcceptedOnce
    BY DEF OrderInv, NonceInv, AcceptedOnce
  <1> QED
    BY <1>1, OrderInductive, PTL
=============================================================================
