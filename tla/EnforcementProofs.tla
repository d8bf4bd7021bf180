------------------------- MODULE EnforcementProofs -------------------------
(***************************************************************************)
(* Proofs about Enforcement for every set of policies, worlds, requests and *)
(* pages of the dashboard: its types, with the lock of the policy store     *)
(* held exactly by the streams that send, and that a page that is given up  *)
(* stops the checks for good.                                               *)
(***************************************************************************)
EXTENDS Enforcement, TLAPS

StoreNames == {StoreName(p) : p \in Policies}

\* A policy is only ever written under the name of a policy.
CallInv == call.on => call.pol = None \/ call.name \in StoreNames

Inv == TypeOK /\ CallInv

-----------------------------------------------------------------------------
(* The store *)

\* What the conjuncts of TypeOK say of the store.
StoreInv ==
    /\ StoreTypeOK
    /\ DOMAIN dict \subseteq StoreNames
    /\ CallInv

\* An empty store without readers has its types.
LEMMA StoreLostInv == StoreLost => StoreInv'
  BY DEF StoreLost, StoreInv, StoreTypeOK, CallInv, Empty, NoCall, Quiet

\* A call of Update or Delete changes neither the dictionary nor its readers.
LEMMA UpdateCallInv ==
  ASSUME StoreInv, NEW name, NEW pol, pol = None \/ name \in StoreNames, UpdateCall(name, pol)
  PROVE  StoreInv'
  BY DEF StoreInv, StoreTypeOK, CallInv, UpdateCall

\* The dictionary changes when there are no readers, so that no stream has a
\* policy to send that is not in it any more.
LEMMA UpdateRunInv ==
  ASSUME StoreInv, UpdateRun
  PROVE  StoreInv'
  <1>1. DOMAIN dict' \subseteq StoreNames
    BY DEF StoreInv, CallInv, UpdateRun, Written, Restrict
  <1>2. CallInv'
    BY DEF UpdateRun, CallInv, NoCall
  <1>3. StoreTypeOK'
    <2>1. /\ dash' = dash /\ readers' = {} /\ readers = {}
          /\ call'.on \in BOOLEAN
      BY DEF UpdateRun, NoCall
    <2>2. \A d \in Dashboards : dash[d].todo = {} /\ dash[d].at # "send"
      BY <2>1 DEF StoreInv, StoreTypeOK
    <2>3. dash \in [Dashboards -> [at : {"quiet", "begin", "send"}, todo : SUBSET DOMAIN dict',
                                   gone : BOOLEAN]]
      BY <2>2 DEF StoreInv, StoreTypeOK
    <2> QED
      BY <2>1, <2>2, <2>3 DEF StoreTypeOK
  <1> QED
    BY <1>1, <1>2, <1>3 DEF StoreInv

\* The steps of a stream, and of the page that takes from it, keep the lock
\* with the streams that send.
LEMMA StreamInv ==
  ASSUME StoreInv, NEW d \in Dashboards,
         StreamStart(d) \/ StreamAbandon(d) \/ StreamStep(d)
  PROVE  StoreInv'
  <1> DEFINE Pages == [at : {"quiet", "begin", "send"}, todo : SUBSET DOMAIN dict, gone : BOOLEAN]
  <1>0. /\ dash \in [Dashboards -> Pages] /\ readers = {e \in Dashboards : dash[e].at = "send"}
        /\ dash[d] \in Pages /\ \A e \in Dashboards : e \notin readers => dash[e].todo = {}
    BY DEF StoreInv, StoreTypeOK
  <1>1. CASE StreamStart(d)
    <2>1. /\ dash' = [dash EXCEPT ![d] = [dash[d] EXCEPT !.at = "begin"]]
          /\ [dash[d] EXCEPT !.at = "begin"] \in Pages
      BY <1>0, <1>1 DEF StreamStart
    <2> QED
      BY <1>0, <1>1, <2>1 DEF StoreInv, StoreTypeOK, CallInv, StreamStart
  <1>2. CASE StreamAbandon(d)
    <2>1. /\ dash' = [dash EXCEPT ![d] = [dash[d] EXCEPT !.gone = TRUE]]
          /\ [dash[d] EXCEPT !.gone = TRUE] \in Pages
      BY <1>0, <1>2 DEF StreamAbandon
    <2>2. \A e \in Dashboards : dash'[e].at = dash[e].at /\ dash'[e].todo = dash[e].todo
      BY <1>0, <2>1
    <2>3. dash' \in [Dashboards -> Pages]
      BY <1>0, <2>1
    <2> QED
      BY <1>0, <1>2, <2>2, <2>3 DEF StoreInv, StoreTypeOK, CallInv, StreamAbandon
  <1>3. CASE StreamLock(d)
    <2> DEFINE page == [dash[d] EXCEPT !.at = "send", !.todo = DOMAIN dict]
    <2>1. /\ dash' = [dash EXCEPT ![d] = page]
          /\ page \in Pages /\ page.at = "send"
      BY <1>0, <1>3 DEF StreamLock
    <2> HIDE DEF page
    <2>2. /\ dash' \in [Dashboards -> Pages] /\ dash'[d].at = "send"
          /\ \A e \in Dashboards \ {d} : dash'[e] = dash[e]
      BY <1>0, <2>1
    <2>3. readers' = {e \in Dashboards : dash'[e].at = "send"}
      BY <1>0, <1>3, <2>2 DEF StreamLock
    <2>4. \A e \in Dashboards : e \notin readers' => dash'[e].todo = {}
      BY <1>0, <2>2, <2>3
    <2> QED
      BY <1>3, <2>2, <2>3, <2>4 DEF StoreInv, StoreTypeOK, CallInv, StreamLock
  <1>4. CASE StreamEnd(d)
    <2>1. Quiet \in Pages /\ Quiet.at = "quiet" /\ Quiet.todo = {}
      BY DEF Quiet
    <2>2. /\ dash' \in [Dashboards -> Pages] /\ dash'[d] = Quiet
          /\ \A e \in Dashboards \ {d} : dash'[e] = dash[e]
      BY <1>0, <1>4, <2>1 DEF StreamEnd
    <2>3. readers' = {e \in Dashboards : dash'[e].at = "send"}
      BY <1>0, <1>4, <2>1, <2>2 DEF StreamEnd
    <2>4. \A e \in Dashboards : e \notin readers' => dash'[e].todo = {}
      BY <1>0, <2>1, <2>2, <2>3
    <2> QED
      BY <1>4, <2>2, <2>3, <2>4 DEF StoreInv, StoreTypeOK, CallInv, StreamEnd
  <1>5. ASSUME NEW name \in DOMAIN dict, StreamSend(d, name) PROVE StoreInv'
    <2> DEFINE page == [dash[d] EXCEPT !.todo = @ \ {name}]
    <2>1. /\ dash' = [dash EXCEPT ![d] = page]
          /\ page \in Pages /\ page.at = dash[d].at /\ dash[d].at = "send"
      BY <1>0, <1>5 DEF StreamSend
    <2> HIDE DEF page
    <2>2. /\ dash' \in [Dashboards -> Pages]
          /\ \A e \in Dashboards : dash'[e].at = dash[e].at
          /\ \A e \in Dashboards : e # d => dash'[e] = dash[e]
      BY <1>0, <2>1
    <2> QED
      BY <1>0, <1>5, <2>1, <2>2 DEF StoreInv, StoreTypeOK, CallInv, StreamSend
  <1> QED
    BY <1>1, <1>2, <1>3, <1>4, <1>5 DEF StreamStep

\* A step that leaves the store alone keeps what is known of it.
LEMMA StoreKept == ASSUME StoreInv, UNCHANGED storeVars PROVE StoreInv'
  BY DEF StoreInv, StoreTypeOK, CallInv, storeVars

-----------------------------------------------------------------------------
(* The types *)

\* The rest of the types.
RestInv ==
    /\ api \in DOMAIN Worlds /\ edited \in BOOLEAN
    /\ queue \subseteq Policies
    /\ req.at \in {"none", "check", "done"}
    /\ req.is \in {"none", "pass", "allow", "deny", "noToken", "error"}

\* The invariant in the two parts the steps are about.
LEMMA InvParts == Inv <=> StoreInv /\ RestInv
  BY DEF Inv, TypeOK, StoreInv, RestInv, StoreNames

\* A process starts with an empty store, and with every policy in its queue.
LEMMA InitInv == Init => Inv
  <1> SUFFICES ASSUME Init PROVE StoreInv /\ RestInv
    BY InvParts
  <1>1. StoreInv
    BY DEF Init, StoreInit, StoreInv, StoreTypeOK, CallInv, Empty, NoCall, Quiet
  <1>2. RestInv
    BY EnforcementAssumption DEF Init, RestInv, NoRequest, Pols
  <1> QED
    BY <1>1, <1>2

\* One step per action: the actions of the store have their lemmas above, and
\* the other ones leave the store alone.
LEMMA NextInv == Inv /\ [Next]_vars => Inv'
  <1> SUFFICES ASSUME StoreInv, RestInv, [Next]_vars PROVE StoreInv' /\ RestInv'
    BY InvParts, PTL
  <1>1. CASE UNCHANGED vars
    BY <1>1, StoreKept DEF vars, RestInv
  <1>2. CASE UserEdits
    BY <1>2, StoreKept, EnforcementAssumption DEF UserEdits, RestInv, Pols
  <1>3. CASE Program
    BY <1>3, StoreKept DEF Program, RestInv
  <1>4. ASSUME NEW p \in Policies, ReconcileAuth(p)
        PROVE  StoreInv' /\ RestInv'
    <2>1. StoreInv'
      BY <1>4, StoreKept, UpdateCallInv DEF ReconcileAuth, StoreNames
    <2>2. RestInv'
      BY <1>4 DEF ReconcileAuth, WorkStep, RestInv
    <2> QED
      BY <2>1, <2>2
  <1>5. ASSUME NEW p \in Policies, DeleteAuth(p)
        PROVE  StoreInv' /\ RestInv'
    <2>1. StoreInv'
      BY <1>5, StoreKept, UpdateCallInv DEF DeleteAuth
    <2>2. RestInv'
      BY <1>5 DEF DeleteAuth, WorkStep, RestInv
    <2> QED
      BY <2>1, <2>2
  <1>6. ASSUME NEW p \in Policies, ReconcilePanics(p)
        PROVE  StoreInv' /\ RestInv'
    <2>1. StoreInv'
      BY <1>6, StoreLostInv DEF ReconcilePanics
    <2>2. RestInv'
      BY <1>6, EnforcementAssumption DEF ReconcilePanics, WorkStep, RestInv, Answered, Pols
    <2> QED
      BY <2>1, <2>2
  <1>7. CASE WorkRuns
    BY <1>7, UpdateRunInv DEF WorkRuns, RestInv
  <1>8. ASSUME NEW r \in Requests, Send(r)
        PROVE  StoreInv' /\ RestInv'
    BY <1>8, StoreKept DEF Send, RestInv, NoRequest
  <1>9. CASE Check
    <2>1. StoreInv'
      BY <1>9, StoreKept DEF Check
    <2>2. \E is \in {"allow", "deny", "noToken", "error"} : \E hs, w : req' = Answered(is, hs, w)
      BY <1>9 DEF Check
    <2>3. RestInv'
      BY <1>9, <2>2 DEF Check, RestInv, Answered
    <2> QED
      BY <2>1, <2>3
  <1>10. CASE Finish
    BY <1>10, StoreKept DEF Finish, RestInv, NoRequest
  <1>11. ASSUME NEW d \in Dashboards, Page(d) \/ Visit(d)
         PROVE  StoreInv' /\ RestInv'
    BY <1>11, StreamInv DEF Page, Visit, RestInv
  <1> QED
    BY <1>1, <1>2, <1>3, <1>4, <1>5, <1>6, <1>7, <1>8, <1>9, <1>10, <1>11 DEF Next, Worker

\* The inductive invariant, TypeOK and CallInv, holds in every state.
THEOREM Invariance == Spec => []Inv
  BY InitInv, NextInv, PTL DEF Spec

\* Store, queue and request keep their types, the lock of the policy store is
\* held by the streams that send and by nobody else, and all a stream has still
\* to send is in the dictionary.
THEOREM TypeCorrect == Spec => []TypeOK
  BY Invariance, PTL DEF Inv

-----------------------------------------------------------------------------
(* The wedge *)

\* A goroutine that sends to nobody does nothing, whatever the others do.
LEMMA StuckStays ==
  ASSUME StoreInv, NEW d \in Dashboards, Stuck(d), NEW e \in Dashboards,
         StreamStart(e) \/ StreamAbandon(e) \/ StreamStep(e)
  PROVE  Stuck(d)'
  <1>1. CASE StreamStart(e)
    BY <1>1 DEF StoreInv, StoreTypeOK, Stuck, StreamStart
  <1>2. CASE StreamAbandon(e)
    BY <1>2 DEF StoreInv, StoreTypeOK, Stuck, StreamAbandon
  <1>3. CASE StreamLock(e)
    BY <1>3 DEF StoreInv, StoreTypeOK, Stuck, StreamLock
  <1>4. CASE StreamEnd(e)
    BY <1>4 DEF StoreInv, StoreTypeOK, Stuck, StreamEnd
  <1>5. CASE \E name \in DOMAIN dict : StreamSend(e, name)
    <2> PICK name \in DOMAIN dict : StreamSend(e, name)
      BY <1>5
    <2> QED
      BY DEF StoreInv, StoreTypeOK, Stuck, StreamSend
  <1> QED
    BY <1>1, <1>2, <1>3, <1>4, <1>5 DEF StreamStep

\* In a wedged store no stream locks, no request is checked and no update is
\* called or gets the lock: only streams that had it before go on.
LEMMA WedgeStep ==
  Inv /\ [Next]_vars /\ Wedged => Wedged' /\ dict' = dict /\ (req.at = "check" => req' = req)
  <1> SUFFICES ASSUME StoreInv, [Next]_vars, Wedged
               PROVE  Wedged' /\ dict' = dict /\ (req.at = "check" => req' = req)
    BY InvParts
  <1> PICK d \in Dashboards : Stuck(d)
    BY DEF Wedged
  <1>1. call.on /\ readers # {} /\ ~Open
    BY DEF Wedged, Open, Stuck, StoreInv, StoreTypeOK
  <1>2. ASSUME UNCHANGED storeVars PROVE Wedged' /\ dict' = dict
    BY <1>2 DEF storeVars, Wedged, Stuck
  <1>3. CASE UNCHANGED vars \/ UserEdits \/ Program
    BY <1>2, <1>3 DEF vars, UserEdits, Program
  <1>4. CASE Worker
    <2>1. ~WorkRuns
      BY <1>1 DEF WorkRuns, UpdateRun
    <2>2. ASSUME NEW p \in Policies
          PROVE  ~(ReconcileAuth(p) \/ DeleteAuth(p) \/ ReconcilePanics(p))
      BY <1>1 DEF ReconcileAuth, DeleteAuth, ReconcilePanics, WorkStep
    <2> QED
      BY <1>4, <2>1, <2>2 DEF Worker
  <1>5. ASSUME NEW r \in Requests, Send(r)
        PROVE  Wedged' /\ dict' = dict /\ req.at # "check"
    BY <1>2, <1>5 DEF Send, NoRequest
  <1>6. ~Check
    BY <1>1 DEF Check
  <1>7. CASE Finish
    BY <1>2, <1>7 DEF Finish
  <1>8. ASSUME NEW e \in Dashboards, Page(e) \/ Visit(e)
        PROVE  Wedged' /\ dict' = dict /\ req' = req
    <2>1. StreamStart(e) \/ StreamAbandon(e) \/ StreamStep(e)
      BY <1>8 DEF Page, Visit
    <2>2. Stuck(d)'
      BY <2>1, StuckStays
    <2>3. dict' = dict /\ call' = call
      BY <2>1 DEF StreamStart, StreamAbandon, StreamStep, StreamLock, StreamSend, StreamEnd
    <2> QED
      BY <1>1, <1>8, <2>2, <2>3 DEF Page, Visit, Wedged
  <1> QED
    BY <1>3, <1>4, <1>5, <1>6, <1>7, <1>8 DEF Next

\* Once a page was given up half way and an update waits for its stream, the
\* policy store never changes again and no request that is being checked is
\* answered, whatever the controllers, the other pages and the users do.
THEOREM WedgeIsPermanent == Spec => PolicyWedge
  <1>1. Inv /\ [Next]_vars =>
          [Wedged => Wedged' /\ dict' = dict /\ (req.at = "check" => req' = req)]_vars
    BY WedgeStep
  <1> QED
    BY <1>1, Invariance, PTL DEF Spec, PolicyWedge
=============================================================================
