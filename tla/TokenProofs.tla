---------------------------- MODULE TokenProofs -----------------------------
(***************************************************************************)
(* Proofs about TokenClient, for any set of callers, lifetimes of tokens,  *)
(* margin and delays.                                                      *)
(***************************************************************************)
EXTENDS TokenClient, TLAPS

\* tokenMutex is held by one caller at a time.
Mutex == \A c, d \in Callers : pc[c] \in Locked /\ pc[d] \in Locked => c = d

\* The shared client outlives the expiration by the margin, but for the time
\* the answer took; a stamp without its client is the one exception.
Outlives ==
    /\ client <= expiration + Margin
    /\ (\A c \in Callers : pc[c] # "stamped")
         => expiration + Margin <= client + MaxLatency

\* A request is only made for an expired token, and its answer is read soon.
Refreshing ==
    \A c \in Callers :
      /\ pc[c] = "auth" => Expired
      /\ pc[c] = "auth" /\ reply # NoReply =>
           /\ reply.at > expiration
           /\ reply.at <= now /\ now <= reply.at + MaxLatency
      /\ pc[c] = "stamped" =>
           /\ reply.life > Margin
           /\ expiration + Margin = now + reply.life
           /\ reply.at + Margin > client
           /\ reply.at <= now /\ now <= reply.at + MaxLatency

\* Between two requests there is no answer about.
NoStrayReply ==
    (\A c \in Callers : pc[c] \notin {"auth", "stamped"}) => reply = NoReply

\* What a caller has, or may yet return, was good when it looked.
Granted ==
    \A c \in Callers :
      /\ pc[c] \in {"fresh", "using"} => since[c] + Margin <= held[c] + MaxLatency
      /\ pc[c] = "fresh" =>
           /\ held[c] <= client
           /\ since[c] <= now /\ now <= since[c] + MaxPause
      /\ pc[c] = "got" =>
           /\ since[c] = now
           /\ now + Margin <= client + MaxLatency

TokenInv ==
    /\ TypeOK
    /\ Mutex
    /\ Outlives
    /\ Refreshing
    /\ NoStrayReply
    /\ Granted

LEMMA Times ==
  /\ Margin \in Nat /\ MaxLatency \in Nat /\ MaxPause \in Nat
  /\ MaxHold \in Nat /\ MaxTime \in Nat
  /\ \A life \in Lifetimes : life \in Nat
BY TimeAssumption

LEMMA InitToken == Init => TokenInv
<1> SUFFICES ASSUME Init PROVE TokenInv
  OBVIOUS
<1> USE Times DEF Init, NoReply, Labels, Locked
<1>1. TypeOK
  BY DEF TypeOK
<1>2. Mutex /\ Refreshing /\ NoStrayReply /\ Granted
  BY DEF Mutex, Refreshing, NoStrayReply, Granted
<1>3. Outlives
  BY DEF Outlives
<1> QED
  BY <1>1, <1>2, <1>3 DEF TokenInv

(***************************************************************************)
(* The actions.                                                            *)
(***************************************************************************)
LEMMA CallKeepsInv ==
  ASSUME TokenInv, NEW c \in Callers, CallGetClient(c)
  PROVE  TokenInv'
<1> USE DEF CallGetClient, GoTo, Locked, Labels
<1>1. TypeOK'
  BY DEF TokenInv, TypeOK
<1>2. Mutex' /\ Outlives' /\ NoStrayReply'
  BY DEF TokenInv, TypeOK, Mutex, Outlives, NoStrayReply, LockFree
<1>3. Refreshing' /\ Granted'
  BY DEF TokenInv, TypeOK, Refreshing, Granted, Expired, NoReply
<1> QED
  BY <1>1, <1>2, <1>3 DEF TokenInv

LEMMA ExpiredKeepsInv ==
  ASSUME TokenInv, NEW c \in Callers, IsTokenExpired(c)
  PROVE  TokenInv'
<1> USE Times DEF IsTokenExpired, GoTo, LookAtClock, Expired, Locked, Labels
<1>1. TypeOK'
  BY DEF TokenInv, TypeOK
<1>2. Mutex' /\ Outlives' /\ NoStrayReply'
  BY DEF TokenInv, TypeOK, Mutex, Outlives, NoStrayReply, LockFree
<1>3. Refreshing'
  BY DEF TokenInv, TypeOK, Refreshing
<1>4. Granted'
  BY DEF TokenInv, TypeOK, Granted, Outlives, LockFree
<1> QED
  BY <1>1, <1>2, <1>3, <1>4 DEF TokenInv

LEMMA LockKeepsInv ==
  ASSUME TokenInv, NEW c \in Callers, LockToken(c)
  PROVE  TokenInv'
<1> USE Times DEF LockToken, GoTo, LookAtClock, Expired, Locked, Labels
<1>1. TypeOK'
  BY DEF TokenInv, TypeOK
<1>2. Mutex' /\ Outlives' /\ NoStrayReply'
  BY DEF TokenInv, TypeOK, Mutex, Outlives, NoStrayReply, LockFree
<1>3. Refreshing'
  BY DEF TokenInv, TypeOK, Refreshing, NoStrayReply
<1>4. Granted'
  BY DEF TokenInv, TypeOK, Granted, Outlives, LockFree
<1> QED
  BY <1>1, <1>2, <1>3, <1>4 DEF TokenInv

LEMMA ReturnKeepsInv ==
  ASSUME TokenInv, NEW c \in Callers, ReturnClient(c)
  PROVE  TokenInv'
<1> USE Times DEF ReturnClient, GoTo, Locked, Labels
<1>1. TypeOK'
  BY DEF TokenInv, TypeOK
<1>2. Mutex' /\ Outlives' /\ Refreshing'
  BY DEF TokenInv, TypeOK, Mutex, Outlives, Refreshing, Expired
<1>3. NoStrayReply'
  BY DEF TokenInv, TypeOK, NoStrayReply, LockFree, Mutex
<1>4. Granted'
  BY DEF TokenInv, TypeOK, Granted
<1> QED
  BY <1>1, <1>2, <1>3, <1>4 DEF TokenInv

LEMMA IssueKeepsInv ==
  ASSUME TokenInv, NEW c \in Callers, IssueToken(c)
  PROVE  TokenInv'
<1> USE Times DEF IssueToken, Locked
<1>1. TypeOK'
  BY DEF TokenInv, TypeOK
<1>2. Mutex' /\ Outlives' /\ NoStrayReply' /\ Granted'
  BY DEF TokenInv, TypeOK, Mutex, Outlives, NoStrayReply, Granted, LockFree
<1>3. Refreshing'
  BY DEF TokenInv, TypeOK, Refreshing, Mutex, Expired
<1> QED
  BY <1>1, <1>2, <1>3 DEF TokenInv

LEMMA FailKeepsInv ==
  ASSUME TokenInv, NEW c \in Callers, AuthFails(c)
  PROVE  TokenInv'
<1> USE Times DEF AuthFails, GoTo, Locked, Labels, NoReply
<1>1. TypeOK'
  BY DEF TokenInv, TypeOK
<1>2. Mutex' /\ Outlives' /\ NoStrayReply' /\ Granted'
  BY DEF TokenInv, TypeOK, Mutex, Outlives, NoStrayReply, Granted, LockFree
<1>3. Refreshing'
  BY DEF TokenInv, TypeOK, Refreshing, Mutex, Expired
<1> QED
  BY <1>1, <1>2, <1>3 DEF TokenInv

LEMMA StampKeepsInv ==
  ASSUME TokenInv, NEW c \in Callers, StampExpiration(c)
  PROVE  TokenInv'
<1> USE Times DEF StampExpiration, GoTo, Locked, Labels
<1>1. TypeOK'
  BY DEF TokenInv, TypeOK
<1>2. Mutex' /\ NoStrayReply' /\ Granted'
  BY DEF TokenInv, TypeOK, Mutex, NoStrayReply, Granted, LockFree
<1>3. Outlives'
  BY DEF TokenInv, TypeOK, Outlives, Refreshing, NoReply, Expired
<1>4. Refreshing'
  BY DEF TokenInv, TypeOK, Refreshing, Mutex, Outlives, NoReply, Expired
<1> QED
  BY <1>1, <1>2, <1>3, <1>4 DEF TokenInv

LEMMA SwapKeepsInv ==
  ASSUME TokenInv, NEW c \in Callers, SwapClient(c)
  PROVE  TokenInv'
<1> USE Times DEF SwapClient, GoTo, LookAtClock, Locked, Labels, NoReply
<1>1. TypeOK'
  BY DEF TokenInv, TypeOK, Refreshing
<1>2. Mutex' /\ NoStrayReply'
  BY DEF TokenInv, TypeOK, Mutex, NoStrayReply, LockFree
<1>3. Outlives'
  BY DEF TokenInv, TypeOK, Outlives, Refreshing
<1>4. Refreshing'
  BY DEF TokenInv, TypeOK, Refreshing, Mutex, Expired
<1>5. Granted'
  BY DEF TokenInv, TypeOK, Granted, Refreshing, Mutex
<1> QED
  BY <1>1, <1>2, <1>3, <1>4, <1>5 DEF TokenInv

LEMMA FinishKeepsInv ==
  ASSUME TokenInv, NEW c \in Callers, FinishHandler(c)
  PROVE  TokenInv'
<1> USE Times DEF FinishHandler, GoTo, Locked, Labels
<1>1. TypeOK'
  BY DEF TokenInv, TypeOK
<1>2. Mutex' /\ Outlives' /\ NoStrayReply'
  BY DEF TokenInv, TypeOK, Mutex, Outlives, NoStrayReply, LockFree
<1>3. Refreshing' /\ Granted'
  BY DEF TokenInv, TypeOK, Refreshing, Granted, Expired
<1> QED
  BY <1>1, <1>2, <1>3 DEF TokenInv

LEMMA TickKeepsInv == ASSUME TokenInv, Tick PROVE TokenInv'
<1> USE Times DEF Tick
<1>1. TypeOK'
  BY DEF TokenInv, TypeOK
<1>2. Mutex' /\ Outlives' /\ NoStrayReply'
  BY DEF TokenInv, TypeOK, Mutex, Outlives, NoStrayReply, LockFree
<1>3. Refreshing' /\ Granted'
  BY DEF TokenInv, TypeOK, Refreshing, Granted, Expired
<1> QED
  BY <1>1, <1>2, <1>3 DEF TokenInv

LEMMA StepToken == TokenInv /\ [Next]_vars => TokenInv'
<1> SUFFICES ASSUME TokenInv, [Next]_vars PROVE TokenInv'
  OBVIOUS
<1>1. CASE Tick
  BY <1>1, TickKeepsInv
<1>2. ASSUME NEW c \in Callers,
             CallGetClient(c) \/ GetClientStep(c) \/ IssueToken(c) \/ FinishHandler(c)
      PROVE  TokenInv'
  BY <1>2, CallKeepsInv, ExpiredKeepsInv, LockKeepsInv, ReturnKeepsInv,
     IssueKeepsInv, FailKeepsInv, StampKeepsInv, SwapKeepsInv, FinishKeepsInv
     DEF GetClientStep
<1>3. CASE UNCHANGED vars
  BY <1>3 DEF vars, TokenInv, TypeOK, Mutex, Outlives, Refreshing, NoStrayReply,
              Granted, LockFree, Expired
<1> QED
  BY <1>1, <1>2, <1>3 DEF Next

\* The inductive invariant holds throughout.
LEMMA InvAlways == Spec => []TokenInv
<1> QED
  BY InitToken, StepToken, PTL DEF Spec

(***************************************************************************)
(* The properties.                                                         *)
(***************************************************************************)
\* Every reachable state of the shared client is well typed; the expiration
\* is never computed from a token shorter than the margin (authenticate).
THEOREM TokenTypeCorrect == Spec => []TypeOK
<1>1. TokenInv => TypeOK
  BY DEF TokenInv
<1> QED
  BY <1>1, InvAlways, PTL

\* Calls that follow GetClient within the margin, less the latency, carry a
\* valid token, whatever other callers do.
THEOREM ShortCallsSafe == Spec => []ShortCallsAuthorised
<1>1. TokenInv => ShortCallsAuthorised
  BY Times DEF TokenInv, TypeOK, Granted, ShortCallsAuthorised
<1> QED
  BY <1>1, InvAlways, PTL

\* However many callers find the token expired, one at a time is in
\* authenticate, and a token is requested only while the shared one is still
\* expired: who waited for tokenMutex meanwhile does not ask again.
THEOREM OneRefreshes ==
  Spec => [](\A c \in Callers : pc[c] = "auth" =>
               /\ Expired
               /\ \A d \in Callers : pc[d] \in Locked => d = c)
<1>1. TokenInv =>
        \A c \in Callers : pc[c] = "auth" =>
          /\ Expired
          /\ \A d \in Callers : pc[d] \in Locked => d = c
  BY DEF TokenInv, Mutex, Refreshing, Locked
<1> QED
  BY <1>1, InvAlways, PTL

(***************************************************************************)
(* The promise.                                                            *)
(***************************************************************************)
Asked == {c \in Callers : pc[c] \notin {"idle", "using"}}

InHand == [c \in Callers |-> IF pc[c] = "using" THEN held[c] ELSE 0]

\* A step that no one who relies on the promise notices.
Unnoticed == UNCHANGED <<now, client, Asked, InHand>>

LEMMA InitPromise == Init => Promise!Init
BY Times DEF Init, Promise!Init

\* GetClient as its callers see it.
LEMMA CallersSee ==
  ASSUME TokenInv, TokenInv', NEW c \in Callers,
         CallGetClient(c) \/ AuthFails(c) \/ ReturnClient(c) \/ FinishHandler(c)
  PROVE  Promise!Next
<1> USE DEF TokenInv, TypeOK, GoTo
<1>1. CASE CallGetClient(c)
  <2>1. Promise!Ask(c)
    BY <1>1 DEF CallGetClient, Promise!Ask
  <2> QED
    BY <2>1 DEF Promise!Next
<1>2. CASE AuthFails(c)
  <2>1. Promise!Refuse(c)
    BY <1>2 DEF AuthFails, Promise!Refuse
  <2> QED
    BY <2>1 DEF Promise!Next
<1>3. CASE FinishHandler(c)
  <2>1. Promise!GiveBack(c)
    BY <1>3 DEF FinishHandler, Promise!GiveBack
  <2> QED
    BY <2>1 DEF Promise!Next
<1>4. CASE ReturnClient(c)
  <2> USE <1>4 DEF ReturnClient
  <2>1. pc' = [pc EXCEPT ![c] = "using"] /\ now' = now /\ client' = client
    OBVIOUS
  <2>2. held'[c] \in 0 .. client /\ now + Margin <= held'[c] + (MaxLatency + MaxPause)
    BY Times DEF Granted
  <2>3. \A d \in Callers \ {c} : held'[d] = held[d]
    OBVIOUS
  <2>4. InHand' = [InHand EXCEPT ![c] = held'[c]]
    BY <2>1, <2>3 DEF InHand
  <2>5. c \in Asked /\ Asked' = Asked \ {c}
    BY <2>1 DEF Asked
  <2>6. Promise!Grant(c)
    BY <2>1, <2>2, <2>4, <2>5 DEF Promise!Grant, Asked, InHand
  <2> QED
    BY <2>6 DEF Promise!Next
<1> QED
  BY <1>1, <1>2, <1>3, <1>4

\* What goes on under the lock, the new client apart, is not seen.
LEMMA LockHides ==
  ASSUME TokenInv, NEW c \in Callers,
         IsTokenExpired(c) \/ LockToken(c) \/ IssueToken(c) \/ StampExpiration(c)
  PROVE  Unnoticed
<1> USE DEF TokenInv, TypeOK, GoTo, Unnoticed, Asked, InHand
<1>1. CASE IsTokenExpired(c)
  BY <1>1 DEF IsTokenExpired
<1>2. CASE LockToken(c)
  BY <1>2 DEF LockToken
<1>3. CASE IssueToken(c)
  BY <1>3 DEF IssueToken
<1>4. CASE StampExpiration(c)
  BY <1>4 DEF StampExpiration
<1> QED
  BY <1>1, <1>2, <1>3, <1>4

LEMMA SwapRenews ==
  ASSUME TokenInv, NEW c \in Callers, SwapClient(c)
  PROVE  Promise!Renew
<1> USE DEF TokenInv, TypeOK, GoTo, SwapClient
<1>1. now + Margin > client /\ client' \in Nat /\ client' > client /\ now' = now
  BY Times DEF Refreshing
<1>2. Asked' = Asked /\ InHand' = InHand
  BY DEF Asked, InHand
<1> QED
  BY <1>1, <1>2 DEF Promise!Renew, Asked, InHand

LEMMA StepPromise ==
  TokenInv /\ TokenInv' /\ [Next]_vars => [Promise!Next]_Promise!pvars
<1> SUFFICES ASSUME TokenInv, TokenInv', [Next]_vars
             PROVE  Promise!Next \/ Unnoticed
  BY DEF Promise!pvars, Unnoticed, Asked, InHand
<1>1. CASE Tick
  <2>1. Promise!Tick
    BY <1>1 DEF Tick, Promise!Tick
  <2> QED
    BY <2>1 DEF Promise!Next
<1>2. ASSUME NEW c \in Callers,
             CallGetClient(c) \/ GetClientStep(c) \/ IssueToken(c) \/ FinishHandler(c)
      PROVE  Promise!Next \/ Unnoticed
  <2>1. CASE SwapClient(c)
    BY <2>1, SwapRenews DEF Promise!Next
  <2> QED
    BY <1>2, <2>1, CallersSee, LockHides DEF GetClientStep
<1>3. CASE UNCHANGED vars
  BY <1>3 DEF vars, Unnoticed, Asked, InHand
<1> QED
  BY <1>1, <1>2, <1>3 DEF Next

\* The shared client implements its promise: tokens are granted with enough
\* of their life left, and a fresh token is never replaced.
THEOREM TokenPromiseKept == Spec => PromiseKept
<1> QED
  BY InitPromise, StepPromise, InvAlways, PTL DEF Spec, PromiseKept, Promise!Spec
=============================================================================
