---------------------------- MODULE TokenClient -----------------------------
(***************************************************************************)
(* NumspotClient: one API client shared by the goroutines of a build (the  *)
(* runner's, the one that waits for the Windows password, the connect      *)
(* step's, which asks for the VM's address).  GetClient hands out          *)
(* s.Client, whose requests carry one token, and first replaces it when    *)
(* s.AccessTokenExpiration has passed.  The two fields are written under   *)
(* tokenMutex, but a GetClient that finds the token fresh reads s.Client   *)
(* after it has released the lock.                                         *)
(*                                                                         *)
(* Time is a number of ticks of any length; a client is told apart by the  *)
(* last instant at which its token is valid.                               *)
(***************************************************************************)
EXTENDS Naturals

CONSTANTS
    Callers,        \* goroutines that call GetClient
    Lifetimes,      \* the values of expires_in the service may answer
    Margin,         \* expirationTimeMargin
    MaxLatency,     \* from the issue of a token until its answer is read
    MaxPause,       \* from isTokenExpired until s.Client is read
    MaxHold,        \* how long a handler goes on with the client it got
    MaxTime         \* bound on the clock

ASSUME TimeAssumption ==
    /\ Lifetimes \subseteq Nat
    /\ {Margin, MaxLatency, MaxPause, MaxHold, MaxTime} \subseteq Nat

VARIABLES
    now,
    expiration,     \* s.AccessTokenExpiration
    client,         \* s.Client
    reply,          \* the token issued to the request in flight
    pc,             \* where each caller is
    since,          \* when each caller last looked at the clock
    held            \* the client each caller has, or saw at that time

vars == <<now, expiration, client, reply, pc, since, held>>

NoReply == [at |-> 0, life |-> 0]

\* In these the caller has tokenMutex for writing.
Locked == {"auth", "stamped", "got"}

Labels == {"idle", "asking", "fresh", "wanted", "using"} \cup Locked

LockFree == \A c \in Callers : pc[c] \notin Locked

\* NewNumspotClient has authenticated: the token was issued at time 0.
Init ==
    /\ now \in 0 .. MaxLatency
    /\ \E life \in Lifetimes :
         /\ life > Margin
         /\ expiration = now + (life - Margin)
         /\ client = life
    /\ reply = NoReply
    /\ pc = [c \in Callers |-> "idle"]
    /\ since = [c \in Callers |-> 0]
    /\ held = [c \in Callers |-> 0]

GoTo(c, label) == pc' = [pc EXCEPT ![c] = label]

LookAtClock(c) == since' = [since EXCEPT ![c] = now]

Expired == now > expiration

(***************************************************************************)
(* GetClient.                                                              *)
(***************************************************************************)
CallGetClient(c) ==
    /\ pc[c] = "idle"
    /\ GoTo(c, "asking")
    /\ UNCHANGED <<now, expiration, client, reply, since, held>>

\* Under the read lock.  What s.Client is now, a caller that goes on without
\* the lock may still read later.
IsTokenExpired(c) ==
    /\ pc[c] = "asking"
    /\ LockFree
    /\ \/ Expired /\ GoTo(c, "wanted") /\ UNCHANGED <<since, held>>
       \/ /\ ~Expired
          /\ GoTo(c, "fresh")
          /\ LookAtClock(c)
          /\ held' = [held EXCEPT ![c] = client]
    /\ UNCHANGED <<now, expiration, client, reply>>

\* The second look at the clock, under the lock, left out.
LockTokenNoRecheck(c) ==
    /\ pc[c] = "wanted"
    /\ LockFree
    /\ GoTo(c, "auth")
    /\ UNCHANGED <<now, expiration, client, reply, since, held>>

\* Another caller may have replaced the token while this one waited.
LockToken(c) ==
    /\ pc[c] = "wanted"
    /\ LockFree
    /\ \/ Expired /\ GoTo(c, "auth") /\ UNCHANGED since
       \/ ~Expired /\ GoTo(c, "got") /\ LookAtClock(c)
    /\ UNCHANGED <<now, expiration, client, reply, held>>

\* GetClient returns s.Client: under the lock, or without it to a caller
\* that found the token fresh.
ReturnClient(c) ==
    /\ \/ pc[c] = "got" /\ held' = [held EXCEPT ![c] = client]
       \/ /\ pc[c] = "fresh"
          /\ held' \in {held, [held EXCEPT ![c] = client]}
    /\ GoTo(c, "using")
    /\ UNCHANGED <<now, expiration, client, reply, since>>

(***************************************************************************)
(* authenticate.                                                           *)
(***************************************************************************)
\* The service's part of the token request.
IssueToken(c) ==
    /\ pc[c] = "auth"
    /\ reply = NoReply
    /\ \E life \in Lifetimes : reply' = [at |-> now, life |-> life]
    /\ UNCHANGED <<now, expiration, client, pc, since, held>>

\* A failed request repeated, with the lock held, until it succeeds.
AuthFailsRetry(c) ==
    /\ pc[c] = "auth"
    /\ reply' = NoReply
    /\ UNCHANGED <<now, expiration, client, pc, since, held>>

\* The request fails, with its answer lost or refused, or the token would
\* live too short: GetClient returns an error.
AuthFails(c) ==
    /\ pc[c] = "auth"
    /\ GoTo(c, "idle")
    /\ reply' = NoReply
    /\ UNCHANGED <<now, expiration, client, since, held>>

\* The expiration as the service tells it.
StampNoMargin(c) ==
    /\ pc[c] = "auth"
    /\ reply.life > Margin
    /\ expiration' = now + reply.life
    /\ GoTo(c, "stamped")
    /\ UNCHANGED <<now, client, reply, since, held>>

\* A token shorter than the margin accepted.
StampAnyLife(c) ==
    /\ pc[c] = "auth"
    /\ reply # NoReply
    /\ expiration' = now + reply.life - Margin
    /\ GoTo(c, "stamped")
    /\ UNCHANGED <<now, client, reply, since, held>>

StampExpiration(c) ==
    /\ pc[c] = "auth"
    /\ reply.life > Margin
    /\ expiration' = now + (reply.life - Margin)
    /\ GoTo(c, "stamped")
    /\ UNCHANGED <<now, client, reply, since, held>>

SwapClient(c) ==
    /\ pc[c] = "stamped"
    /\ client' = reply.at + reply.life
    /\ reply' = NoReply
    /\ GoTo(c, "got")
    /\ LookAtClock(c)
    /\ UNCHANGED <<now, expiration, held>>

(***************************************************************************)
(* Handlers and time.                                                      *)
(***************************************************************************)
\* The handler, StepRunSourceVm.Run for one, is done with the client it got
\* at its start.
FinishHandler(c) ==
    /\ pc[c] = "using"
    /\ GoTo(c, "idle")
    /\ since' = [since EXCEPT ![c] = 0]
    /\ held' = [held EXCEPT ![c] = 0]
    /\ UNCHANGED <<now, expiration, client, reply>>

\* Time passes while callers wait for the lock or for the service, or use
\* their client; statements that follow each other take none.
Tick ==
    /\ now < MaxTime
    /\ reply # NoReply => now < reply.at + MaxLatency
    /\ \A c \in Callers :
         /\ pc[c] \notin {"stamped", "got"}
         /\ pc[c] = "fresh" => now < since[c] + MaxPause
         /\ pc[c] = "using" => now < since[c] + MaxHold
    /\ now' = now + 1
    /\ UNCHANGED <<expiration, client, reply, pc, since, held>>

GetClientStep(c) ==
    \/ IsTokenExpired(c) \/ LockToken(c) \/ ReturnClient(c)
    \/ AuthFails(c) \/ StampExpiration(c) \/ SwapClient(c)

Next ==
    \/ \E c \in Callers :
         CallGetClient(c) \/ GetClientStep(c) \/ IssueToken(c) \/ FinishHandler(c)
    \/ Tick

\* A token request ends, in an answer or an error; sync.RWMutex lets no
\* caller starve, whether it waits to read or to write.
Fairness == \A c \in Callers : SF_vars(GetClientStep(c))

Spec == Init /\ [][Next]_vars /\ Fairness

(***************************************************************************)
(* Properties.                                                             *)
(***************************************************************************)
TypeOK ==
    /\ now \in Nat
    /\ expiration \in Nat \ {0}
    /\ client \in Nat \ {0}
    /\ reply \in [at : Nat, life : Nat]
    /\ pc \in [Callers -> Labels]
    /\ since \in [Callers -> Nat]
    /\ held \in [Callers -> Nat]

\* A handler whose calls follow GetClient within the margin, less what the
\* answer to the token request took, makes none with an expired token,
\* whatever the other callers replace meanwhile (GetClient, authenticate).
ShortCallsAuthorised ==
    \A c \in Callers :
      pc[c] = "using" /\ now + MaxLatency <= since[c] + Margin
        => now <= held[c]

\* GetClient returns, with a client or an error, however many goroutines
\* contend for tokenMutex and however often a token request fails.
Answered ==
    \A c \in Callers : pc[c] = "asking" ~> pc[c] \in {"idle", "using"}

\* What a caller may rely on, see TokenPromise.
Promise == INSTANCE TokenPromise WITH
    Slack <- MaxLatency + MaxPause,
    token <- client,
    asked <- {c \in Callers :
                pc[c] \notin {"idle", "using"}},
    granted <- [c \in Callers |-> IF pc[c] = "using" THEN held[c] ELSE 0]

\* GetClient grants only tokens that still live for the margin less the
\* latency and the pause, and replaces a token only when what remains of it
\* is below the margin, by one that lives longer.
PromiseKept == Promise!Spec
=============================================================================
