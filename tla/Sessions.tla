------------------------------ MODULE Sessions ------------------------------
(***************************************************************************)
(* Signing in through an identity provider, and the sessions that follow.  *)
(* A login is a transaction held in memory and consumed by the first       *)
(* callback that names it; the callback then trades its code for tokens,   *)
(* has the token verified, and stores a session.  A browser, or a user who *)
(* goes back, may deliver a callback again at any time, several at once.   *)
(* Requests resolve their session against the table.                       *)
(*                                                                         *)
(* A login stands for its state parameter, a callback for the session id   *)
(* it would mint.  Tokens, roles and names are left out: the provider      *)
(* accepts a code or does not, the verifier a token.                       *)
(***************************************************************************)
EXTENDS Naturals, FiniteSets

CONSTANTS
    Logins, Callbacks,
    NoLogin,
    MaxLosses     \* bound: restarts, which lose the transactions

ASSUME SessionAssumption == MaxLosses \in Nat /\ NoLogin \notin Logins

VARIABLES
    transaction,  \* of each login: unborn, pending, overdue or gone
    callback,     \* where each callback stands
    login,        \* the login it names
    session,      \* the row it minted: none, live, overdue or gone
    signedOut,    \* history: sessions whose user signed out
    request,      \* of each session, a request that carries its cookie
    losses

sessionVars == <<transaction, callback, login, session, signedOut, request, losses>>

SessionTypes ==
    /\ transaction \in [Logins -> {"unborn", "pending", "overdue", "gone"}]
    /\ callback \in [Callbacks -> {"unused", "exchanging", "storing", "signed in",
                                   "failed"}]
    /\ login \in [Callbacks -> Logins \cup {NoLogin}]
    /\ session \in [Callbacks -> {"none", "live", "overdue", "gone"}]
    /\ signedOut \subseteq Callbacks
    /\ request \in [Callbacks -> {"none", "asking", "too late", "accepted", "refused",
                                  "accepted too late"}]
    /\ losses \in 0..MaxLosses

SessionInit ==
    /\ transaction = [l \in Logins |-> "unborn"]
    /\ callback = [c \in Callbacks |-> "unused"]
    /\ login = [c \in Callbacks |-> NoLogin]
    /\ session = [c \in Callbacks |-> "none"]
    /\ signedOut = {}
    /\ request = [c \in Callbacks |-> "none"]
    /\ losses = 0

-----------------------------------------------------------------------------
(* /auth/login; starting one sweeps out those that are overdue *)
StartLogin(l) ==
    /\ transaction[l] = "unborn"
    /\ transaction' = [x \in Logins |-> CASE x = l -> "pending"
                                          [] transaction[x] = "overdue" -> "gone"
                                          [] OTHER -> transaction[x]]
    /\ UNCHANGED <<callback, login, session, signedOut, request, losses>>

LoginOverdue(l) ==
    /\ transaction[l] = "pending"
    /\ transaction' = [transaction EXCEPT ![l] = "overdue"]
    /\ UNCHANGED <<callback, login, session, signedOut, request, losses>>

(* variant: the transaction is looked up, and taken out when all is done   *)
Peek(l) == transaction

Consume(l) == [transaction EXCEPT ![l] = "gone"]

(* /auth/callback, by a browser that has been to the provider.  It fails   *)
(* without a transaction in time, or without a code, which consumes the    *)
(* transaction all the same; and the provider may have declined.           *)
Deliver(c, l) ==
    /\ callback[c] = "unused" /\ transaction[l] # "unborn"
    /\ transaction' = Consume(l)
    /\ login' = [login EXCEPT ![c] = l]
    /\ \/ /\ transaction[l] = "pending"
          /\ callback' = [callback EXCEPT ![c] = "exchanging"]
       \/ callback' = [callback EXCEPT ![c] = "failed"]
    /\ UNCHANGED <<session, signedOut, request, losses>>

Declined(c, l) ==
    /\ callback[c] = "unused" /\ transaction[l] # "unborn"
    /\ callback' = [callback EXCEPT ![c] = "failed"]
    /\ UNCHANGED <<transaction, login, session, signedOut, request, losses>>

(* The code is traded, the token is verified, the session is stored; any   *)
(* of them may fail                                                        *)
Advance(c) ==
    /\ \/ /\ callback[c] = "exchanging"
          /\ callback' = [callback EXCEPT ![c] = "storing"] /\ UNCHANGED session
       \/ /\ callback[c] = "storing"
          /\ callback' = [callback EXCEPT ![c] = "signed in"]
          /\ session' = [session EXCEPT ![c] = "live"]
    /\ UNCHANGED <<transaction, login, signedOut, request, losses>>

Fail(c) ==
    /\ callback[c] \in {"exchanging", "storing"}
    /\ callback' = [callback EXCEPT ![c] = "failed"]
    /\ UNCHANGED <<transaction, login, session, signedOut, request, losses>>

-----------------------------------------------------------------------------
SessionOverdue(c) ==
    /\ session[c] = "live"
    /\ session' = [session EXCEPT ![c] = "overdue"]
    /\ UNCHANGED <<transaction, callback, login, signedOut, request, losses>>

(* /auth/logout deletes the row *)
Logout(c) ==
    /\ callback[c] = "signed in" /\ c \notin signedOut
    /\ session' = [session EXCEPT ![c] = "gone"]
    /\ signedOut' = signedOut \cup {c}
    /\ UNCHANGED <<transaction, callback, login, request, losses>>

(* A request with the cookie of c: resolve finds a live row, or refuses;   *)
(* it deletes a row that is overdue.  Whoever began after the sign-out is  *)
(* too late.                                                               *)
Ask(c) ==
    /\ callback[c] = "signed in" /\ request[c] \in {"none", "accepted", "refused"}
    /\ request' = [request EXCEPT ![c] = IF c \in signedOut THEN "too late" ELSE "asking"]
    /\ UNCHANGED <<transaction, callback, login, session, signedOut, losses>>

Resolve(c) ==
    /\ request[c] \in {"asking", "too late"}
    /\ request' = [request EXCEPT ![c] =
                     CASE session[c] # "live" -> "refused"
                       [] session[c] = "live" /\ request[c] = "asking" -> "accepted"
                       [] OTHER -> "accepted too late"]
    /\ session' = [session EXCEPT ![c] = IF @ = "overdue" THEN "gone" ELSE @]
    /\ UNCHANGED <<transaction, callback, login, signedOut, losses>>

(* The process is replaced: transactions and callbacks on their way are    *)
(* lost, sessions are not                                                  *)
Loss ==
    /\ losses < MaxLosses /\ losses' = losses + 1
    /\ transaction' = [l \in Logins |->
                         IF transaction[l] = "unborn" THEN "unborn" ELSE "gone"]
    /\ callback' = [c \in Callbacks |->
                      IF callback[c] \in {"exchanging", "storing"} THEN "failed"
                      ELSE callback[c]]
    /\ request' = [c \in Callbacks |->
                     IF request[c] \in {"asking", "too late"} THEN "refused" ELSE request[c]]
    /\ UNCHANGED <<login, session, signedOut>>

SessionNext ==
    \/ Loss
    \/ \E l \in Logins : StartLogin(l) \/ LoginOverdue(l)
    \/ \E c \in Callbacks, l \in Logins : Deliver(c, l) \/ Declined(c, l)
    \/ \E c \in Callbacks : Advance(c) \/ Fail(c) \/ SessionOverdue(c) \/ Logout(c)
                              \/ Ask(c) \/ Resolve(c)

SessionSpec == SessionInit /\ [][SessionNext]_sessionVars

-----------------------------------------------------------------------------
(* Properties *)

(* A login mints one session at most, however often and however close      *)
(* together its callback is delivered, and a user who signed out is signed *)
(* out for every request that comes after (TransactionStore: consumed      *)
(* exactly once; logout: the session is gone rather than forgotten).       *)
OneSessionPerLogin ==
    /\ \A c, d \in Callbacks :
          session[c] # "none" /\ session[d] # "none" /\ login[c] = login[d] => c = d
    /\ \A c \in Callbacks : request[c] # "accepted too late"

=============================================================================
