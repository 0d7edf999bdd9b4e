--------------------------- MODULE ServicesProofs ---------------------------
(* Theorems about Sessions, Inbound and Delegation, for any number of      *)
(* logins, callbacks, payloads, deliveries and assistants.                 *)
EXTENDS Sessions, Inbound, Delegation, TLAPS

(* Callbacks that have their transaction and have not failed *)
Carries(c) == callback[c] \in {"exchanging", "storing", "signed in"}

(* A transaction someone carries is gone, and nobody else carries it *)
ConsumedOnce ==
    /\ \A c \in Callbacks : Carries(c) => login[c] \in Logins /\ transaction[login[c]] = "gone"
    /\ \A c, d \in Callbacks : Carries(c) /\ Carries(d) /\ login[c] = login[d] => c = d

MintedBySignIn == \A c \in Callbacks : session[c] # "none" => callback[c] = "signed in"

SignedOutForGood ==
    /\ \A c \in signedOut : session[c] = "gone" /\ callback[c] = "signed in"
    /\ \A c \in Callbacks : request[c] = "too late" => c \in signedOut
    /\ \A c \in Callbacks : request[c] # "accepted too late"

SessionInv == SessionTypes /\ ConsumedOnce /\ MintedBySignIn /\ SignedOutForGood

LEMMA SessionTypeStep == SessionTypes /\ [SessionNext]_sessionVars => SessionTypes'
<1> SUFFICES ASSUME SessionTypes, [SessionNext]_sessionVars PROVE SessionTypes'
  OBVIOUS
<1> USE DEF SessionTypes
<1>1. ASSUME NEW l \in Logins, StartLogin(l) \/ LoginOverdue(l) PROVE SessionTypes'
  BY <1>1 DEF StartLogin, LoginOverdue
<1>2. ASSUME NEW c \in Callbacks, NEW l \in Logins, Deliver(c, l) PROVE SessionTypes'
  <2>1. transaction' \in [Logins -> {"unborn", "pending", "overdue", "gone"}]
    BY <1>2 DEF Deliver, Consume
  <2>2. login' \in [Callbacks -> Logins \cup {NoLogin}]
    BY <1>2 DEF Deliver
  <2>3. callback' \in [Callbacks -> {"unused", "exchanging", "storing", "signed in", "failed"}]
    BY <1>2 DEF Deliver
  <2> QED
    BY <1>2, <2>1, <2>2, <2>3 DEF Deliver
<1>3. ASSUME NEW c \in Callbacks, NEW l \in Logins, Declined(c, l) PROVE SessionTypes'
  BY <1>3 DEF Declined
<1>4. ASSUME NEW c \in Callbacks, Advance(c) PROVE SessionTypes'
  <2>1. callback' \in [Callbacks -> {"unused", "exchanging", "storing", "signed in", "failed"}]
    <3>1. \/ callback' = [callback EXCEPT ![c] = "storing"]
          \/ callback' = [callback EXCEPT ![c] = "signed in"]
      BY <1>4 DEF Advance
    <3> QED
      BY <3>1
  <2>2. session' \in [Callbacks -> {"none", "live", "overdue", "gone"}]
    <3>1. session' = session \/ session' = [session EXCEPT ![c] = "live"]
      BY <1>4 DEF Advance
    <3> QED
      BY <3>1
  <2>3. UNCHANGED <<transaction, login, signedOut, request, losses>>
    BY <1>4 DEF Advance
  <2> QED
    BY <2>1, <2>2, <2>3
<1>5. ASSUME NEW c \in Callbacks, Fail(c) \/ SessionOverdue(c) \/ Ask(c) PROVE SessionTypes'
  BY <1>5 DEF Fail, SessionOverdue, Ask
<1>6. ASSUME NEW c \in Callbacks, Logout(c) PROVE SessionTypes'
  <2>1. session' \in [Callbacks -> {"none", "live", "overdue", "gone"}]
    BY <1>6 DEF Logout
  <2>2. signedOut' \subseteq Callbacks
    BY <1>6 DEF Logout
  <2> QED
    BY <1>6, <2>1, <2>2 DEF Logout
<1>7. ASSUME NEW c \in Callbacks, Resolve(c) PROVE SessionTypes'
  <2>1. session' \in [Callbacks -> {"none", "live", "overdue", "gone"}]
    BY <1>7 DEF Resolve
  <2>2. request' \in [Callbacks -> {"none", "asking", "too late", "accepted", "refused",
                                    "accepted too late"}]
    BY <1>7 DEF Resolve
  <2> QED
    BY <1>7, <2>1, <2>2 DEF Resolve
<1>8. CASE Loss
  <2>1. transaction' \in [Logins -> {"unborn", "pending", "overdue", "gone"}]
    BY <1>8 DEF Loss
  <2>2. callback' \in [Callbacks -> {"unused", "exchanging", "storing", "signed in", "failed"}]
    BY <1>8 DEF Loss
  <2>3. request' \in [Callbacks -> {"none", "asking", "too late", "accepted", "refused",
                                    "accepted too late"}]
    BY <1>8 DEF Loss
  <2>4. losses' \in 0..MaxLosses
    <3>1. losses < MaxLosses /\ losses' = losses + 1
      BY <1>8 DEF Loss
    <3>2. MaxLosses \in Nat
      BY SessionAssumption
    <3>3. losses \in 0..MaxLosses
      OBVIOUS
    <3> HIDE DEF SessionTypes
    <3> QED
      BY <3>1, <3>2, <3>3
  <2>5. UNCHANGED <<login, session, signedOut>>
    BY <1>8 DEF Loss
  <2> QED
    BY <2>1, <2>2, <2>3, <2>4, <2>5
<1>9. CASE UNCHANGED sessionVars
  BY <1>9 DEF sessionVars
<1> QED
  BY <1>1, <1>2, <1>3, <1>4, <1>5, <1>6, <1>7, <1>8, <1>9 DEF SessionNext

(* A transaction that is gone stays gone, and is nobody's to carry anew    *)
LEMMA GoneForGood ==
  ASSUME SessionTypes, [SessionNext]_sessionVars, NEW l \in Logins, transaction[l] = "gone"
  PROVE  transaction'[l] = "gone"
<1>1. ASSUME NEW k \in Logins, StartLogin(k) \/ LoginOverdue(k) PROVE transaction'[l] = "gone"
  BY <1>1 DEF StartLogin, LoginOverdue, SessionTypes
<1>2. ASSUME NEW c \in Callbacks, NEW k \in Logins, Deliver(c, k) PROVE transaction'[l] = "gone"
  BY <1>2 DEF Deliver, Consume, SessionTypes
<1>3. ASSUME NEW c \in Callbacks, NEW k \in Logins, Declined(c, k) PROVE UNCHANGED transaction
  BY <1>3 DEF Declined
<1>4. ASSUME NEW c \in Callbacks,
             Advance(c) \/ Fail(c) \/ SessionOverdue(c) \/ Logout(c) \/ Ask(c) \/ Resolve(c)
      PROVE  UNCHANGED transaction
  BY <1>4 DEF Advance, Fail, SessionOverdue, Logout, Ask, Resolve
<1>5. Loss => transaction'[l] = "gone"
  BY DEF Loss
<1>6. UNCHANGED sessionVars => UNCHANGED transaction
  BY DEF sessionVars
<1> QED
  BY <1>1, <1>2, <1>3, <1>4, <1>5, <1>6 DEF SessionNext

LEMMA ConsumedOnceStep == SessionTypes /\ ConsumedOnce /\ [SessionNext]_sessionVars => ConsumedOnce'
<1> SUFFICES ASSUME SessionTypes, ConsumedOnce, [SessionNext]_sessionVars PROVE ConsumedOnce'
  OBVIOUS
(* Whoever carries a login now carried the same one before                 *)
<1>1. CASE \A c \in Callbacks : Carries(c)' => Carries(c) /\ login'[c] = login[c]
  BY <1>1, GoneForGood DEF ConsumedOnce
<1>2. ASSUME NEW c \in Callbacks, NEW l \in Logins, Deliver(c, l) PROVE ConsumedOnce'
  <2>1. /\ \A x \in Callbacks \ {c} : callback'[x] = callback[x] /\ login'[x] = login[x]
        /\ login'[c] = l /\ transaction'[l] = "gone"
    BY <1>2 DEF Deliver, Consume, SessionTypes
  <2>2. Carries(c)' => transaction[l] = "pending"
    BY <1>2 DEF Deliver, Carries, SessionTypes
  <2>3. Carries(c)' => \A x \in Callbacks \ {c} : Carries(x) => login[x] # l
    BY <2>2 DEF ConsumedOnce
  <2>4. \A x \in Callbacks \ {c} : Carries(x)' <=> Carries(x)
    BY <2>1 DEF Carries
  <2> QED
    BY <2>1, <2>3, <2>4, GoneForGood DEF ConsumedOnce
<1>3. ASSUME NEW l \in Logins, StartLogin(l) \/ LoginOverdue(l) PROVE UNCHANGED <<callback, login>>
  BY <1>3 DEF StartLogin, LoginOverdue
<1>4. ASSUME NEW c \in Callbacks, NEW l \in Logins, Declined(c, l)
      PROVE  \A x \in Callbacks : Carries(x)' => Carries(x) /\ login'[x] = login[x]
  BY <1>4 DEF Declined, Carries, SessionTypes
<1>5. ASSUME NEW c \in Callbacks, Advance(c) \/ Fail(c)
      PROVE  \A x \in Callbacks : Carries(x)' => Carries(x) /\ login'[x] = login[x]
  <2>1. /\ callback[c] \in {"exchanging", "storing"} /\ UNCHANGED login
        /\ \A x \in Callbacks \ {c} : callback'[x] = callback[x]
    <3>1. CASE Advance(c)
      BY <3>1 DEF Advance, SessionTypes
    <3>2. CASE Fail(c)
      BY <3>2 DEF Fail, SessionTypes
    <3> QED
      BY <1>5, <3>1, <3>2
  <2> QED
    BY <2>1 DEF Carries
<1>6. ASSUME NEW c \in Callbacks, SessionOverdue(c) \/ Logout(c) \/ Ask(c) \/ Resolve(c)
      PROVE  UNCHANGED <<callback, login>>
  BY <1>6 DEF SessionOverdue, Logout, Ask, Resolve
<1>7. Loss => \A x \in Callbacks : Carries(x)' => Carries(x) /\ login'[x] = login[x]
  <2> SUFFICES ASSUME Loss, NEW x \in Callbacks, Carries(x)'
               PROVE  Carries(x) /\ login'[x] = login[x]
    OBVIOUS
  <2>1. callback'[x] = IF callback[x] \in {"exchanging", "storing"} THEN "failed" ELSE callback[x]
    BY DEF Loss
  <2>2. login' = login
    BY DEF Loss
  <2> QED
    BY <2>1, <2>2 DEF Carries
<1>8. UNCHANGED <<callback, login>>
        => \A x \in Callbacks : Carries(x)' => Carries(x) /\ login'[x] = login[x]
  BY DEF Carries
<1>9. UNCHANGED sessionVars => UNCHANGED <<callback, login>>
  BY DEF sessionVars
<1> QED
  BY <1>1, <1>2, <1>3, <1>4, <1>5, <1>6, <1>7, <1>8, <1>9 DEF SessionNext

LEMMA SignedOutStep ==
  SessionTypes /\ MintedBySignIn /\ SignedOutForGood /\ [SessionNext]_sessionVars
    => MintedBySignIn' /\ SignedOutForGood'
<1> SUFFICES ASSUME SessionTypes, MintedBySignIn, SignedOutForGood, [SessionNext]_sessionVars
             PROVE  MintedBySignIn' /\ SignedOutForGood'
  OBVIOUS
<1> USE DEF SessionTypes, MintedBySignIn, SignedOutForGood
<1>1. CASE UNCHANGED <<callback, session, signedOut, request>>
  BY <1>1
<1>2. ASSUME NEW c \in Callbacks, NEW l \in Logins, Deliver(c, l) \/ Declined(c, l)
      PROVE  MintedBySignIn' /\ SignedOutForGood'
  <2>1. /\ callback[c] = "unused" /\ UNCHANGED <<session, signedOut, request>>
        /\ \A x \in Callbacks \ {c} : callback'[x] = callback[x]
    BY <1>2 DEF Deliver, Declined
  <2> QED
    BY <2>1
<1>3. ASSUME NEW c \in Callbacks, Advance(c) \/ Fail(c) PROVE MintedBySignIn' /\ SignedOutForGood'
  <2>1. /\ callback[c] \in {"exchanging", "storing"} /\ UNCHANGED <<signedOut, request>>
        /\ \A x \in Callbacks \ {c} : callback'[x] = callback[x] /\ session'[x] = session[x]
        /\ session'[c] # "none" => callback'[c] = "signed in" \/ session[c] # "none"
    <3>1. CASE Advance(c) /\ callback[c] = "exchanging"
      <4>1. callback' = [callback EXCEPT ![c] = "storing"] /\ UNCHANGED <<session, signedOut, request>>
        BY <3>1 DEF Advance
      <4> QED
        BY <3>1, <4>1
    <3>2. CASE Advance(c) /\ callback[c] # "exchanging"
      <4>1. /\ callback[c] = "storing" /\ callback' = [callback EXCEPT ![c] = "signed in"]
            /\ session' = [session EXCEPT ![c] = "live"] /\ UNCHANGED <<signedOut, request>>
        BY <3>2 DEF Advance
      <4>2. /\ \A x \in Callbacks \ {c} : callback'[x] = callback[x] /\ session'[x] = session[x]
            /\ callback'[c] = "signed in"
        BY <4>1
      <4> QED
        BY <4>1, <4>2
    <3>3. CASE Fail(c)
      BY <3>3 DEF Fail
    <3> QED
      BY <1>3, <3>1, <3>2, <3>3
  <2>2. session[c] = "none" /\ c \notin signedOut
    BY <2>1
  <2>3. \A x \in Callbacks : callback[x] = "signed in" => x # c /\ callback'[x] = "signed in"
    BY <2>1
  <2>4. MintedBySignIn'
    BY <2>1, <2>2, <2>3
  <2>5. \A x \in signedOut' : session'[x] = "gone" /\ callback'[x] = "signed in"
    BY <2>1, <2>2, <2>3
  <2>6. \A x \in Callbacks : request'[x] = request[x]
    BY <2>1
  <2> QED
    BY <2>1, <2>4, <2>5, <2>6
<1>4. ASSUME NEW c \in Callbacks, SessionOverdue(c) PROVE MintedBySignIn' /\ SignedOutForGood'
  BY <1>4 DEF SessionOverdue
<1>5. ASSUME NEW c \in Callbacks, Logout(c) PROVE MintedBySignIn' /\ SignedOutForGood'
  <2>1. /\ callback[c] = "signed in" /\ UNCHANGED <<callback, request>>
        /\ \A x \in Callbacks : session'[x] = IF x = c THEN "gone" ELSE session[x]
        /\ signedOut' = signedOut \cup {c}
    BY <1>5 DEF Logout
  <2> QED
    BY <2>1
<1>6. ASSUME NEW c \in Callbacks, Ask(c) PROVE MintedBySignIn' /\ SignedOutForGood'
  <2>1. /\ UNCHANGED <<callback, session, signedOut>>
        /\ \A x \in Callbacks \ {c} : request'[x] = request[x]
        /\ request'[c] = "too late" => c \in signedOut
        /\ request'[c] # "accepted too late"
    BY <1>6 DEF Ask
  <2> QED
    BY <2>1
<1>7. ASSUME NEW c \in Callbacks, Resolve(c) PROVE MintedBySignIn' /\ SignedOutForGood'
  <2>1. /\ UNCHANGED <<callback, signedOut>>
        /\ \A x \in Callbacks : session'[x] = IF x = c /\ session[c] = "overdue" THEN "gone"
                                                                              ELSE session[x]
        /\ \A x \in Callbacks \ {c} : request'[x] = request[x]
        /\ request'[c] # "too late"
        /\ request'[c] = "accepted too late" => request[c] = "too late" /\ session[c] = "live"
    BY <1>7 DEF Resolve
  <2> QED
    BY <2>1
<1>8. CASE Loss
  <2>1. /\ UNCHANGED <<session, signedOut>>
        /\ \A x \in Callbacks : callback[x] = "signed in" => callback'[x] = "signed in"
        /\ \A x \in Callbacks : request'[x] \in {request[x], "refused"}
    BY <1>8 DEF Loss
  <2> QED
    BY <2>1
<1>9. ASSUME NEW l \in Logins, StartLogin(l) \/ LoginOverdue(l)
      PROVE  UNCHANGED <<callback, session, signedOut, request>>
  BY <1>9 DEF StartLogin, LoginOverdue
<1>10. UNCHANGED sessionVars => UNCHANGED <<callback, session, signedOut, request>>
  BY DEF sessionVars
<1> QED
  BY <1>1, <1>2, <1>3, <1>4, <1>5, <1>6, <1>7, <1>8, <1>9, <1>10 DEF SessionNext

LEMMA SessionInductive == SessionSpec => []SessionInv
<1>1. SessionInit => SessionInv
  <2> SUFFICES ASSUME SessionInit PROVE SessionInv
    OBVIOUS
  <2>1. SessionTypes
    <3>1. callback \in [Callbacks -> {"unused", "exchanging", "storing", "signed in", "failed"}]
          /\ session \in [Callbacks -> {"none", "live", "overdue", "gone"}]
      BY DEF SessionInit
    <3>2. request \in [Callbacks -> {"none", "asking", "too late", "accepted", "refused",
                                     "accepted too late"}]
      BY DEF SessionInit
    <3>3. login \in [Callbacks -> Logins \cup {NoLogin}] /\ signedOut \subseteq Callbacks
          /\ transaction \in [Logins -> {"unborn", "pending", "overdue", "gone"}]
      BY DEF SessionInit
    <3>4. losses \in 0..MaxLosses
      BY SessionAssumption DEF SessionInit
    <3> QED
      BY <3>1, <3>2, <3>3, <3>4 DEF SessionTypes
  <2>2. ConsumedOnce /\ MintedBySignIn /\ SignedOutForGood
    BY DEF SessionInit, Carries, ConsumedOnce, MintedBySignIn, SignedOutForGood
  <2> QED
    BY <2>1, <2>2 DEF SessionInv
<1>2. SessionInv /\ [SessionNext]_sessionVars => SessionInv'
  BY SessionTypeStep, ConsumedOnceStep, SignedOutStep DEF SessionInv
<1> QED
  BY <1>1, <1>2, PTL DEF SessionSpec

(* Whatever browsers deliver and redeliver, and whoever signs out: one     *)
(* session of a login, and no request after the sign-out is accepted.      *)
THEOREM OneSessionPerLoginHolds == SessionSpec => []OneSessionPerLogin
<1>1. SessionInv => OneSessionPerLogin
  BY DEF SessionInv, ConsumedOnce, MintedBySignIn, SignedOutForGood, Carries, OneSessionPerLogin
<1> QED
  BY SessionInductive, <1>1, PTL

-----------------------------------------------------------------------------
(* What a delivery has passed is in the inbox *)
PassedIsKept ==
    \A d \in Deliveries :
        /\ step[d] = "storing" => At(d) \in Texts
        /\ delivery[d] = NoPayload => place[d] = 1 /\ step[d] = "none"
        /\ \A i \in 1..place[d] - 1 :
              /\ delivery[d] \in Payloads
              /\ i \in DOMAIN Contents[delivery[d]] /\ Contents[delivery[d]][i] \in Texts
                    => Contents[delivery[d]][i] \in inbox

InboundInv == InboundTypes /\ PassedIsKept /\ AnsweredIsKept

LEMMA InboundInductive == InboundSpec => []InboundInv
<1> USE InboundAssumption
<1>1. InboundInit => InboundInv
  BY DEF InboundInit, InboundInv, InboundTypes, PassedIsKept, AnsweredIsKept
<1>2. InboundInv /\ [InboundNext]_inboundVars => InboundInv'
  <2> SUFFICES ASSUME InboundInv, [InboundNext]_inboundVars PROVE InboundInv'
    OBVIOUS
  <2> USE DEF InboundInv
  <2>1. ASSUME NEW d \in Deliveries, NEW p \in Payloads, Arrive(d, p) PROVE InboundInv'
    <3>1. InboundTypes'
      BY <2>1 DEF Arrive, InboundTypes
    <3>2. PassedIsKept'
      BY <2>1 DEF Arrive, At, InboundTypes, PassedIsKept
    <3> QED
      BY <2>1, <3>1, <3>2 DEF Arrive, AnsweredIsKept
  <2>2. ASSUME NEW d \in Deliveries, LookUp(d) PROVE InboundInv'
    <3>1. InboundTypes'
      BY <2>2 DEF LookUp, Proceed, InboundTypes
    <3>2. PassedIsKept'
      BY <2>2 DEF LookUp, Proceed, At, Done, InboundTypes, PassedIsKept
    <3> QED
      BY <2>2, <3>1, <3>2 DEF LookUp, AnsweredIsKept
  <2>3. ASSUME NEW d \in Deliveries, Commit(d) PROVE InboundInv'
    <3>1. InboundTypes'
      <4>1. At(d) \in Texts
        BY <2>3 DEF Commit, PassedIsKept
      <4> QED
        BY <2>3, <4>1 DEF Commit, Proceed, InboundTypes
    <3>2. PassedIsKept'
      BY <2>3 DEF Commit, Proceed, At, InboundTypes, PassedIsKept
    <3> QED
      BY <2>3, <3>1, <3>2 DEF Commit, AnsweredIsKept
  <2>4. ASSUME NEW d \in Deliveries, FailDelivery(d) PROVE InboundInv'
    BY <2>4 DEF FailDelivery, At, InboundTypes, PassedIsKept, AnsweredIsKept
  <2>5. ASSUME NEW d \in Deliveries, Answer(d) PROVE InboundInv'
    <3>1. InboundTypes' /\ PassedIsKept'
      BY <2>5 DEF Answer, At, InboundTypes, PassedIsKept
    <3>2. AnsweredIsKept'
      <4>1. delivery[d] \in Payloads /\ place[d] > Len(Contents[delivery[d]])
        BY <2>5 DEF Answer, Done, InboundTypes, PassedIsKept
      <4>2. DOMAIN Contents[delivery[d]] = 1..Len(Contents[delivery[d]])
        BY <4>1
      <4>3. \A i \in DOMAIN Contents[delivery[d]] :
               Contents[delivery[d]][i] \in Texts => Contents[delivery[d]][i] \in inbox
        BY <4>1, <4>2 DEF InboundTypes, PassedIsKept
      <4> QED
        BY <2>5, <4>3 DEF Answer, AnsweredIsKept
    <3> QED
      BY <3>1, <3>2
  <2>6. CASE UNCHANGED inboundVars
    BY <2>6 DEF inboundVars, At, InboundTypes, PassedIsKept, AnsweredIsKept
  <2> QED
    BY <2>1, <2>2, <2>3, <2>4, <2>5, <2>6 DEF InboundNext
<1> QED
  BY <1>1, <1>2, PTL DEF InboundSpec

(* A payload the vendor was told 200 for is in the inbox, text by text,    *)
(* whatever failed and however often it was delivered.                     *)
THEOREM AnsweredIsKeptHolds == InboundSpec => []AnsweredIsKept
<1>1. InboundInv => AnsweredIsKept
  BY DEF InboundInv
<1> QED
  BY InboundInductive, <1>1, PTL

-----------------------------------------------------------------------------
(* What is being revealed was granted and is asked for, by the contract in *)
(* force unless it changed meanwhile; nothing is revealed before that, and *)
(* nothing of what would bind the owner.                                   *)
Answering ==
    /\ inquiry.at = "answering" =>
         /\ inquiry.kind \notin Commitments /\ inquiry.known
         /\ inquiry.granted \subseteq RequiredFacets[inquiry.kind]
         /\ inquiry.shared \subseteq inquiry.granted
         /\ \A i \in 1..Len(inquiry.left) : inquiry.left[i] \in inquiry.granted
         /\ inquiry.moved \/ inquiry.granted = Granted(live, inquiry)
    /\ inquiry.at \in {"none", "made", "holding"} => inquiry.shared = {}
    /\ inquiry.at \in {"none", "made", "holding", "answering"} => inquiry.outcome = "none" /\ ~inquiry.pending
    /\ inquiry.at = "holding" => inquiry.known

(* A save that no other crosses is alone, has read the row there is and    *)
(* writes the contract in force; one that was crossed leaves its doubt     *)
SavesInv ==
    \A u \in 1..MaxUpdates :
        /\ saves[u].base # NoContract => kept # NoContract
        /\ saves[u].at # "none" /\ saves[u].crossed => doubts # {}
        /\ saves[u].at # "none" /\ ~saves[u].crossed =>
              /\ \A v \in 1..MaxUpdates : saves[v].at # "none" => v = u
              /\ saves[u].at = "writing" => saves[u].base = kept /\ saves[u].written = live
              /\ saves[u].at = "stored" => LoadedContract = live

(* What the contract, its row and the saves promise, apart from the request *)
ContractTypes ==
    /\ {live, told} \subseteq Contracts /\ kept \in Contracts \cup {NoContract}
    /\ doubts \subseteq {"half", "unanswered", "crossed"}
    /\ saves \in [1..MaxUpdates -> Saves] /\ updates \in 0..MaxUpdates

ContractInv == ContractTypes /\ SavesInv /\ PromiseHolds

DelegationIInv == DelegationTypes /\ SavesInv /\ Answering /\ DisclosureKept

(* What is read of what was granted was granted.                           *)
LEMMA ReadableIsGranted ==
  ASSUME NEW granted \in SUBSET Facets
  PROVE  /\ Readable(granted) \in Seq(Facets)
         /\ \A i \in 1..Len(Readable(granted)) : Readable(granted)[i] \in granted
<1> DEFINE If(f) == IF f \in granted THEN <<f>> ELSE <<>>
<1>1. ASSUME NEW f \in Facets
      PROVE  If(f) \in Seq(granted)
  OBVIOUS
<1>2. Readable(granted) = If("free_busy") \o If("workload") \o If("task_status")
  BY DEF Readable
<1>3. Readable(granted) \in Seq(granted)
  <2>1. {"free_busy", "workload", "task_status"} \subseteq Facets
    BY DEF Facets
  <2> HIDE DEF If
  <2> QED
    BY <1>1, <1>2, <2>1
<1> QED
  BY <1>3

LEMMA ContractIsTyped ==
  ASSUME NEW c \in Contracts, NEW default \in Parts, NEW role \in Parts, NEW user \in Parts
  PROVE  AssignedUpTo(c, default, role, user) \in Contracts
<1> DEFINE d == IF default = Omitted THEN c ELSE [c EXCEPT !.default = default]
           r == IF role = Omitted THEN d ELSE [d EXCEPT !.role = role]
<1>1. \A p \in Parts : p \in {Omitted, Unknown} \/ p \in SUBSET Facets
  BY DelegationAssumption DEF Parts
<1>2. default # Unknown => d \in Contracts
  BY <1>1 DEF Contracts
<1>3. default # Unknown /\ role # Unknown => r \in Contracts
  BY <1>1, <1>2 DEF Contracts
<1>4. default # Unknown /\ role # Unknown /\ user # Unknown /\ user # Omitted
         => [r EXCEPT !.user = user] \in Contracts
  BY <1>1, <1>3 DEF Contracts
<1> QED
  BY <1>2, <1>3, <1>4 DEF AssignedUpTo

(* Of a row that was read and is still there, the columns that differ are  *)
(* written: the row is then a contract, the new one if nobody else wrote.  *)
LEMMA ColumnsWritten ==
  ASSUME NEW new \in Contracts, NEW old \in Contracts, NEW row \in Contracts
  PROVE  LET r == [part \in DOMAIN new |-> IF new[part] # old[part] THEN new[part] ELSE row[part]]
         IN  r \in Contracts /\ (row = old => r = new)
<1> DEFINE r == [part \in DOMAIN new |-> IF new[part] # old[part] THEN new[part] ELSE row[part]]
<1>1. DOMAIN new = {"default", "role", "user"}
  BY DEF Contracts
<1>2. r = [default |-> IF new.default # old.default THEN new.default ELSE row.default,
           role |-> IF new.role # old.role THEN new.role ELSE row.role,
           user |-> IF new.user # old.user THEN new.user ELSE row.user]
  BY <1>1
<1>3. r \in Contracts
  BY <1>2 DEF Contracts
<1>4. row = old => r = new
  BY <1>2 DEF Contracts
<1> QED
  BY <1>3, <1>4

LEMMA FreshIsTyped == FreshContract \in Contracts /\ NoSave \in Saves
BY DEF FreshContract, Contracts, DefaultInternal, Facets, NoSave, Saves

(* A change marks whatever it crosses. *)
LEMMA ChangeStep ==
  ASSUME ContractInv, NEW default \in Parts, NEW role \in Parts, NEW user \in Parts,
         SetDisclosure(default, role, user)
  PROVE  ContractInv'
<1> DEFINE c == AssignedUpTo(live, default, role, user)
           refused == Unknown \in {default, role, user}
           others == [u \in 1..MaxUpdates |-> IF u \in UnderWay THEN [saves[u] EXCEPT !.crossed = TRUE]
                                              ELSE saves[u]]
           begun == [NoSave EXCEPT !.at = "reading", !.crossed = (UnderWay # {})]
<1> USE DEF ContractInv, ContractTypes
<1>1. /\ updates' \in 0..MaxUpdates /\ updates + 1 \in 1..MaxUpdates /\ live' = c
      /\ saves' = IF refused THEN others ELSE [others EXCEPT ![updates + 1] = begun]
      /\ doubts' = doubts \cup (IF UnderWay # {} THEN {"crossed"} ELSE {})
                          \cup (IF refused /\ c # live THEN {"half"} ELSE {})
      /\ kept' = kept /\ told' = told
  BY DelegationAssumption DEF SetDisclosure
<1>2. c \in Contracts
  BY ContractIsTyped
<1>3. UnderWay \subseteq 1..MaxUpdates /\ \A u \in 1..MaxUpdates : u \in UnderWay <=> saves[u].at # "none"
  BY DEF UnderWay
<1> HIDE DEF c, refused
<1>4. /\ begun \in Saves /\ begun.at = "reading" /\ begun.base = NoContract
      /\ begun.crossed = (UnderWay # {})
  BY FreshIsTyped DEF NoSave, Saves
<1> HIDE DEF begun
<1>5. /\ others \in [1..MaxUpdates -> Saves]
      /\ \A u \in 1..MaxUpdates :
            /\ others[u].at = saves[u].at /\ others[u].base = saves[u].base
            /\ saves[u].at # "none" => others[u].crossed
  BY <1>3 DEF Saves
<1> HIDE DEF others
<1>6. saves' \in [1..MaxUpdates -> Saves]
  BY <1>1, <1>4, <1>5
<1>7. \A u \in 1..MaxUpdates :
         \/ saves'[u].at = saves[u].at /\ saves'[u].base = saves[u].base /\ (saves[u].at # "none" => saves'[u].crossed)
         \/ saves'[u] = begun /\ u = updates + 1 /\ ~refused
  <2> SUFFICES ASSUME NEW u \in 1..MaxUpdates
               PROVE  \/ saves'[u].at = saves[u].at /\ saves'[u].base = saves[u].base
                         /\ (saves[u].at # "none" => saves'[u].crossed)
                      \/ saves'[u] = begun /\ u = updates + 1 /\ ~refused
    BY Zenon
  <2>4. /\ others[u].at = saves[u].at /\ others[u].base = saves[u].base
        /\ saves[u].at # "none" => others[u].crossed
    BY <1>5
  <2>1. CASE refused
    BY <1>1, <2>1, <2>4
  <2>2. CASE ~refused /\ u = updates + 1
    BY <1>1, <1>5, <2>2
  <2>3. CASE ~refused /\ u # updates + 1
    <3>1. saves'[u] = others[u]
      BY <1>1, <1>5, <2>3
    <3> QED
      BY <2>4, <3>1
  <2> QED
    BY <2>1, <2>2, <2>3
<1>8. UnderWay # {} => doubts' # {}
  BY <1>1
<1>9. SavesInv'
  <2> SUFFICES ASSUME NEW u \in 1..MaxUpdates
               PROVE  /\ saves'[u].base # NoContract => kept # NoContract
                      /\ saves'[u].at # "none" /\ saves'[u].crossed => doubts' # {}
                      /\ saves'[u].at # "none" /\ ~saves'[u].crossed =>
                            /\ \A v \in 1..MaxUpdates : saves'[v].at # "none" => v = u
                            /\ saves'[u].at = "reading"
    BY <1>1 DEF SavesInv
  <2>1. CASE saves'[u] = begun /\ u = updates + 1 /\ ~refused
    <3>1. UnderWay = {} => \A v \in 1..MaxUpdates : saves'[v].at # "none" => v = u
      BY <1>3, <1>7, <2>1
    <3> QED
      BY <1>4, <1>8, <2>1, <3>1
  <2>2. CASE /\ saves'[u].at = saves[u].at /\ saves'[u].base = saves[u].base
             /\ (saves[u].at # "none" => saves'[u].crossed)
    <3>1. saves[u].at # "none" => UnderWay # {}
      BY <1>3
    <3> QED
      BY <1>8, <2>2, <3>1 DEF SavesInv
  <2> QED
    BY <1>7, <2>1, <2>2
<1>10. PromiseHolds'
  <2> SUFFICES ASSUME doubts' = {}, UnderWay' = {} PROVE live' = told /\ LoadedContract = told
    BY <1>1 DEF PromiseHolds, LoadedContract
  <2>1. UnderWay = {} /\ doubts = {} /\ (refused => c = live)
    BY <1>1
  <2>2. refused
    <3>1. ASSUME ~refused PROVE FALSE
      <4>1. saves'[updates + 1].at = "reading"
        BY <1>1, <1>4, <1>5, <3>1
      <4>2. updates + 1 \in UnderWay'
        BY <1>1, <4>1 DEF UnderWay
      <4> QED
        BY <4>2
    <3> QED
      BY <3>1
  <2> QED
    BY <1>1, <2>1, <2>2 DEF PromiseHolds
<1> QED
  BY <1>1, <1>2, <1>6, <1>9, <1>10

(* A save that is alone stores the contract in force. *)
LEMMA SaveStep ==
  ASSUME ContractInv, NEW w \in 1..MaxUpdates, RowRead(w) \/ RowWritten(w) \/ OwnerTold(w) \/ SaveLost(w)
  PROVE  ContractInv'
<1> USE DEF ContractInv, ContractTypes
<1>1. saves[w] \in Saves /\ live' = live /\ live \in Contracts /\ updates' = updates
  BY DEF RowRead, RowWritten, OwnerTold, SaveLost
<1>2. CASE RowRead(w)
  <2>1. /\ saves[w].at = "reading" /\ kept' = kept /\ told' = told /\ doubts' = doubts
        /\ saves' = [saves EXCEPT ![w].at = "writing", ![w].base = kept, ![w].written = live]
    BY <1>2 DEF RowRead
  <2>2. saves' \in [1..MaxUpdates -> Saves]
    BY <1>1, <2>1 DEF Saves
  <2>3. /\ saves'[w].at = "writing" /\ saves'[w].base = kept /\ saves'[w].written = live
        /\ saves'[w].crossed = saves[w].crossed
        /\ \A u \in 1..MaxUpdates : u # w => saves'[u] = saves[u]
    BY <1>1, <2>1 DEF Saves
  <2>4. SavesInv'
    BY <1>1, <2>1, <2>3 DEF SavesInv, LoadedContract
  <2>5. w \in UnderWay'
    BY <2>3 DEF UnderWay
  <2> QED
    BY <1>1, <2>1, <2>2, <2>4, <2>5 DEF PromiseHolds
<1>3. CASE RowWritten(w)
  <2> DEFINE old == saves[w].base
             new == saves[w].written
  <2>1. /\ saves[w].at = "writing" /\ (old = NoContract => kept = NoContract) /\ told' = told /\ doubts' = doubts
        /\ kept' = IF old = NoContract THEN new
                   ELSE [part \in DOMAIN new |-> IF new[part] # old[part] THEN new[part] ELSE kept[part]]
        /\ saves' = [saves EXCEPT ![w].at = "stored"]
    BY <1>3 DEF RowWritten
  <2>2. old \in Contracts \cup {NoContract} /\ new \in Contracts
    BY <1>1 DEF Saves
  <2>3. old # NoContract => kept \in Contracts
    BY DEF SavesInv
  <2>4. kept' \in Contracts /\ (old = kept => kept' = new)
    <3> HIDE DEF old, new
    <3>1. CASE old = NoContract
      BY <2>1, <2>2, <3>1
    <3>2. CASE old # NoContract
      <4>1. old \in Contracts /\ kept \in Contracts
        BY <2>2, <2>3, <3>2
      <4>2. kept' = [part \in DOMAIN new |-> IF new[part] # old[part] THEN new[part] ELSE kept[part]]
        BY <2>1, <3>2
      <4> QED
        BY <2>2, <4>1, <4>2, ColumnsWritten
    <3> QED
      BY <3>1, <3>2
  <2>5. saves' \in [1..MaxUpdates -> Saves]
    BY <1>1, <2>1 DEF Saves
  <2>6. /\ saves'[w].at = "stored" /\ saves'[w].crossed = saves[w].crossed
        /\ saves'[w].base = saves[w].base
        /\ \A u \in 1..MaxUpdates : u # w => saves'[u] = saves[u]
    BY <1>1, <2>1 DEF Saves
  <2>7. kept' # NoContract
    BY <2>4, DelegationAssumption
  <2>8. ~saves[w].crossed => LoadedContract' = live
    BY <1>1, <2>1, <2>4, <2>7 DEF SavesInv, LoadedContract
  <2> HIDE DEF old, new
  <2>9. SavesInv'
    <3> SUFFICES ASSUME NEW u \in 1..MaxUpdates
                 PROVE  /\ saves'[u].at # "none" /\ saves'[u].crossed => doubts' # {}
                        /\ saves'[u].at # "none" /\ ~saves'[u].crossed =>
                              /\ \A v \in 1..MaxUpdates : saves'[v].at # "none" => v = u
                              /\ saves'[u].at = "writing" => saves'[u].base = kept' /\ saves'[u].written = live'
                              /\ saves'[u].at = "stored" => LoadedContract' = live'
      BY <2>7 DEF SavesInv
    <3>1. CASE u = w
      BY <1>1, <2>1, <2>6, <2>8, <3>1 DEF SavesInv
    <3>2. CASE u # w
      BY <1>1, <2>1, <2>6, <3>2 DEF SavesInv
    <3> QED
      BY <3>1, <3>2
  <2>10. w \in UnderWay'
    BY <2>6 DEF UnderWay
  <2> QED
    BY <1>1, <2>1, <2>4, <2>5, <2>9, <2>10 DEF PromiseHolds
<1>4. CASE OwnerTold(w)
  <2>1. /\ saves[w].at = "stored" /\ told' = live /\ kept' = kept
        /\ doubts' = IF saves[w].crossed THEN doubts ELSE {}
        /\ saves' = [saves EXCEPT ![w] = NoSave]
    BY <1>4 DEF OwnerTold
  <2>2. saves' \in [1..MaxUpdates -> Saves]
    BY <2>1, FreshIsTyped
  <2>3. saves'[w].at = "none" /\ saves'[w].base = NoContract
    BY <2>1 DEF NoSave
  <2>4. \A u \in 1..MaxUpdates : u # w => saves'[u] = saves[u]
    BY <2>1
  <2>5. SavesInv'
    BY <1>1, <2>1, <2>3, <2>4 DEF SavesInv, LoadedContract
  <2>6. PromiseHolds'
    BY <1>1, <2>1 DEF SavesInv, PromiseHolds, LoadedContract
  <2> QED
    BY <1>1, <2>1, <2>2, <2>5, <2>6
<1>5. CASE SaveLost(w)
  <2>1. /\ told' = told /\ kept' = kept /\ doubts' = doubts \cup {"unanswered"}
        /\ saves' = [saves EXCEPT ![w] = NoSave]
    BY <1>5 DEF SaveLost
  <2>2. saves' \in [1..MaxUpdates -> Saves]
    BY <2>1, FreshIsTyped
  <2>3. saves'[w].at = "none" /\ saves'[w].base = NoContract
    BY <2>1 DEF NoSave
  <2>4. \A u \in 1..MaxUpdates : u # w => saves'[u] = saves[u]
    BY <2>1
  <2>5. SavesInv'
    BY <1>1, <2>1, <2>3, <2>4 DEF SavesInv, LoadedContract
  <2> QED
    BY <1>1, <2>1, <2>2, <2>5 DEF PromiseHolds
<1> QED
  BY <1>2, <1>3, <1>4, <1>5

(* Only a change of the contract, its storing and a restart touch anything *)
(* but the request; what an owner was told survives each of them, but for  *)
(* the doubts that are named.                                              *)
LEMMA ContractStep == ContractInv /\ [DelegationNext]_delegationVars => ContractInv'
<1> SUFFICES ASSUME ContractInv, [DelegationNext]_delegationVars PROVE ContractInv'
  OBVIOUS
<1>1. CASE UNCHANGED contractVars
  BY <1>1 DEF contractVars, ContractInv, ContractTypes, SavesInv, PromiseHolds, LoadedContract, UnderWay
<1>2. CASE AssistantRestarts
  <2>1. /\ live' = LoadedContract /\ saves' = [u \in 1..MaxUpdates |-> NoSave]
        /\ doubts' = (IF UnderWay = {} THEN doubts ELSE doubts \cup {"unanswered"})
        /\ UNCHANGED <<kept, told, updates>>
    BY <1>2 DEF AssistantRestarts
  <2>2. ContractTypes'
    BY <2>1, FreshIsTyped DEF ContractInv, ContractTypes, LoadedContract
  <2>3. SavesInv'
    BY <2>1 DEF SavesInv, NoSave
  <2>4. PromiseHolds'
    BY <2>1 DEF ContractInv, PromiseHolds, LoadedContract
  <2> QED
    BY <2>2, <2>3, <2>4 DEF ContractInv
<1>3. ASSUME NEW kind \in Kinds, NEW who \in Agents, NEW hasRole \in BOOLEAN, NEW known \in BOOLEAN,
             Putting(kind, who, hasRole, known)
      PROVE  UNCHANGED contractVars
  BY <1>3 DEF Putting
<1>4. ASSUME NEW agent \in Agents, ForwardedBy(agent)
      PROVE  UNCHANGED contractVars
  BY <1>4 DEF ForwardedBy
<1>5. Considered \/ HeldForOwner \/ FacetRead \/ Answered \/ Recorded \/ Dismissed => UNCHANGED contractVars
  BY DEF Considered, HeldForOwner, FacetRead, Answered, Recorded, Dismissed
<1>6. UNCHANGED delegationVars => UNCHANGED contractVars
  BY DEF delegationVars, contractVars
<1> QED
  BY <1>1, <1>2, <1>3, <1>4, <1>5, <1>6, ChangeStep, SaveStep DEF DelegationNext

(* What the state of the request promises, apart from the contract         *)
InquiryInv ==
    /\ inquiry \in Inquiries /\ Answering /\ RevealedWasGranted /\ OutcomesAreHonest /\ ChainTellsAll

LEMMA FreshInquiry == NoInquiry \in Inquiries /\ (inquiry' = NoInquiry => InquiryInv')
<1>1. NoInquiry \in Inquiries
  BY DelegationAssumption DEF NoInquiry, Inquiries, Kinds
<1>2. ASSUME inquiry' = NoInquiry PROVE InquiryInv'
  <2>1. inquiry' \in Inquiries /\ Answering' /\ RevealedWasGranted' /\ OutcomesAreHonest'
    BY <1>1, <1>2 DEF NoInquiry, Answering, RevealedWasGranted, OutcomesAreHonest
  <2>2. Append(inquiry'.chain, inquiry'.sender) = <<Colleague>> /\ inquiry'.origin = Colleague
    BY <1>2 DEF NoInquiry
  <2>3. ChainTellsAll'
    BY <2>2 DEF ChainTellsAll
  <2> QED
    BY <2>1, <2>3 DEF InquiryInv
<1> QED
  BY <1>1, <1>2

(* A request that keeps its chain keeps what the chain tells               *)
LEMMA SameChain ==
  ASSUME ChainTellsAll, inquiry'.chain = inquiry.chain, inquiry'.sender = inquiry.sender,
         inquiry'.origin = inquiry.origin
  PROVE  ChainTellsAll'
BY DEF ChainTellsAll

LEMMA PuttingStep ==
  ASSUME InquiryInv, NEW kind \in Kinds, NEW who \in Agents, NEW hasRole \in BOOLEAN,
         NEW known \in BOOLEAN, Putting(kind, who, hasRole, known)
  PROVE  InquiryInv'
<1>1. /\ inquiry' \in Inquiries /\ inquiry'.at = "made" /\ inquiry'.shared = {}
      /\ inquiry'.outcome = "none" /\ ~inquiry'.pending
      /\ inquiry'.chain = <<>> /\ inquiry'.sender = who /\ inquiry'.origin = who
  BY FreshInquiry DEF Putting, NoInquiry, Inquiries
<1>2. Answering' /\ RevealedWasGranted' /\ OutcomesAreHonest'
  BY <1>1 DEF Answering, RevealedWasGranted, OutcomesAreHonest
<1>3. Append(inquiry'.chain, inquiry'.sender) = <<who>>
  BY <1>1
<1>4. ChainTellsAll'
  BY <1>1, <1>3 DEF ChainTellsAll
<1> QED
  BY <1>1, <1>2, <1>4 DEF InquiryInv

LEMMA ForwardedStep ==
  ASSUME InquiryInv, NEW agent \in Agents, ForwardedBy(agent)
  PROVE  InquiryInv'
<1> DEFINE path == Append(inquiry.chain, inquiry.sender)
           further == Append(inquiry'.chain, inquiry'.sender)
<1> USE DEF InquiryInv
<1>1. inquiry.chain \in Seq(Agents) /\ inquiry.sender \in Agents /\ inquiry.origin \in Agents
  BY DEF Inquiries
<1>2. inquiry' = [inquiry EXCEPT !.chain = Append(inquiry.chain, inquiry.sender), !.sender = agent]
  BY DEF ForwardedBy
<1>3. inquiry'.chain = path /\ inquiry'.sender = agent /\ inquiry'.origin = inquiry.origin
  BY <1>2 DEF Inquiries
<1>4. /\ inquiry'.at = "made" /\ inquiry'.shared = {} /\ inquiry'.outcome = "none"
      /\ ~inquiry'.pending
  BY <1>2 DEF Inquiries, ForwardedBy, Answering
<1>5. inquiry' \in Inquiries
  <2>1. path \in Seq(Agents) /\ inquiry' = [inquiry EXCEPT !.chain = path, !.sender = agent]
    BY <1>1, <1>2
  <2> HIDE DEF path
  <2> QED
    BY <2>1 DEF Inquiries
<1>6. Answering' /\ RevealedWasGranted' /\ OutcomesAreHonest'
  BY <1>4 DEF Answering, RevealedWasGranted, OutcomesAreHonest
<1>7. path \in Seq(Agents) /\ Len(path) = Len(inquiry.chain) + 1
  BY <1>1
<1>8. /\ Len(further) = Len(path) + 1
      /\ \A i \in 1..Len(path) : further[i] = path[i]
      /\ further[Len(path) + 1] = agent
  BY <1>3, <1>7
<1>9. \A i \in 1..Len(path) : path[i] # agent
  BY <1>1 DEF ForwardedBy
<1>10. \A i, j \in 1..Len(path) : path[i] = path[j] => i = j
  BY DEF ChainTellsAll
<1>11. \A i, j \in 1..Len(further) : further[i] = further[j] => i = j
  <2> HIDE DEF path, further
  <2>1. Len(path) \in Nat
    BY <1>7
  <2>2. \A i \in 1..Len(further) : i \in 1..Len(path) \/ i = Len(path) + 1
    BY <1>8, <2>1
  <2> QED
    BY <1>8, <1>9, <1>10, <2>2
<1>12. further[1] = inquiry'.origin
  <2>1. path[1] = inquiry.origin
    BY DEF ChainTellsAll
  <2>2. 1 \in 1..Len(path)
    BY <1>1, <1>7
  <2> QED
    BY <1>3, <1>8, <2>1, <2>2
<1>13. ChainTellsAll'
  BY <1>11, <1>12 DEF ChainTellsAll
<1> QED
  BY <1>5, <1>6, <1>13

LEMMA ConsideredStep == InquiryInv /\ Considered => InquiryInv'
<1> SUFFICES ASSUME InquiryInv, Considered PROVE InquiryInv'
  OBVIOUS
<1> DEFINE g == Granted(live, inquiry)
<1>1. /\ inquiry \in Inquiries /\ inquiry.at = "made" /\ live' = live
      /\ inquiry.shared = {} /\ inquiry.outcome = "none" /\ ~inquiry.pending
  BY DEF InquiryInv, Answering, Considered, contractVars
<1>2. g \in SUBSET Facets /\ g \subseteq RequiredFacets[inquiry.kind]
  BY <1>1 DEF Granted, RequiredFacets, Facets, Inquiries, Kinds
<1>3. CASE \/ inquiry' = [inquiry EXCEPT !.at = "over", !.outcome = "refused"] /\ ~inquiry.known
         \/ inquiry' = [inquiry EXCEPT !.at = "recording", !.outcome = "refused"]
  <2>1. inquiry' \in Inquiries
    BY <1>1, <1>3 DEF Inquiries
  <2>2. Answering' /\ RevealedWasGranted' /\ OutcomesAreHonest'
    BY <1>1, <1>3 DEF Answering, RevealedWasGranted, OutcomesAreHonest, Inquiries
  <2>3. ChainTellsAll'
    BY <1>1, <1>3, SameChain DEF InquiryInv, Inquiries
  <2> QED
    BY <2>1, <2>2, <2>3 DEF InquiryInv
<1>4. CASE inquiry' = [inquiry EXCEPT !.at = "holding", !.granted = g] /\ inquiry.known
  <2>1. inquiry' \in Inquiries
    BY <1>1, <1>2, <1>4 DEF Inquiries
  <2>2. Answering' /\ RevealedWasGranted' /\ OutcomesAreHonest'
    BY <1>1, <1>4 DEF Answering, RevealedWasGranted, OutcomesAreHonest, Inquiries
  <2>3. ChainTellsAll'
    BY <1>1, <1>4, SameChain DEF InquiryInv, Inquiries
  <2> QED
    BY <2>1, <2>2, <2>3 DEF InquiryInv
<1>5. CASE /\ inquiry.kind \notin Commitments /\ inquiry.known
           /\ inquiry' = [inquiry EXCEPT !.at = "answering", !.granted = g, !.left = Readable(g)]
  <2> HIDE DEF g
  <2>1. Readable(g) \in Seq(Facets) /\ \A i \in 1..Len(Readable(g)) : Readable(g)[i] \in g
    BY <1>2, ReadableIsGranted
  <2>2. inquiry' \in Inquiries
    BY <1>1, <1>2, <1>5, <2>1 DEF Inquiries
  <2>3. /\ inquiry'.at = "answering" /\ inquiry'.kind = inquiry.kind /\ inquiry'.granted = g
        /\ inquiry'.known
        /\ inquiry'.left = Readable(g) /\ inquiry'.shared = {} /\ inquiry'.outcome = "none"
        /\ ~inquiry'.pending /\ inquiry'.sender = inquiry.sender
        /\ inquiry'.hasRole = inquiry.hasRole /\ inquiry'.chain = inquiry.chain
        /\ inquiry'.origin = inquiry.origin
    BY <1>1, <1>5 DEF Inquiries
  <2>4. g = Granted(live', inquiry')
    BY <1>1, <2>3 DEF g, Granted
  <2>5. Answering'
    BY <1>2, <1>5, <2>1, <2>3, <2>4 DEF Answering
  <2>6. RevealedWasGranted' /\ OutcomesAreHonest'
    BY <2>3 DEF RevealedWasGranted, OutcomesAreHonest
  <2>7. ChainTellsAll'
    BY <2>3, SameChain DEF InquiryInv
  <2> QED
    BY <2>2, <2>5, <2>6, <2>7 DEF InquiryInv
<1> QED
  BY <1>3, <1>4, <1>5 DEF Considered

LEMMA HeldStep == InquiryInv /\ HeldForOwner => InquiryInv'
<1> SUFFICES ASSUME InquiryInv, HeldForOwner PROVE InquiryInv'
  OBVIOUS
<1>1. /\ inquiry \in Inquiries /\ inquiry.shared = {}
      /\ inquiry' = [inquiry EXCEPT !.at = "recording", !.outcome = "held", !.pending = TRUE]
  BY DEF InquiryInv, Answering, HeldForOwner
<1>2. inquiry' \in Inquiries
  BY <1>1 DEF Inquiries
<1>3. Answering' /\ RevealedWasGranted' /\ OutcomesAreHonest'
  BY <1>1 DEF Answering, RevealedWasGranted, OutcomesAreHonest, Inquiries
<1>4. ChainTellsAll'
  BY <1>1, SameChain DEF InquiryInv, Inquiries
<1> QED
  BY <1>2, <1>3, <1>4 DEF InquiryInv

LEMMA FacetReadStep == InquiryInv /\ FacetRead => InquiryInv'
<1> SUFFICES ASSUME InquiryInv, FacetRead PROVE InquiryInv'
  OBVIOUS
<1>1. /\ inquiry \in Inquiries /\ inquiry.at = "answering" /\ inquiry.left # <<>> /\ live' = live
  BY DEF InquiryInv, FacetRead, contractVars
<1>2. inquiry.left \in Seq(Facets) /\ Len(inquiry.left) > 0
  BY <1>1 DEF Inquiries
<1>3. /\ Head(inquiry.left) \in Facets /\ Head(inquiry.left) \in inquiry.granted
      /\ Tail(inquiry.left) \in Seq(Facets)
      /\ \A i \in 1..Len(Tail(inquiry.left)) : Tail(inquiry.left)[i] \in inquiry.granted
  <2>1. \A i \in 1..Len(inquiry.left) : inquiry.left[i] \in inquiry.granted
    BY <1>1 DEF InquiryInv, Answering
  <2>2. \A i \in 1..Len(Tail(inquiry.left)) :
          i + 1 \in 1..Len(inquiry.left) /\ Tail(inquiry.left)[i] = inquiry.left[i + 1]
    BY <1>2
  <2> QED
    BY <1>2, <2>1, <2>2
<1>4. PICK seen \in SUBSET {Head(inquiry.left)} :
        inquiry' = [inquiry EXCEPT !.left = Tail(inquiry.left), !.shared = inquiry.shared \cup seen]
  <2>1. PICK ok \in BOOLEAN :
          inquiry' = [inquiry EXCEPT !.left = Tail(inquiry.left),
                        !.shared = IF ok \/ Head(inquiry.left) # "task_status"
                                   THEN inquiry.shared \cup {Head(inquiry.left)} ELSE inquiry.shared]
    BY DEF FacetRead
  <2>2. inquiry.shared \cup {} = inquiry.shared
    OBVIOUS
  <2> QED
    BY <2>1, <2>2
<1>5. inquiry' \in Inquiries
  BY <1>1, <1>3, <1>4 DEF Inquiries
<1>6. /\ inquiry'.at = "answering" /\ inquiry'.kind = inquiry.kind
      /\ inquiry'.granted = inquiry.granted /\ inquiry'.left = Tail(inquiry.left)
      /\ inquiry'.shared = inquiry.shared \cup seen /\ inquiry'.outcome = inquiry.outcome
      /\ inquiry'.pending = inquiry.pending /\ inquiry'.sender = inquiry.sender
      /\ inquiry'.hasRole = inquiry.hasRole /\ inquiry'.chain = inquiry.chain
      /\ inquiry'.origin = inquiry.origin /\ inquiry'.moved = inquiry.moved
      /\ inquiry'.known = inquiry.known
  BY <1>1, <1>4 DEF Inquiries
<1>7. Granted(live', inquiry') = Granted(live, inquiry)
  BY <1>1, <1>6 DEF Granted
<1>8. /\ inquiry.kind \notin Commitments /\ inquiry.known /\ inquiry.granted \subseteq RequiredFacets[inquiry.kind]
      /\ inquiry.shared \subseteq inquiry.granted
      /\ inquiry.moved \/ inquiry.granted = Granted(live, inquiry)
      /\ inquiry.outcome = "none" /\ ~inquiry.pending
  BY <1>1 DEF InquiryInv, Answering
<1>9. Answering'
  BY <1>3, <1>6, <1>7, <1>8 DEF Answering
<1>10. RevealedWasGranted' /\ OutcomesAreHonest'
  BY <1>3, <1>6, <1>7, <1>8 DEF RevealedWasGranted, OutcomesAreHonest
<1>11. ChainTellsAll'
  BY <1>6, SameChain DEF InquiryInv
<1> QED
  BY <1>5, <1>9, <1>10, <1>11 DEF InquiryInv

LEMMA AnsweredStep == InquiryInv /\ Answered => InquiryInv'
<1> SUFFICES ASSUME InquiryInv, Answered PROVE InquiryInv'
  OBVIOUS
<1>1. /\ inquiry \in Inquiries /\ inquiry.at = "answering"
      /\ inquiry.kind \notin Commitments /\ inquiry.granted \subseteq RequiredFacets[inquiry.kind]
      /\ ~inquiry.pending /\ inquiry.known
      /\ inquiry.shared \subseteq inquiry.granted
      /\ inquiry.moved \/ inquiry.granted = Granted(live, inquiry)
      /\ live' = live
  BY DEF InquiryInv, Answering, Answered, contractVars
<1>2. PICK outcome \in {"partial", "answered"} :
        /\ inquiry' = [inquiry EXCEPT !.at = "recording", !.outcome = outcome]
        /\ outcome = "answered" => inquiry.granted = RequiredFacets[inquiry.kind]
  BY <1>1 DEF Answered
<1>3. inquiry' \in Inquiries
  BY <1>1, <1>2 DEF Inquiries
<1>4. /\ inquiry'.at = "recording" /\ inquiry'.outcome = outcome /\ inquiry'.kind = inquiry.kind
      /\ inquiry'.granted = inquiry.granted /\ inquiry'.shared = inquiry.shared
      /\ inquiry'.pending = inquiry.pending /\ inquiry'.known = inquiry.known
      /\ inquiry'.moved = inquiry.moved /\ Granted(live', inquiry') = Granted(live, inquiry)
  BY <1>1, <1>2 DEF Inquiries, Granted
<1>6. Answering' /\ RevealedWasGranted' /\ OutcomesAreHonest'
  BY <1>1, <1>2, <1>4 DEF Answering, RevealedWasGranted, OutcomesAreHonest
<1>5. ChainTellsAll'
  BY <1>1, <1>2, SameChain DEF InquiryInv, Inquiries
<1> QED
  BY <1>3, <1>5, <1>6 DEF InquiryInv

LEMMA RecordedStep == InquiryInv /\ Recorded => InquiryInv'
<1> SUFFICES ASSUME InquiryInv, Recorded PROVE InquiryInv'
  OBVIOUS
<1>1. inquiry \in Inquiries /\ inquiry.at = "recording" /\ live' = live
      /\ inquiry' = [inquiry EXCEPT !.at = "over", !.recorded = TRUE]
  BY DEF InquiryInv, Recorded, contractVars
<1>2. inquiry' \in Inquiries
  BY <1>1 DEF Inquiries
<1>3. /\ inquiry'.at = "over" /\ inquiry'.recorded /\ inquiry'.kind = inquiry.kind
      /\ inquiry'.granted = inquiry.granted /\ inquiry'.shared = inquiry.shared
      /\ inquiry'.outcome = inquiry.outcome /\ inquiry'.pending = inquiry.pending
      /\ inquiry'.sender = inquiry.sender /\ inquiry'.hasRole = inquiry.hasRole
      /\ inquiry'.chain = inquiry.chain /\ inquiry'.origin = inquiry.origin
      /\ inquiry'.moved = inquiry.moved /\ inquiry'.known = inquiry.known
  BY <1>1 DEF Inquiries
<1>4. Answering' /\ RevealedWasGranted' /\ OutcomesAreHonest'
  BY <1>1, <1>3 DEF InquiryInv, Answering, RevealedWasGranted, OutcomesAreHonest, Granted
<1>5. ChainTellsAll'
  BY <1>3, SameChain DEF InquiryInv
<1> QED
  BY <1>2, <1>4, <1>5 DEF InquiryInv

(* A change of the contract marks the request it finds considered          *)
LEMMA SetDisclosureStep ==
  ASSUME InquiryInv, NEW default \in Parts, NEW role \in Parts, NEW user \in Parts,
         SetDisclosure(default, role, user)
  PROVE  InquiryInv'
<1>1. /\ inquiry \in Inquiries
      /\ inquiry' = [inquiry EXCEPT !.moved = inquiry.moved
                                             \/ (live' # live /\ inquiry.at \notin {"none", "made"})]
  BY DEF InquiryInv, SetDisclosure
<1>2. inquiry' \in Inquiries
  BY <1>1 DEF Inquiries
<1>3. /\ inquiry'.at = inquiry.at /\ inquiry'.kind = inquiry.kind
      /\ inquiry'.granted = inquiry.granted /\ inquiry'.left = inquiry.left
      /\ inquiry'.shared = inquiry.shared /\ inquiry'.outcome = inquiry.outcome
      /\ inquiry'.pending = inquiry.pending /\ inquiry'.sender = inquiry.sender
      /\ inquiry'.recorded = inquiry.recorded /\ inquiry'.chain = inquiry.chain
      /\ inquiry'.origin = inquiry.origin /\ inquiry'.known = inquiry.known
      /\ inquiry'.hasRole = inquiry.hasRole
      /\ inquiry'.moved = (inquiry.moved \/ (live' # live /\ inquiry.at \notin {"none", "made"}))
  BY <1>1 DEF Inquiries
<1>4. Granted(live, inquiry') = Granted(live, inquiry)
  BY <1>3 DEF Granted
<1>5. live' = live => Granted(live', inquiry') = Granted(live, inquiry)
  BY <1>4
<1>6. Answering'
  BY <1>3, <1>5 DEF InquiryInv, Answering
<1>7. RevealedWasGranted'
  <2>1. inquiry.at \in {"none", "made", "holding"} => inquiry'.shared = {}
    BY <1>3 DEF InquiryInv, Answering
  <2> QED
    BY <1>1, <1>3, <1>5, <2>1 DEF InquiryInv, Inquiries, RevealedWasGranted
<1>8. OutcomesAreHonest' /\ ChainTellsAll'
  BY <1>3, SameChain DEF InquiryInv, OutcomesAreHonest
<1> QED
  BY <1>2, <1>6, <1>7, <1>8 DEF InquiryInv

LEMMA InquiryStep == InquiryInv /\ [DelegationNext]_delegationVars => InquiryInv'
<1> SUFFICES ASSUME InquiryInv, [DelegationNext]_delegationVars PROVE InquiryInv'
  OBVIOUS
<1>1. CASE UNCHANGED <<inquiry, live>>
  BY <1>1 DEF InquiryInv, Answering, RevealedWasGranted, OutcomesAreHonest, ChainTellsAll, Granted
<1>2. ASSUME NEW u \in 1..MaxUpdates, RowRead(u) \/ RowWritten(u) \/ OwnerTold(u) \/ SaveLost(u)
      PROVE  UNCHANGED <<inquiry, live>>
  BY <1>2 DEF RowRead, RowWritten, OwnerTold, SaveLost
<1>3. Dismissed \/ AssistantRestarts => InquiryInv'
  BY FreshInquiry DEF Dismissed, AssistantRestarts
<1>4. UNCHANGED delegationVars => UNCHANGED <<inquiry, live>>
  BY DEF delegationVars
<1> QED
  BY <1>1, <1>2, <1>3, <1>4, PuttingStep, ForwardedStep, ConsideredStep, HeldStep, FacetReadStep,
     AnsweredStep, RecordedStep, SetDisclosureStep DEF DelegationNext

THEOREM DelegationInductive == DelegationSpec => []DelegationIInv
<1>1. DelegationInit => DelegationIInv
  <2> SUFFICES ASSUME DelegationInit PROVE DelegationIInv
    OBVIOUS
  <2>1. 0 \in 0..MaxUpdates
    BY DelegationAssumption
  <2>2. DelegationTypes
    BY <2>1, FreshInquiry, FreshIsTyped DEF DelegationInit, DelegationTypes
  <2>3. PromiseHolds
    BY DEF DelegationInit, PromiseHolds, LoadedContract
  <2>4. SavesInv
    BY DEF DelegationInit, SavesInv, NoSave
  <2>5. Answering /\ RevealedWasGranted /\ OutcomesAreHonest
    BY DEF DelegationInit, NoInquiry, Answering, RevealedWasGranted, OutcomesAreHonest
  <2>6. Append(inquiry.chain, inquiry.sender) = <<Colleague>> /\ inquiry.origin = Colleague
    BY DEF DelegationInit, NoInquiry
  <2>7. ChainTellsAll
    BY <2>6 DEF ChainTellsAll
  <2> QED
    BY <2>2, <2>3, <2>4, <2>5, <2>7 DEF DelegationIInv, DisclosureKept
<1>2. DelegationIInv /\ [DelegationNext]_delegationVars => DelegationIInv'
  <2> SUFFICES ASSUME DelegationIInv, [DelegationNext]_delegationVars PROVE DelegationIInv'
    OBVIOUS
  <2>1. ContractInv /\ InquiryInv
    BY DEF DelegationIInv, DisclosureKept, InquiryInv, DelegationTypes, ContractInv, ContractTypes
  <2>2. ContractInv'
    BY <2>1, ContractStep
  <2>3. InquiryInv'
    BY <2>1, InquiryStep
  <2> QED
    BY <2>2, <2>3 DEF DelegationIInv, DisclosureKept, InquiryInv, DelegationTypes, ContractInv, ContractTypes
<1> QED
  BY <1>1, <1>2, PTL DEF DelegationSpec

(* Whoever asks, however many changes of the contract cross one another,   *)
(* whatever the database refuses and wherever the process stops: only what *)
(* the contract granted is revealed, and the contract in force and its row *)
(* are what the owner was last shown, but for the doubts PromiseHolds      *)
(* names, which one change that no other crosses dispels.                  *)
THEOREM DisclosureKeptHolds == DelegationSpec => []DisclosureKept
<1>1. DelegationIInv => DisclosureKept
  BY DEF DelegationIInv
<1> QED
  BY DelegationInductive, <1>1, PTL
=============================================================================
