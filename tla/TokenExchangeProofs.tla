------------------------ MODULE TokenExchangeProofs ------------------------
(***************************************************************************)
(* Proofs about TokenExchange, for every timeout, margin, lifetime and     *)
(* word size that its assumptions allow.                                   *)
(***************************************************************************)
EXTENDS TokenExchange, WellFoundedInduction, TLAPS

-----------------------------------------------------------------------------
(* What the call's strings hold                                              *)

First == {"material", "form", "body"}
Guards == First \cup {"second_form", "salesforce"}

\* The points of the call.
Labels == {"begin", "send", "parse", "second", "send_second", "parse_second", "lifetime", "done",
           "failed"}

\* What is held and what is guarded at every point of the call.
HeldAt ==
    /\ pc = "begin" => held = {"material"} /\ guarded = {"material"}
    /\ pc = "send" => held = {"material", "form"} /\ guarded = {"material", "form"}
    /\ pc = "parse" => held = {"material", "body"} /\ guarded = First
    /\ pc = "second" => held = {"material", "salesforce"} /\ guarded = First
    /\ pc = "send_second" =>
          held = {"material", "salesforce", "second_form"} /\ guarded = Guards
    /\ pc = "parse_second" =>
          held = {"material", "second_body"} /\ guarded = Guards \cup {"second_body"}
    /\ pc = "lifetime" =>
          held = {"material", "parsed"} /\ guarded = Guards \cup {"second_body"}
    /\ pc = "done" => held = {"capability"}
    /\ pc = "failed" => held = {}

\* The one step from which the rest follows: HeldAt is inductive.
LEMMA HeldInit == Init => HeldAt
BY DEF Init, HeldAt

\* Each throw clears by hand what no destructor guards at that point.
LEMMA HeldStep == HeldAt /\ [Next]_vars => HeldAt'
<1> SUFFICES ASSUME HeldAt, [Next]_vars PROVE HeldAt'
  OBVIOUS
<1> USE DEF HeldAt, First, Guards
<1>1. ASSUME NEW valid \in BOOLEAN, Begin(valid) PROVE HeldAt'
  BY <1>1 DEF Begin, Throw
<1>2. CASE SendFails
  BY <1>2 DEF SendFails, Throw
<1>3. CASE Sent
  BY <1>3 DEF Sent
<1>4. CASE Second
  BY <1>4 DEF Second, Throw
<1>5. CASE SendSecondFails
  BY <1>5 DEF SendSecondFails, Throw
<1>6. CASE SentSecond
  BY <1>6 DEF SentSecond
<1>7. CASE Refused
  BY <1>7 DEF Refused, Throw
<1>8. CASE Malformed
  BY <1>8 DEF Malformed, Throw
<1>9. CASE SecondRefused
  BY <1>9 DEF SecondRefused, Throw
<1>10. CASE SecondMalformed
  BY <1>10 DEF SecondMalformed, Throw
<1>11. ASSUME NEW url \in Urls, Parsed(url) PROVE HeldAt'
  BY <1>11 DEF Parsed, Throw
<1>12. ASSUME NEW expires_in, NEW url \in Urls, SecondParsed(expires_in, url) PROVE HeldAt'
  BY <1>12 DEF SecondParsed, Throw
<1>13. ASSUME NEW utc, Lifetime(utc) PROVE HeldAt'
  BY <1>13 DEF Lifetime, Throw
<1>14. CASE Stop
  BY <1>14 DEF Stop
<1>15. CASE UNCHANGED vars
  BY <1>15 DEF vars
<1>16. CASE Ended
  BY <1>16 DEF Ended, vars
<1> QED
  BY <1>1, <1>2, <1>3, <1>4, <1>5, <1>6, <1>7, <1>8, <1>9, <1>10, <1>11, <1>12, <1>13,
     <1>14, <1>15, <1>16 DEF Next

\* Whatever ends Exchange (a refused origin, a failed request, a malformed reply, an
\* interrupt, an overflow, success), its strings hold no secret but the capability.
THEOREM SecretsAreWiped == Spec => []SecretsWiped
<1>1. HeldAt /\ pc \in Labels => SecretsWiped
  BY DEF HeldAt, SecretsWiped, First, Guards, Labels
<1>2. Init => pc \in Labels
  BY DEF Init, Labels
<1>3. pc \in Labels /\ [Next]_vars => (pc \in Labels)'
  BY DEF Labels, Next, vars, Begin, SendFails, Sent, Second, SendSecondFails, SentSecond, Refused,
         Malformed, SecondRefused, SecondMalformed, Parsed, SecondParsed, Lifetime, Stop, Ended,
         Throw
<1> QED
  BY HeldInit, HeldStep, <1>1, <1>2, <1>3, PTL DEF Spec

-----------------------------------------------------------------------------
(* How long the capability lives                                             *)

\* The clock has advanced past the moment the token was issued by no more than the request
\* could take, and what the second reply said leaves something after the margin.
ClockInv ==
    /\ now \in Nat /\ issued \in Nat
    /\ pc \in {"parse_second", "lifetime"} => issued <= now /\ now <= issued + RequestTimeout
    /\ pc = "lifetime" => parsed.ttl \in Nat /\ parsed.ttl > Skew
    /\ CapabilityLifetime

\* The constants are numbers.
LEMMA Numbers ==
    /\ RequestTimeout \in Nat /\ DefaultTtl \in Nat /\ MaxTtl \in Nat
    /\ Ms \in Nat \ {0} /\ Us \in Nat \ {0} /\ Half \in Nat \ {0} /\ Word \in Nat \ {0}
    /\ Skew \in Nat /\ Pause \in Nat
  BY ClockAssumption

\* Before the first request nothing has been issued.
LEMMA ClockInit == Init => ClockInv
<1> SUFFICES ASSUME Init PROVE ClockInv
  OBVIOUS
<1>1. now \in Nat /\ issued \in Nat /\ pc = "begin"
  BY ClockAssumption DEF Init
<1> QED
  BY <1>1 DEF ClockInv, CapabilityLifetime

\* Products of numbers are numbers.
LEMMA Product == ASSUME NEW a \in Nat, NEW b \in Nat PROVE a * b \in Nat
  BY SMT

\* The arithmetic of Lifetime: nothing wraps, the margin covers the request, and both
\* lifetimes are the same number of seconds.
LEMMA LifetimeArithmetic ==
    ASSUME NEW utc \in Int, ClockInv, pc = "lifetime", Lifetime(utc)
    PROVE  ClockInv'
<1> DEFINE effective == Effective(parsed.ttl)
<1>1. /\ now \in Nat /\ issued \in Nat /\ parsed.ttl \in Nat /\ parsed.ttl > Skew
      /\ now <= issued + RequestTimeout
  BY DEF ClockInv
<1>2. /\ now' \in Nat /\ now <= now' /\ now' <= now + Pause /\ issued' = issued
  BY <1>1, Numbers DEF Lifetime
<1>3. CASE ~NoOverflow(effective, utc)
  <2>1. pc' = "failed"
    BY <1>3 DEF Lifetime, Throw
  <2> QED
    BY <1>1, <1>2, <2>1 DEF ClockInv, CapabilityLifetime
<1>4. CASE NoOverflow(effective, utc)
  <2>1. /\ pc' = "done" /\ parsed' = parsed
        /\ capability'.expires = (now' + effective * Ms) % Word
        /\ capability'.utc = utc + effective * Us /\ capability'.at = utc
    BY <1>4 DEF Lifetime
  <2>2. effective \in Nat \ {0} /\ effective = parsed.ttl - Skew
    BY <1>1, Numbers DEF Effective
  <2> HIDE DEF effective
  <2>3. now' <= Word - 1 - effective * Ms
    BY <1>4 DEF NoOverflow
  <2>4. effective * Ms \in Nat \ {0} /\ effective * Us \in Nat
    BY <2>2, Numbers, SMT
  <2>5. capability'.expires = now' + effective * Ms
    <3>1. now' + effective * Ms \in 0..(Word - 1)
      BY <2>3, <2>4, <1>2, Numbers
    <3>2. \A n \in 0..(Word - 1) : n % Word = n
      BY Numbers, SMT
    <3> QED
      BY <3>1, <3>2, <2>1
  <2>6. effective * Ms = parsed.ttl * Ms - Skew * Ms
    BY <2>2, <1>1, Numbers, SMT
  <2>7. parsed.ttl * Ms \in Nat /\ Skew * Ms \in Nat
    BY <1>1, Product, Numbers
  <2>8. capability'.expires <= issued + parsed.ttl * Ms + Pause
    BY <2>5, <2>6, <2>7, <2>4, <1>1, <1>2, SkewAssumption, Numbers
  <2>9. (capability'.expires - now') * Us = (capability'.utc - capability'.at) * Ms
    <3>1. capability'.expires - now' = effective * Ms
      BY <2>5, <2>4, <1>2
    <3>2. capability'.utc - capability'.at = effective * Us
      BY <2>1, <2>4
    <3>3. (effective * Ms) * Us = (effective * Us) * Ms
      BY <2>2, Numbers, SMT
    <3> QED
      BY <3>1, <3>2, <3>3
  <2>10. now' < capability'.expires
    BY <2>5, <2>4, <1>2
  <2> QED
    BY <1>1, <1>2, <2>1, <2>8, <2>9, <2>10 DEF ClockInv, CapabilityLifetime
<1> QED
  BY <1>3, <1>4

\* A step that ends the call with a throw, or goes on before the second reply, keeps ClockInv.
LEMMA ClockEarly ==
    ASSUME ClockInv, now' \in Nat, issued' \in Nat,
           pc' \notin {"parse_second", "lifetime", "done"}
    PROVE  ClockInv'
  BY DEF ClockInv, CapabilityLifetime

\* The clock only goes forward, and by no more than the timeout, in a request.
LEMMA ClockElapses ==
    ASSUME ClockInv, Elapse
    PROVE  now' \in Nat /\ now <= now' /\ now' <= now + RequestTimeout
  BY Numbers DEF ClockInv, Elapse

\* ClockInv is inductive: only SentSecond sets the time of issue, only SecondParsed the
\* lifetime that Lifetime then counts from a clock read at most Pause later.
LEMMA ClockStep == ClockInv /\ [Next]_vars => ClockInv'
<1> SUFFICES ASSUME ClockInv, [Next]_vars PROVE ClockInv'
  OBVIOUS
<1> USE DEF ClockInv
<1>1. ASSUME NEW valid \in BOOLEAN, Begin(valid) PROVE ClockInv'
  BY <1>1, ClockEarly DEF Begin, Throw
<1>2. CASE SendFails
  BY <1>2, ClockEarly, ClockElapses DEF SendFails, Throw
<1>3. CASE Sent
  BY <1>3, ClockEarly, ClockElapses DEF Sent
<1>4. CASE Second
  BY <1>4, ClockEarly DEF Second, Throw
<1>5. CASE SendSecondFails
  BY <1>5, ClockEarly, ClockElapses DEF SendSecondFails, Throw
<1>6. CASE SentSecond
  <2>1. pc' = "parse_second" /\ issued' \in now..now'
    BY <1>6 DEF SentSecond
  <2>2. now \in Nat /\ now' \in Nat /\ now' <= now + RequestTimeout
    BY <1>6, ClockElapses DEF SentSecond
  <2>3. issued' \in Nat /\ now <= issued' /\ issued' <= now'
    BY <2>1, <2>2
  <2>4. RequestTimeout \in Nat
    BY Numbers
  <2>5. \A m, n, i \in Nat : m <= i /\ n <= m + RequestTimeout => n <= i + RequestTimeout
    BY <2>4, SMT
  <2>6. now' <= issued' + RequestTimeout
    BY <2>2, <2>3, <2>5, Zenon
  <2> QED
    BY <2>1, <2>2, <2>3, <2>6 DEF CapabilityLifetime
<1>7. CASE Refused
  BY <1>7, ClockEarly DEF Refused, Throw
<1>8. CASE Malformed
  BY <1>8, ClockEarly DEF Malformed, Throw
<1>9. CASE SecondRefused
  BY <1>9, ClockEarly DEF SecondRefused, Throw
<1>10. CASE SecondMalformed
  BY <1>10, ClockEarly DEF SecondMalformed, Throw
<1>11. ASSUME NEW url \in Urls, Parsed(url) PROVE ClockInv'
  BY <1>11, ClockEarly DEF Parsed, Throw
<1>12. ASSUME NEW expires_in, NEW url \in Urls, SecondParsed(expires_in, url)
       PROVE  ClockInv'
  <2>1. pc = "parse_second" /\ now' = now /\ issued' = issued
    BY <1>12 DEF SecondParsed
  <2>2. CASE pc' = "failed"
    BY <2>1, <2>2, ClockEarly
  <2>3. CASE pc' # "failed"
    <3> DEFINE ttl == IF expires_in = Absent THEN DefaultTtl ELSE expires_in
    <3>1. pc' = "lifetime" /\ ttl > Skew /\ parsed'.ttl = ttl
      BY <1>12, <2>3 DEF SecondParsed, Throw
    <3>2. ttl \in Nat
      BY <1>12, Numbers DEF SecondParsed, ExpiryValid
    <3> QED
      BY <2>1, <3>1, <3>2 DEF CapabilityLifetime
  <2> QED
    BY <2>2, <2>3
<1>13. ASSUME NEW utc \in Utcs \cup {BeforeEpoch}, Lifetime(utc) PROVE ClockInv'
  <2>1. utc \in Int
    BY ClockAssumption DEF BeforeEpoch
  <2> QED
    BY <1>13, <2>1, LifetimeArithmetic DEF Lifetime
<1>14. CASE Stop
  BY <1>14 DEF Stop, CapabilityLifetime
<1>15. CASE UNCHANGED vars
  BY <1>15 DEF vars, CapabilityLifetime
<1>16. CASE Ended
  BY <1>16, <1>15 DEF Ended
<1> QED
  BY <1>1, <1>2, <1>3, <1>4, <1>5, <1>6, <1>7, <1>8, <1>9, <1>10, <1>11, <1>12, <1>13,
     <1>14, <1>15, <1>16 DEF Next

\* For every clock reading, announced lifetime and delay: the capability is live when it is
\* made, nothing in its expiries wrapped, both mean the same span, and the margin makes up
\* for the time the second request took.
THEOREM LifetimeIsCovered == Spec => []CapabilityLifetime
<1>1. ClockInv => CapabilityLifetime
  BY DEF ClockInv
<1> QED
  BY ClockInit, ClockStep, <1>1, PTL DEF Spec

-----------------------------------------------------------------------------
(* Which tenants a capability may name                                       *)

\* Every set of numbers has a least one.
LEMMA LeastNumber ==
    ASSUME NEW T, T \subseteq Nat, T # {}
    PROVE  \E x \in T : \A y \in T : x <= y
<1>1. IsWellFoundedOn(OpToRel(<, Nat), Nat)
  BY NatLessThanWellFounded, Zenon
<1>2. PICK x \in T : \A y \in T : ~ (<<y, x>> \in OpToRel(<, Nat))
  BY <1>1, WFMin, Zenon
<1>3. \A y \in T : ~(y < x)
  BY <1>2, Zenon DEF OpToRel
<1> QED
  BY <1>3

\* Every character of a host name but a dot lies in one of its labels.
LEMMA LabelAround ==
    ASSUME NEW name \in Seq(Chars), NEW k \in 1..Len(name), name[k] # "."
    PROVE  \E i \in 1..k, j \in k..Len(name) : IsLabel(name, i, j)
<1> DEFINE Ends == {m \in Nat : m >= k /\ m <= Len(name) /\ (m = Len(name) \/ name[m + 1] = ".")}
           Backs == {d \in Nat : d <= k - 1 /\ (d = k - 1 \/ name[k - d - 1] = ".")}
<1>1. PICK j \in Ends : \A m \in Ends : j <= m
  <2>1. Len(name) \in Ends
    OBVIOUS
  <2> HIDE DEF Ends
  <2>2. Ends \subseteq Nat
    BY DEF Ends
  <2> QED
    BY <2>1, <2>2, LeastNumber
<1>2. PICK d \in Backs : \A e \in Backs : d <= e
  <2>1. k - 1 \in Backs
    OBVIOUS
  <2> HIDE DEF Backs
  <2>2. Backs \subseteq Nat
    BY DEF Backs
  <2> QED
    BY <2>1, <2>2, LeastNumber
<1> DEFINE i == k - d
<1>3. i \in 1..k /\ j \in k..Len(name)
  OBVIOUS
<1>4. \A x \in i..j : name[x] # "."
  <2> SUFFICES ASSUME NEW x \in i..j, name[x] = "." PROVE FALSE
    OBVIOUS
  <2>1. CASE x > k
    <3>1. x - 1 \in Ends
      <4>1. x - 1 \in Nat /\ x - 1 >= k /\ x - 1 <= Len(name) /\ (x - 1) + 1 = x
        BY <2>1
      <4> QED
        BY <4>1
    <3>2. j <= x - 1
      BY <1>1, <3>1, Zenon
    <3> QED
      BY <1>3, <3>2
  <2>2. CASE x < k
    <3>1. k - x - 1 \in Backs
      <4>1. k - x - 1 \in Nat /\ k - x - 1 <= k - 1 /\ k - (k - x - 1) - 1 = x
        BY <2>2
      <4> QED
        BY <4>1
    <3>2. d <= k - x - 1
      BY <1>2, <3>1, Zenon
    <3> QED
      BY <1>3, <3>2
  <2>3. CASE x = k
    BY <2>3
  <2> QED
    BY <2>1, <2>2, <2>3
<1>5. i > 1 => name[i - 1] = "."
  BY <1>2
<1>6. j < Len(name) => name[j + 1] = "."
  BY <1>1
<1>7. j >= i - 1
  BY <1>3
<1>8. IsLabel(name, i, j)
  BY <1>4, <1>5, <1>6, <1>7, Zenon DEF IsLabel
<1> HIDE DEF i
<1> QED
  BY <1>3, <1>8, Zenon

\* Names are sequences of characters.
LEMMA NamesAreStrings == ASSUME NEW name \in Names PROVE name \in Seq(Chars)
<1>1. PICK n \in 0..MaxName : name \in [1..n -> Chars]
  BY DEF Names
<1> QED
  BY <1>1, NameAssumption

\* The provider's check of a tenant is at least as strict as the query client's.
LEMMA ProviderIsStricter ==
    ASSUME NEW url \in Urls, ValidDnsOrigin(url, "tenant")
    PROVE  IsTrustedTenantUrl(url)
<1> DEFINE name == url.name
<1>1. /\ name \in Seq(Chars) /\ url.scheme = "https" /\ url.suffix = "tenant"
      /\ Len(name) > 0 /\ Len(name) \in Nat
      /\ \A i \in 1..(Len(name) + 1), j \in 0..Len(name) :
            IsLabel(name, i, j) => LabelValid(name, i, j)
  BY NamesAreStrings, NameAssumption DEF Urls, ValidDnsOrigin, EndsWith
<1> HIDE DEF name
<1>2. \A k \in 1..Len(name) : name[k] # "?"
  <2> SUFFICES ASSUME NEW k \in 1..Len(name), name[k] = "?" PROVE FALSE
    OBVIOUS
  <2>1. PICK i \in 1..k, j \in k..Len(name) : IsLabel(name, i, j)
    BY <1>1, LabelAround
  <2>2. i \in 1..(Len(name) + 1) /\ j \in 0..Len(name) /\ k \in i..j
    BY <1>1
  <2> QED
    BY <1>1, <2>1, <2>2 DEF LabelValid
<1>3. ASSUME NEW i \in 1..(Len(name) + 1), NEW j \in 0..Len(name), IsLabel(name, i, j)
      PROVE  /\ j >= i /\ j - i + 1 <= MaxLabel
             /\ name[i] = "a" /\ name[j] = "a"
             /\ \A k \in i..j : name[k] \in {"a", "-"}
  <2>1. LabelValid(name, i, j)
    BY <1>1, <1>3
  <2>2. i \in i..j /\ j \in i..j
    BY <2>1 DEF LabelValid
  <2> QED
    BY <2>1, <2>2 DEF LabelValid
<1> QED
  BY <1>1, <1>2, <1>3 DEF IsTrustedTenantUrl, name

\* The tenant is checked when the second reply is parsed, and not touched afterwards.
TenantInv ==
    /\ pc = "lifetime" => IsTrustedTenantUrl(parsed.tenant)
    /\ TenantTrusted

\* TenantInv is inductive.
LEMMA TenantStep == TenantInv /\ [Next]_vars => TenantInv'
<1> SUFFICES ASSUME TenantInv, [Next]_vars PROVE TenantInv'
  OBVIOUS
<1>1. CASE pc' \notin {"lifetime", "done"}
  BY <1>1 DEF TenantInv, TenantTrusted
<1>2. ASSUME NEW expires_in, NEW url \in Urls, SecondParsed(expires_in, url), pc' # "failed"
      PROVE  TenantInv'
  <2> DEFINE tenant == WithScheme(url)
  <2>1. tenant \in Urls
    BY DEF WithScheme, Urls
  <2>2. pc' = "lifetime" /\ parsed'.tenant = tenant /\ ValidDnsOrigin(tenant, "tenant")
    BY <1>2 DEF SecondParsed, Throw
  <2> HIDE DEF tenant
  <2>3. IsTrustedTenantUrl(parsed'.tenant)
    BY <2>1, <2>2, ProviderIsStricter
  <2> QED
    BY <2>2, <2>3 DEF TenantInv, TenantTrusted, IsTrustedTenantUrl
<1>3. ASSUME NEW utc, Lifetime(utc), pc' # "failed" PROVE TenantInv'
  <2>1. pc' = "done" /\ capability'.tenant = parsed.tenant /\ pc = "lifetime"
    BY <1>3 DEF Lifetime, Throw
  <2> QED
    BY <2>1 DEF TenantInv, TenantTrusted, IsTrustedTenantUrl
<1>4. CASE Stop \/ Ended \/ UNCHANGED vars
  BY <1>4 DEF Stop, Ended, vars, TenantInv, TenantTrusted
<1>5. CASE \/ \E valid \in BOOLEAN : Begin(valid)
           \/ SendFails \/ Sent \/ Second \/ SendSecondFails \/ SentSecond
           \/ Refused \/ Malformed \/ SecondRefused \/ SecondMalformed
           \/ \E url \in Urls : Parsed(url)
  BY <1>1, <1>5 DEF Begin, SendFails, Sent, Second, SendSecondFails, SentSecond, Refused,
     Malformed, SecondRefused, SecondMalformed, Parsed, Throw
<1>6. CASE \E expires_in \in 0..(MaxTtl + 1) \cup {Absent}, url \in Urls :
              SecondParsed(expires_in, url)
  BY <1>1, <1>2, <1>6
<1>7. CASE \E utc \in Utcs \cup {BeforeEpoch} : Lifetime(utc)
  BY <1>1, <1>3, <1>7
<1> QED
  BY <1>4, <1>5, <1>6, <1>7 DEF Next

\* A capability names only a tenant that the query client will talk to, for host names of
\* any length: what Exchange's own check accepts, IsTrustedTenantUrl accepts.
THEOREM TenantsAreTrusted == Spec => []TenantTrusted
<1>1. Init => TenantInv
  BY DEF Init, TenantInv, TenantTrusted
<1>2. TenantInv => TenantTrusted
  BY DEF TenantInv
<1> QED
  BY <1>1, <1>2, TenantStep, PTL DEF Spec
=============================================================================
