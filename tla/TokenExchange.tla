--------------------------- MODULE TokenExchange ---------------------------
(***************************************************************************)
(* SalesforceOAuthProvider::Exchange: the authorization code is exchanged  *)
(* for a Salesforce token, that one for a Data 360 token, and the latter   *)
(* becomes a capability with a tenant and a lifetime.  AuthRegistry takes  *)
(* this call as one step that succeeds or fails.                           *)
(*                                                                         *)
(* `held' are the strings of the call that hold a secret, `guarded' those  *)
(* that a destructor (WipeOnExit, AuthCompletionMaterial) wipes when the   *)
(* call ends either way; the others are wiped by hand at every throw.      *)
(* Time passes in the requests and before the clock is read; the units of  *)
(* time and the machine's words are scaled down.                           *)
(***************************************************************************)
EXTENDS Integers, Sequences

CONSTANTS
    RequestTimeout,  \* options.request_timeout_ms
    Skew,            \* options.expiry_skew_seconds
    DefaultTtl,      \* options.default_ttl_seconds
    MaxTtl,          \* MAX_EXPIRY_SECONDS
    Ms, Us,          \* milliseconds and microseconds in a second
    Word, Half,      \* 2^64 and 2^63
    Pause,           \* bound on the delay between the reply and the reading of the clock
    Starts,          \* what the steady clock shows at the beginning, in milliseconds
    Utcs,            \* what the system clock may show after 1970, in microseconds
    MaxName,         \* bound on a host name before its suffix
    MaxHost,         \* 253 without the suffix
    MaxLabel         \* 63

ASSUME ClockAssumption ==
    /\ {RequestTimeout, DefaultTtl, MaxTtl, Ms, Us, Half} \subseteq Nat \ {0}
    /\ Skew \in Nat /\ Pause \in Nat /\ Word = 2 * Half /\ DefaultTtl <= MaxTtl
    /\ \A t \in Starts : t \in Nat /\ t + 2 * RequestTimeout + Pause < Word
    /\ Utcs \subseteq 0..(Half - 1)

\* The default options: a request of at most 30 s, a skew of 30 s.
ASSUME SkewAssumption == RequestTimeout <= Skew * Ms

ASSUME NameAssumption == MaxName \in Nat /\ MaxHost \in Nat /\ MaxLabel \in Nat

VARIABLES
    pc,          \* where Exchange is
    stopped,     \* RuntimeHooks::IsCancelled
    held,        \* strings that hold a secret
    guarded,     \* those of them a destructor wipes
    now,         \* the steady clock, in milliseconds
    issued,      \* when the service issued the Data 360 token
    parsed,      \* Data360Response
    capability   \* Data360Capability

vars == <<pc, stopped, held, guarded, now, issued, parsed, capability>>

Absent == -1   \* no expires_in
BeforeEpoch == -1

-----------------------------------------------------------------------------
(* URLs: a scheme, a name, the suffix it ends with, perhaps a slash.         *)
(* Characters are classes: lower-case letters and digits, dashes, dots, and  *)
(* what no host name may contain.                                            *)

Chars == {"a", "-", ".", "?"}
Names == UNION {[1..n -> Chars] : n \in 0..MaxName}
Urls == [scheme : {"https", "other", "none"}, name : Names,
         suffix : {"tenant", "salesforce", "other"}, slash : BOOLEAN]

\* name[i..j] is one of the labels between dots; an empty one has j = i - 1.
IsLabel(name, i, j) ==
    /\ j >= i - 1
    /\ \A k \in i..j : name[k] # "."
    /\ i > 1 => name[i - 1] = "."
    /\ j < Len(name) => name[j + 1] = "."

LabelLoose(name, i, j) ==
    /\ j >= i /\ j - i + 1 <= MaxLabel
    /\ name[i] # "-"
    /\ \A k \in i..j : name[k] \in {"a", "-"}

\* A label of the provider's check ...
LabelValid(name, i, j) ==
    /\ j >= i /\ j - i + 1 <= MaxLabel
    /\ name[i] # "-" /\ name[j] # "-"
    /\ \A k \in i..j : name[k] \in {"a", "-"}

EndsWith(url, suffix) ==
    url.suffix = suffix \/ (suffix = "salesforce" /\ url.suffix = "tenant")

ValidDnsOrigin(url, suffix) ==
    /\ url.scheme = "https" /\ ~url.slash
    /\ EndsWith(url, suffix) /\ Len(url.name) \in 1..MaxHost
    /\ \A i \in 1..(Len(url.name) + 1), j \in 0..Len(url.name) :
          IsLabel(url.name, i, j) => LabelValid(url.name, i, j)

\* ... and the query client's own check, which forgives one slash and any length.
IsTrustedTenantUrl(url) ==
    /\ url.scheme = "https" /\ url.suffix = "tenant" /\ Len(url.name) > 0
    /\ \A k \in 1..Len(url.name) : url.name[k] # "?"
    /\ \A i \in 1..(Len(url.name) + 1), j \in 0..Len(url.name) :
          IsLabel(url.name, i, j) =>
             /\ j >= i /\ j - i + 1 <= MaxLabel
             /\ url.name[i] = "a" /\ url.name[j] = "a"
             /\ \A k \in i..j : url.name[k] \in {"a", "-"}

\* A tenant without "https://" is given it; another scheme then makes a host with a colon.
WithScheme(url) == IF url.scheme = "none" THEN [url EXCEPT !.scheme = "https"] ELSE url

-----------------------------------------------------------------------------
(* Ways to end                                                               *)

NoResponse == [ttl |-> 0, announced |-> FALSE, tenant |-> "none"]
NoCapability == [expires |-> 0, utc |-> 0, at |-> 0, tenant |-> "none"]

\* A throw: what was cleared by hand, and then what the destructors wipe.
Throw(cleared) ==
    /\ pc' = "failed"
    /\ held' = (held \ cleared) \ guarded
    /\ guarded' = {}
    /\ UNCHANGED <<parsed, capability>>

-----------------------------------------------------------------------------
(* Exchange                                                                  *)

\* ValidateSalesforceLoginOrigin and the client id, the interrupt, the first form.
Begin(valid) ==
    /\ pc = "begin"
    /\ IF valid /\ ~stopped
       THEN /\ pc' = "send" /\ held' = held \cup {"form"} /\ guarded' = guarded \cup {"form"}
            /\ UNCHANGED <<parsed, capability>>
       ELSE Throw({})
    /\ UNCHANGED <<stopped, now, issued>>

Elapse == now' \in now..(now + RequestTimeout)

SendFails ==
    /\ pc = "send" /\ Elapse
    /\ Throw({})
    /\ UNCHANGED <<stopped, issued>>

Sent ==
    /\ pc = "send" /\ Elapse
    /\ pc' = "parse"
    /\ held' = (held \cup {"body"}) \ {"form"} /\ guarded' = guarded \cup {"body"}
    /\ UNCHANGED <<stopped, issued, parsed, capability>>

\* CheckStatus throws: the reply is wiped by its destructor ...
Refused ==
    /\ pc = "parse"
    /\ Throw({})
    /\ UNCHANGED <<stopped, now, issued>>

\* ... or ParseOAuthTokenResponse does, which wipes its own copy of the token.
Malformed ==
    /\ pc = "parse"
    /\ Throw({"body"})
    /\ UNCHANGED <<stopped, now, issued>>

ParsedForgetsToken(url) ==
    /\ pc = "parse"
    /\ IF ValidDnsOrigin(url, "salesforce")
       THEN /\ pc' = "second" /\ held' = (held \cup {"salesforce"}) \ {"body"}
            /\ UNCHANGED <<guarded, parsed, capability>>
       ELSE /\ pc' = "failed" /\ held' = ((held \cup {"salesforce"}) \ {"body"}) \ guarded
            /\ guarded' = {}
            /\ UNCHANGED <<parsed, capability>>
    /\ UNCHANGED <<stopped, now, issued>>

\* The Salesforce token is in a string that no destructor wipes yet; the origin of the
\* second request comes from the reply.
Parsed(url) ==
    /\ pc = "parse"
    /\ IF ValidDnsOrigin(url, "salesforce")
       THEN /\ pc' = "second" /\ held' = (held \cup {"salesforce"}) \ {"body"}
            /\ UNCHANGED <<guarded, parsed, capability>>
       ELSE Throw({"body", "salesforce"})
    /\ UNCHANGED <<stopped, now, issued>>

\* The interrupt, and the second form.
Second ==
    /\ pc = "second"
    /\ IF stopped THEN Throw({"salesforce"})
       ELSE /\ pc' = "send_second" /\ held' = held \cup {"second_form"}
            /\ guarded' = guarded \cup {"second_form", "salesforce"}
            /\ UNCHANGED <<parsed, capability>>
    /\ UNCHANGED <<stopped, now, issued>>

SendSecondFails ==
    /\ pc = "send_second" /\ Elapse
    /\ Throw({"second_form", "salesforce"})
    /\ UNCHANGED <<stopped, issued>>

\* The service issues its token at some moment of the request.
SentSecond ==
    /\ pc = "send_second" /\ Elapse
    /\ issued' \in now..now'
    /\ pc' = "parse_second"
    /\ held' = (held \cup {"second_body"}) \ {"second_form", "salesforce"}
    /\ guarded' = guarded \cup {"second_body"}
    /\ UNCHANGED <<stopped, parsed, capability>>

ExpiryValid(expires_in) == expires_in = Absent \/ expires_in \in 1..MaxTtl

\* CheckStatus throws, or the interrupt ends the call ...
SecondRefused ==
    /\ pc = "parse_second"
    /\ Throw({})
    /\ UNCHANGED <<stopped, now, issued>>

\* ... or ParseData360Response throws ...
SecondMalformed ==
    /\ pc = "parse_second" /\ ~stopped
    /\ Throw({"second_body"})
    /\ UNCHANGED <<stopped, now, issued>>

\* ... or the tenant and the skew decide.
SecondParsed(expires_in, url) ==
    /\ pc = "parse_second" /\ ~stopped
    /\ ExpiryValid(expires_in)
    /\ LET tenant == WithScheme(url)
           ttl == IF expires_in = Absent THEN DefaultTtl ELSE expires_in
       IN  IF ValidDnsOrigin(tenant, "tenant") /\ ttl > Skew
           THEN /\ pc' = "lifetime"
                /\ held' = (held \cup {"parsed"}) \ {"second_body"}
                /\ parsed' = [ttl |-> ttl, announced |-> expires_in # Absent, tenant |-> tenant]
                /\ UNCHANGED <<guarded, capability>>
           ELSE Throw({"second_body", "parsed"})
    /\ UNCHANGED <<stopped, now, issued>>

EffectiveWhole(ttl) == ttl
Effective(ttl) == ttl - Skew

\* The additions of Lifetime stay within their words.
NoOverflow(effective, utc) ==
    /\ effective <= (Word - 1) \div Ms /\ now' <= Word - 1 - effective * Ms
    /\ utc >= 0 /\ effective <= (Half - 1 - utc) \div Us

\* NowMs and the system clock are read, and the capability is made.
Lifetime(utc) ==
    /\ pc = "lifetime"
    /\ now' \in now..(now + Pause)
    /\ LET effective == Effective(parsed.ttl) IN
       IF NoOverflow(effective, utc)
       THEN /\ pc' = "done"
            /\ capability' = [expires |-> (now' + effective * Ms) % Word,
                              utc |-> utc + effective * Us, at |-> utc,
                              tenant |-> parsed.tenant]
            /\ held' = ((held \ {"parsed"}) \cup {"capability"}) \ guarded
            /\ guarded' = {}
            /\ UNCHANGED parsed
       ELSE Throw({"parsed"})
    /\ UNCHANGED <<stopped, issued>>

\* The user interrupts the statement.
Stop ==
    /\ ~stopped /\ pc \notin {"done", "failed"}
    /\ stopped' = TRUE
    /\ UNCHANGED <<pc, held, guarded, now, issued, parsed, capability>>

Ended == pc \in {"done", "failed"} /\ UNCHANGED vars

-----------------------------------------------------------------------------
Init ==
    /\ pc = "begin" /\ stopped \in BOOLEAN
    /\ held = {"material"} /\ guarded = {"material"}
    /\ now \in Starts /\ issued = 0
    /\ parsed = NoResponse /\ capability = NoCapability

Next ==
    \/ \E valid \in BOOLEAN : Begin(valid)
    \/ SendFails \/ Sent \/ Second \/ SendSecondFails \/ SentSecond
    \/ Refused \/ Malformed \/ SecondRefused \/ SecondMalformed
    \/ pc = "parse" /\ \E url \in Urls : Parsed(url)
    \/ /\ pc = "parse_second" /\ ~stopped
       /\ \E expires_in \in 0..(MaxTtl + 1) \cup {Absent}, url \in Urls :
             SecondParsed(expires_in, url)
    \/ \E utc \in Utcs \cup {BeforeEpoch} : Lifetime(utc)
    \/ Stop \/ Ended

Spec == Init /\ [][Next]_vars

-----------------------------------------------------------------------------
(* Properties                                                                *)

\* Whichever check, request or interrupt ends the call, no string of it still holds a
\* secret: only the capability, if there is one.  The code and the verifier stay in
\* `material' until then, and a destructor has them from the beginning.  During the second
\* request the first form, in which they were sent, and the first reply are gone already,
\* and after it the Salesforce token.
SecretsWiped ==
    /\ pc = "failed" => held = {}
    /\ pc = "done" => held = {"capability"}
    /\ "material" \in held => "material" \in guarded
    /\ pc \in {"send_second", "parse_second", "lifetime"} => held \cap {"form", "body"} = {}
    /\ pc \in {"parse_second", "lifetime"} => "salesforce" \notin held

\* A capability is live when it is made; when the service announced a lifetime it ends no
\* later than the token the service issued, but for what the thread was held up after the
\* reply, because the skew covers the request; and both of its expiries mean the same span.
CapabilityLifetime ==
    pc = "done" =>
        /\ now < capability.expires
        /\ parsed.announced => capability.expires <= issued + parsed.ttl * Ms + Pause
        /\ (capability.expires - now) * Us = (capability.utc - capability.at) * Ms

\* Every tenant the provider lets into a capability is one the query client will talk to,
\* although the two check the host name with different code.
TenantTrusted == pc = "done" => IsTrustedTenantUrl(capability.tenant)
=============================================================================
