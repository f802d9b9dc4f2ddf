----------------------- MODULE CredentialStoreProofs -----------------------
(***************************************************************************)
(* Theorems about CredentialStore, for any number of completions, queries, *)
(* names and credentials, and any assignment of names to mutexes.          *)
(***************************************************************************)
EXTENDS CredentialStore, TLAPS

-----------------------------------------------------------------------------
(* The inductive invariant                                                   *)

\* A completion that is not idle has a name and a credential it has drawn.
InstallsNamed ==
    \A c \in Conns :
        /\ inst[c].pc = "idle" => inst[c] = IdleInstall
        /\ inst[c].pc # "idle" => inst[c].name \in Names /\ inst[c].cred \in drawn

\* A query under way, or refused, has read a credential from a secret.
QueriesNamed ==
    \A r \in Queries : query[r].pc # "idle" \/ query[r].reauth # "none" => query[r].cred \in Creds

\* Every credential that is stored, stale, named or remembered has been drawn, so that a
\* new id is not yet in use anywhere.
Known == drawn \cup {None, Other}
OnlyDrawn ==
    /\ creds \subseteq drawn /\ stale \subseteq drawn
    /\ \A n \in Names : catalog[n] \in Known
    /\ \A c \in Conns : inst[c].seen \in Known
    /\ \A r \in Queries : query[r].cred \in Known

\* A completion holds the mutex of its name while it replaces the secret, and no other.
LockInv ==
    \A c \in Conns, s \in Stripes :
        lock[s] = c <=> Holding(c) /\ Stripe[inst[c].name] = s

\* A completion that has not committed its secret.
Uncommitted(c) == inst[c].pc \in {"lock", "read", "commit", "undo"}

\* Its credential is its own: no secret names it, nobody has read it, and it is kept until
\* it expires.
PrivateUntilCommit ==
    \A c \in Conns : Uncommitted(c) =>
        /\ inst[c].cred \in creds \cup stale
        /\ \A n \in Names : catalog[n] # inst[c].cred
        /\ \A d \in Conns : inst[d].seen # inst[c].cred
        /\ \A d \in Conns : d # c => inst[d].cred # inst[c].cred
        /\ \A r \in Queries : query[r].cred # inst[c].cred

\* No two secrets name the same credential.
NamedOnce ==
    \A m, n \in Names : catalog[m] = catalog[n] /\ catalog[m] \in Creds => m = n

\* A completion about to retire what it displaced has its own secret in the catalog, unless
\* another user removed it, and no secret names what it is going to remove.
Displaced ==
    \A c \in Conns : inst[c].pc = "retire" =>
        /\ catalog[inst[c].name] = inst[c].cred \/ inst[c].cred \in orphaned
        /\ inst[c].seen \in Creds => \A n \in Names : catalog[n] # inst[c].seen

StoreInv ==
    /\ TypeOK /\ InstallsNamed /\ QueriesNamed /\ OnlyDrawn /\ LockInv
    /\ PrivateUntilCommit /\ NamedOnce /\ Displaced
    /\ CatalogNamesLive /\ NoLeftover /\ ReauthExplained

-----------------------------------------------------------------------------
(* Types                                                                     *)

\* A stripe is a stripe of a name.
LEMMA StripeOfName == ASSUME NEW n \in Names PROVE Stripe[n] \in Stripes
  BY DEF Stripes

\* The end of the scope frees the mutexes of one completion.
LEMMA UnlockedType ==
    ASSUME TypeOK, NEW c \in Conns
    PROVE  Unlocked(c) \in [Stripes -> Conns \cup {None}]
  BY DEF Unlocked, TypeOK

\* Every step preserves the types.
LEMMA TypeStep == StoreInv /\ [Next]_vars => TypeOK'
<1> SUFFICES ASSUME StoreInv, [Next]_vars PROVE TypeOK'
  OBVIOUS
<1> USE DEF StoreInv
<1>0. /\ IdleInstall \in Install /\ IdleQuery \in Query
      /\ \A n \in Names : catalog[n] \in Entry
  BY DEF IdleInstall, Install, IdleQuery, Query, Entry, TypeOK
<1>1. ASSUME NEW c \in Conns, NEW n \in Names, NEW k \in Creds, StoreCredential(c, n, k)
      PROVE  TypeOK'
  <2>1. [pc |-> "lock", name |-> n, cred |-> k, seen |-> None] \in Install
    BY DEF Install, Entry
  <2> QED
    BY <1>1, <2>1 DEF StoreCredential, TypeOK, Live
<1>2. ASSUME NEW c \in Conns, StoreRefused(c) PROVE TypeOK'
  BY <1>2 DEF StoreRefused, TypeOK, Live
<1>3. ASSUME NEW c \in Conns, InstallStep(c) PROVE TypeOK'
  <2>0. inst[c] \in Install /\ (inst[c].pc # "idle" => inst[c].name \in Names)
    BY DEF TypeOK, InstallsNamed
  <2>1. CASE LockSecretReplacement(c)
    <3>1. [inst[c] EXCEPT !.pc = "read"] \in Install
      BY <2>0 DEF Install
    <3> QED
      BY <2>0, <2>1, <3>1, StripeOfName DEF LockSecretReplacement, TypeOK
  <2>2. CASE ReadExisting(c)
    <3>1. [inst[c] EXCEPT !.pc = "commit", !.seen = catalog[inst[c].name]] \in Install
      BY <1>0, <2>0, <2>2 DEF Install, ReadExisting
    <3> QED
      BY <2>2, <3>1 DEF ReadExisting, TypeOK
  <2>3. CASE CommitSecret(c)
    <3>1. [inst[c] EXCEPT !.pc = "retire"] \in Install /\ inst[c].cred \in Entry
      BY <2>0 DEF Install, Entry
    <3> QED
      BY <2>3, <3>1 DEF CommitSecret, TypeOK
  <2>4. CASE CommitFails(c)
    <3>1. [inst[c] EXCEPT !.pc = "undo"] \in Install
      BY <2>0 DEF Install
    <3> QED
      BY <2>4, <3>1 DEF CommitFails, TypeOK
  <2>5. CASE RetireDisplaced(c)
    BY <1>0, <2>5, UnlockedType DEF RetireDisplaced, TypeOK
  <2>6. CASE UndoInstall(c)
    BY <1>0, <2>6, UnlockedType DEF UndoInstall, TypeOK
  <2> QED
    BY <1>3, <2>1, <2>2, <2>3, <2>4, <2>5, <2>6 DEF InstallStep
<1>4. ASSUME NEW r \in Queries, NEW n \in Names, QueryBind(r, n) PROVE TypeOK'
  <2>1. [pc |-> "bind", cred |-> catalog[n], reauth |-> "none"] \in Query
    BY <1>4 DEF QueryBind, Query
  <2> QED
    BY <1>4, <2>1 DEF QueryBind, TypeOK
<1>5. ASSUME NEW r \in Queries, NEW from, NEW to \in {"bound", "run"},
             ResolveCredential(r, from, to)
      PROVE  TypeOK'
  <2>1. query[r] \in Query
    BY DEF TypeOK
  <2>2. /\ [query[r] EXCEPT !.pc = to] \in Query
        /\ \A x \in {"expired", "missing"} :
              [pc |-> "idle", cred |-> query[r].cred, reauth |-> x] \in Query
    BY <2>1 DEF Query
  <2> QED
    BY <1>5, <2>2 DEF ResolveCredential, TypeOK
<1>6. ASSUME NEW r \in Queries, QueryEnd(r) PROVE TypeOK'
  BY <1>0, <1>6 DEF QueryEnd, TypeOK
<1>7. ASSUME NEW n \in Names, ForeignChange(n) PROVE TypeOK'
  BY <1>7 DEF ForeignChange, TypeOK, Entry
<1>8. ASSUME NEW k \in Creds, Expire(k) PROVE TypeOK'
  BY <1>8 DEF Expire, TypeOK
<1>9. CASE AtRest \/ UNCHANGED vars
  BY <1>9 DEF AtRest, vars, TypeOK
<1> QED
  BY <1>1, <1>2, <1>3, <1>4, <1>5, <1>6, <1>7, <1>8, <1>9
     DEF Next, ResolveAtBind, ResolveAtInit

-----------------------------------------------------------------------------
(* Steps.  Each action moves one completion, one query or one secret, and     *)
(* the facts about the others carry over.                                    *)

\* StoreCredential draws an id nobody has seen.
LEMMA StoreCredentialKeeps ==
    ASSUME StoreInv, TypeOK', NEW c \in Conns, NEW n \in Names, NEW k \in Creds,
           StoreCredential(c, n, k)
    PROVE  StoreInv'
<1> USE DEF StoreInv
<1>1. /\ inst'[c] = [pc |-> "lock", name |-> n, cred |-> k, seen |-> None]
      /\ \A d \in Conns : d # c => inst'[d] = inst[d]
      /\ inst[c] = IdleInstall
  BY DEF StoreCredential, TypeOK, InstallsNamed
<1>2. /\ creds' = (creds \ stale) \cup {k} /\ drawn' = drawn \cup {k} /\ k \notin drawn
      /\ UNCHANGED <<stale, catalog, lock, query, orphaned>>
  BY DEF StoreCredential, Live
<1>3. k # None /\ k # Other
  BY ValuesAssumption
<1>4. InstallsNamed' /\ QueriesNamed'
  BY <1>1, <1>2 DEF InstallsNamed, QueriesNamed
<1>5. OnlyDrawn'
  BY <1>1, <1>2 DEF OnlyDrawn, Known
<1>6. LockInv'
  BY <1>1, <1>2 DEF LockInv, Holding, IdleInstall, TypeOK
<1>7. PrivateUntilCommit'
  BY <1>1, <1>2, <1>3 DEF PrivateUntilCommit, Uncommitted, OnlyDrawn, Known, InstallsNamed, IdleInstall
<1>8. NamedOnce' /\ Displaced' /\ CatalogNamesLive' /\ ReauthExplained'
  BY <1>1, <1>2 DEF NamedOnce, Displaced, CatalogNamesLive, ReauthExplained, IdleInstall
<1>9. NoLeftover'
  <2> SUFFICES ASSUME NEW j \in creds' \ orphaned', j # k
               PROVE  \/ \E m \in Names : catalog'[m] = j
                      \/ \E d \in Conns : inst'[d].cred = j
                      \/ \E d \in Conns : inst'[d].pc = "retire" /\ inst'[d].seen = j
    BY <1>1 DEF NoLeftover
  <2>1. j \in creds \ orphaned /\ j # None
    BY <1>2, ValuesAssumption DEF TypeOK
  <2> QED
    BY <1>1, <1>2, <2>1 DEF NoLeftover, IdleInstall
<1> QED
  BY <1>4, <1>5, <1>6, <1>7, <1>8, <1>9

\* A login refused for want of room purges what has expired, and nothing else.
LEMMA StoreRefusedKeeps ==
    ASSUME StoreInv, TypeOK', NEW c \in Conns, StoreRefused(c)
    PROVE  StoreInv'
<1> USE DEF StoreInv
<1>1. creds' = creds \ stale /\ UNCHANGED <<drawn, stale, catalog, lock, inst, query, orphaned>>
  BY DEF StoreRefused, Live
<1>2. InstallsNamed' /\ QueriesNamed' /\ OnlyDrawn' /\ LockInv'
  BY <1>1 DEF InstallsNamed, QueriesNamed, OnlyDrawn, Known, LockInv, Holding
<1>3. PrivateUntilCommit'
  BY <1>1 DEF PrivateUntilCommit, Uncommitted
<1>4. NamedOnce' /\ Displaced' /\ CatalogNamesLive' /\ ReauthExplained' /\ NoLeftover'
  BY <1>1 DEF NamedOnce, Displaced, CatalogNamesLive, ReauthExplained, NoLeftover
<1> QED
  BY <1>2, <1>3, <1>4

\* Expiry takes nothing away.
LEMMA ExpireKeeps ==
    ASSUME StoreInv, TypeOK', NEW k \in Creds, Expire(k)
    PROVE  StoreInv'
<1> USE DEF StoreInv
<1>1. /\ stale' = stale \cup {k} /\ k \in drawn
      /\ UNCHANGED <<creds, drawn, catalog, lock, inst, query, orphaned>>
  BY DEF Expire
<1>2. InstallsNamed' /\ QueriesNamed' /\ OnlyDrawn' /\ LockInv'
  BY <1>1 DEF InstallsNamed, QueriesNamed, OnlyDrawn, Known, LockInv, Holding
<1>3. PrivateUntilCommit'
  BY <1>1 DEF PrivateUntilCommit, Uncommitted
<1>4. NamedOnce' /\ Displaced' /\ CatalogNamesLive' /\ ReauthExplained' /\ NoLeftover'
  BY <1>1 DEF NamedOnce, Displaced, CatalogNamesLive, ReauthExplained, NoLeftover
<1> QED
  BY <1>2, <1>3, <1>4

\* Another user's change unnames a credential, which is orphaned.
LEMMA ForeignChangeKeeps ==
    ASSUME StoreInv, TypeOK', NEW n \in Names, ForeignChange(n)
    PROVE  StoreInv'
<1> USE DEF StoreInv
<1>1. /\ catalog'[n] \in {None, Other}
      /\ \A m \in Names : m # n => catalog'[m] = catalog[m]
      /\ orphaned' = orphaned \cup ({catalog[n]} \cap Creds)
      /\ UNCHANGED <<creds, drawn, stale, lock, inst, query>>
  BY DEF ForeignChange, TypeOK
<1>2. None \notin Creds /\ Other \notin Creds
  BY ValuesAssumption
<1>3. InstallsNamed' /\ QueriesNamed' /\ OnlyDrawn' /\ LockInv'
  BY <1>1 DEF InstallsNamed, QueriesNamed, OnlyDrawn, Known, LockInv, Holding
<1>4. PrivateUntilCommit'
  BY <1>1, <1>2 DEF PrivateUntilCommit, Uncommitted, InstallsNamed, TypeOK
<1>5. NamedOnce' /\ CatalogNamesLive'
  BY <1>1, <1>2 DEF NamedOnce, CatalogNamesLive
<1>6. Displaced'
  <2> SUFFICES ASSUME NEW c \in Conns, inst[c].pc = "retire"
               PROVE  /\ catalog'[inst[c].name] = inst[c].cred \/ inst[c].cred \in orphaned'
                      /\ inst[c].seen \in Creds => \A m \in Names : catalog'[m] # inst[c].seen
    BY <1>1 DEF Displaced
  <2>1. inst[c].name \in Names /\ inst[c].cred \in Creds
    BY DEF InstallsNamed, TypeOK
  <2> QED
    BY <1>1, <1>2, <2>1 DEF Displaced
<1>7. ReauthExplained'
  <2> SUFFICES ASSUME NEW r \in Queries, query[r].reauth = "missing", NEW m \in Names
               PROVE  catalog'[m] # query[r].cred
    BY <1>1 DEF ReauthExplained
  <2>1. m # n => catalog'[m] # query[r].cred
    BY <1>1 DEF ReauthExplained
  <2>2. query[r].cred \in Creds
    BY DEF QueriesNamed
  <2> QED
    BY <1>1, <1>2, <2>1, <2>2
<1>8. NoLeftover'
  BY <1>1 DEF NoLeftover, TypeOK
<1> QED
  BY <1>3, <1>4, <1>5, <1>6, <1>7, <1>8

\* LockSecretReplacement takes a mutex that is free.
LEMMA LockKeeps ==
    ASSUME StoreInv, TypeOK', NEW c \in Conns, LockSecretReplacement(c)
    PROVE  StoreInv'
<1> USE DEF StoreInv
<1> DEFINE s == Stripe[inst[c].name]
<1>1. inst[c].pc = "lock" /\ lock[s] = None /\ inst[c].name \in Names /\ s \in Stripes
  BY StripeOfName DEF LockSecretReplacement, InstallsNamed
<1>2. /\ inst'[c].pc = "read" /\ inst'[c].name = inst[c].name
      /\ inst'[c].cred = inst[c].cred /\ inst'[c].seen = inst[c].seen
      /\ \A d \in Conns : d # c => inst'[d] = inst[d]
  BY DEF LockSecretReplacement, TypeOK, Install
<1>3. /\ lock'[s] = c /\ \A t \in Stripes : t # s => lock'[t] = lock[t]
      /\ UNCHANGED <<creds, drawn, stale, catalog, query, orphaned>>
  BY <1>1 DEF LockSecretReplacement, TypeOK
<1> HIDE DEF s
<1>4. InstallsNamed' /\ QueriesNamed' /\ OnlyDrawn'
  BY <1>1, <1>2, <1>3 DEF InstallsNamed, QueriesNamed, OnlyDrawn, Known
<1>5. LockInv'
  <2>1. c # None
    BY ValuesAssumption
  <2> SUFFICES ASSUME NEW d \in Conns, NEW t \in Stripes
               PROVE  lock'[t] = d <=> Holding(d)' /\ Stripe[inst'[d].name] = t
    BY DEF LockInv
  <2>2. CASE d = c
    BY <1>1, <1>2, <1>3, <2>1, <2>2 DEF LockInv, Holding, s
  <2>3. CASE d # c
    <3>1. inst'[d] = inst[d] /\ (lock[t] = d <=> Holding(d) /\ Stripe[inst[d].name] = t)
      BY <1>2, <2>3 DEF LockInv
    <3>2. lock[s] # d
      BY <1>1, ValuesAssumption
    <3> QED
      BY <1>1, <1>3, <2>3, <3>1, <3>2 DEF Holding
  <2> QED
    BY <2>2, <2>3
<1>6. PrivateUntilCommit'
  BY <1>1, <1>2, <1>3 DEF PrivateUntilCommit, Uncommitted
<1>7. NamedOnce' /\ CatalogNamesLive' /\ ReauthExplained'
  BY <1>3 DEF NamedOnce, CatalogNamesLive, ReauthExplained
<1>8. Displaced' /\ NoLeftover'
  BY <1>1, <1>2, <1>3 DEF Displaced, NoLeftover
<1> QED
  BY <1>4, <1>5, <1>6, <1>7, <1>8

\* A completion that goes from one step under the mutex to another keeps the mutex.
LEMMA StillHeld ==
    ASSUME StoreInv, NEW c \in Conns, Holding(c), Holding(c)',
           inst'[c].name = inst[c].name, \A d \in Conns : d # c => inst'[d] = inst[d],
           UNCHANGED lock
    PROVE  LockInv'
BY DEF StoreInv, LockInv, Holding

\* ReadExisting remembers what the secret names, which is nobody's new credential.
LEMMA ReadKeeps ==
    ASSUME StoreInv, TypeOK', NEW c \in Conns, ReadExisting(c)
    PROVE  StoreInv'
<1> USE DEF StoreInv
<1>1. inst[c].pc = "read" /\ inst[c].name \in Names
  BY DEF ReadExisting, InstallsNamed
<1>2. /\ inst'[c].pc = "commit" /\ inst'[c].name = inst[c].name
      /\ inst'[c].cred = inst[c].cred /\ inst'[c].seen = catalog[inst[c].name]
      /\ \A d \in Conns : d # c => inst'[d] = inst[d]
      /\ UNCHANGED <<creds, drawn, stale, catalog, lock, query, orphaned>>
  BY DEF ReadExisting, TypeOK, Install
<1>3. InstallsNamed' /\ QueriesNamed' /\ OnlyDrawn'
  BY <1>1, <1>2 DEF InstallsNamed, QueriesNamed, OnlyDrawn, Known
<1>4. LockInv'
  BY <1>1, <1>2, StillHeld DEF Holding
<1>5. PrivateUntilCommit'
  BY <1>1, <1>2 DEF PrivateUntilCommit, Uncommitted
<1>6. NamedOnce' /\ CatalogNamesLive' /\ ReauthExplained'
  BY <1>2 DEF NamedOnce, CatalogNamesLive, ReauthExplained
<1>7. Displaced' /\ NoLeftover'
  BY <1>1, <1>2 DEF Displaced, NoLeftover
<1> QED
  BY <1>3, <1>4, <1>5, <1>6, <1>7

\* A failed installation still has its credential to itself.
LEMMA CommitFailsKeeps ==
    ASSUME StoreInv, TypeOK', NEW c \in Conns, CommitFails(c)
    PROVE  StoreInv'
<1> USE DEF StoreInv
<1>1. inst[c].pc \in {"read", "commit"}
  BY DEF CommitFails
<1>2. /\ inst'[c].pc = "undo" /\ inst'[c].name = inst[c].name
      /\ inst'[c].cred = inst[c].cred /\ inst'[c].seen = inst[c].seen
      /\ \A d \in Conns : d # c => inst'[d] = inst[d]
      /\ UNCHANGED <<creds, drawn, stale, catalog, lock, query, orphaned>>
  BY DEF CommitFails, TypeOK, Install
<1>3. InstallsNamed' /\ QueriesNamed' /\ OnlyDrawn'
  BY <1>1, <1>2 DEF InstallsNamed, QueriesNamed, OnlyDrawn, Known
<1>4. LockInv'
  BY <1>1, <1>2, StillHeld DEF Holding
<1>5. PrivateUntilCommit'
  BY <1>1, <1>2 DEF PrivateUntilCommit, Uncommitted
<1>6. NamedOnce' /\ CatalogNamesLive' /\ ReauthExplained'
  BY <1>2 DEF NamedOnce, CatalogNamesLive, ReauthExplained
<1>7. Displaced' /\ NoLeftover'
  BY <1>1, <1>2 DEF Displaced, NoLeftover
<1> QED
  BY <1>3, <1>4, <1>5, <1>6, <1>7

\* CommitSecret publishes a credential nobody else has, in place of the one it read.
LEMMA CommitKeeps ==
    ASSUME StoreInv, TypeOK', NEW c \in Conns, CommitSecret(c)
    PROVE  StoreInv'
<1> USE DEF StoreInv
<1> DEFINE n == inst[c].name
           k == inst[c].cred
<1>1. /\ inst[c].pc = "commit" /\ n \in Names /\ k \in Creds /\ k \in drawn
      /\ catalog[n] = inst[c].seen
  BY DEF CommitSecret, InstallsNamed, TypeOK
<1>2. /\ inst'[c].pc = "retire" /\ inst'[c].name = n
      /\ inst'[c].cred = k /\ inst'[c].seen = inst[c].seen
      /\ \A d \in Conns : d # c => inst'[d] = inst[d]
      /\ UNCHANGED <<creds, drawn, stale, lock, query, orphaned>>
  BY DEF CommitSecret, TypeOK, Install
<1>3. catalog'[n] = k /\ \A m \in Names : m # n => catalog'[m] = catalog[m]
  BY <1>1 DEF CommitSecret, TypeOK
<1>4. /\ k \in creds \cup stale
      /\ \A m \in Names : catalog[m] # k
      /\ \A d \in Conns : inst[d].seen # k /\ (d # c => inst[d].cred # k)
      /\ \A r \in Queries : query[r].cred # k
  BY <1>1 DEF PrivateUntilCommit, Uncommitted
<1> HIDE DEF n, k
<1>5. InstallsNamed' /\ QueriesNamed' /\ OnlyDrawn'
  BY <1>1, <1>2, <1>3 DEF InstallsNamed, QueriesNamed, OnlyDrawn, Known
<1>6. LockInv'
  BY <1>1, <1>2, StillHeld DEF Holding, n
<1>7. PrivateUntilCommit'
  BY <1>1, <1>2, <1>3, <1>4 DEF PrivateUntilCommit, Uncommitted
<1>8. NamedOnce'
  BY <1>2, <1>3, <1>4 DEF NamedOnce
<1>9. CatalogNamesLive'
  BY <1>2, <1>3, <1>4 DEF CatalogNamesLive
<1>10. ReauthExplained'
  BY <1>2, <1>3, <1>4 DEF ReauthExplained
<1>11. Displaced'
  <2> SUFFICES ASSUME NEW d \in Conns, inst'[d].pc = "retire"
               PROVE  /\ catalog'[inst'[d].name] = inst'[d].cred \/ inst'[d].cred \in orphaned
                      /\ inst'[d].seen \in Creds => \A m \in Names : catalog'[m] # inst'[d].seen
    BY <1>2 DEF Displaced
  <2>1. CASE d = c
    BY <1>1, <1>2, <1>3, <1>4, <2>1 DEF NamedOnce
  <2>2. CASE d # c
    <3>1. inst'[d] = inst[d] /\ inst[d].pc = "retire" /\ inst[d].name \in Names
      BY <1>2, <2>2 DEF InstallsNamed
    <3>2. inst[d].name # n
      <4>1. Holding(c) /\ Holding(d)
        BY <1>1, <3>1 DEF Holding
      <4>2. lock[Stripe[n]] = c /\ lock[Stripe[inst[d].name]] = d
        BY <1>1, <3>1, <4>1, StripeOfName DEF LockInv, n
      <4> QED
        BY <2>2, <4>2
    <3> QED
      BY <1>3, <1>4, <3>1, <3>2 DEF Displaced
  <2> QED
    BY <2>1, <2>2
<1>12. NoLeftover'
  <2> SUFFICES ASSUME NEW j \in creds \ orphaned
               PROVE  \/ \E m \in Names : catalog'[m] = j
                      \/ \E d \in Conns : inst'[d].cred = j
                      \/ \E d \in Conns : inst'[d].pc = "retire" /\ inst'[d].seen = j
    BY <1>2 DEF NoLeftover
  <2>1. CASE \E m \in Names : catalog[m] = j
    BY <1>1, <1>2, <1>3, <2>1
  <2>2. CASE \E d \in Conns : inst[d].cred = j
    BY <1>2, <2>2 DEF k
  <2>3. CASE \E d \in Conns : inst[d].pc = "retire" /\ inst[d].seen = j
    BY <1>1, <1>2, <2>3
  <2> QED
    BY <2>1, <2>2, <2>3 DEF NoLeftover
<1> QED
  BY <1>5, <1>6, <1>7, <1>8, <1>9, <1>10, <1>11, <1>12

\* The end of a completion, which frees its mutex and removes one credential at most: one
\* that no secret names, no other completion is about to install, and of which nothing
\* is left behind.
LEMMA EndKeeps ==
    ASSUME StoreInv, TypeOK', NEW c \in Conns, NEW gone,
           creds' = creds \ gone, lock' = Unlocked(c),
           inst' = [inst EXCEPT ![c] = IdleInstall], Holding(c),
           \A n \in Names : catalog[n] \in gone => catalog[n] \notin Creds,
           \A d \in Conns : d # c /\ Uncommitted(d) => inst[d].cred \notin gone,
           inst[c].cred \in gone \cup orphaned \/ \E n \in Names : catalog[n] = inst[c].cred,
           inst[c].pc = "retire" => inst[c].seen \in gone \/ inst[c].seen \notin Creds,
           UNCHANGED <<drawn, stale, catalog, query, orphaned>>
    PROVE  StoreInv'
<1> USE DEF StoreInv
<1>1. inst'[c] = IdleInstall /\ \A d \in Conns : d # c => inst'[d] = inst[d]
  BY DEF TypeOK
<1>2. \A s \in Stripes : lock'[s] = IF lock[s] = c THEN None ELSE lock[s]
  BY DEF Unlocked
<1>3. None \notin Creds /\ Other \notin Creds /\ c # None
  BY ValuesAssumption
<1>4. InstallsNamed' /\ QueriesNamed'
  BY <1>1 DEF InstallsNamed, QueriesNamed, IdleInstall
<1>5. OnlyDrawn'
  BY <1>1 DEF OnlyDrawn, Known, IdleInstall
<1>6. LockInv'
  <2> SUFFICES ASSUME NEW d \in Conns, NEW s \in Stripes
               PROVE  lock'[s] = d <=> Holding(d)' /\ Stripe[inst'[d].name] = s
    BY DEF LockInv
  <2>1. CASE d = c
    BY <1>1, <1>2, <1>3, <2>1 DEF Holding, IdleInstall
  <2>2. CASE d # c
    <3>1. inst'[d] = inst[d] /\ (lock[s] = d <=> Holding(d) /\ Stripe[inst[d].name] = s)
      BY <1>1, <2>2 DEF LockInv
    <3>2. d # None
      BY ValuesAssumption
    <3> QED
      BY <1>2, <2>2, <3>1, <3>2 DEF Holding
  <2> QED
    BY <2>1, <2>2
<1>7. PrivateUntilCommit'
  <2> SUFFICES ASSUME NEW d \in Conns, Uncommitted(d)'
               PROVE  /\ inst'[d].cred \in creds' \cup stale
                      /\ \A n \in Names : catalog[n] # inst'[d].cred
                      /\ \A e \in Conns : inst'[e].seen # inst'[d].cred
                      /\ \A e \in Conns : e # d => inst'[e].cred # inst'[d].cred
                      /\ \A r \in Queries : query[r].cred # inst'[d].cred
    BY DEF PrivateUntilCommit
  <2>1. d # c /\ inst'[d] = inst[d] /\ Uncommitted(d)
    BY <1>1 DEF Uncommitted, IdleInstall
  <2>2. inst[d].cred \in Creds /\ IdleInstall.cred = None /\ IdleInstall.seen = None
    BY <2>1 DEF InstallsNamed, TypeOK, Uncommitted, IdleInstall
  <2> QED
    BY <1>1, <1>3, <2>1, <2>2 DEF PrivateUntilCommit
<1>8. NamedOnce' /\ CatalogNamesLive' /\ ReauthExplained'
  BY DEF NamedOnce, CatalogNamesLive, ReauthExplained
<1>9. Displaced'
  BY <1>1 DEF Displaced, IdleInstall
<1>10. NoLeftover'
  <2> SUFFICES ASSUME NEW j \in creds \ orphaned, j \notin gone
               PROVE  \/ \E n \in Names : catalog[n] = j
                      \/ \E d \in Conns : inst'[d].cred = j
                      \/ \E d \in Conns : inst'[d].pc = "retire" /\ inst'[d].seen = j
    BY DEF NoLeftover
  <2>1. j \in Creds
    BY DEF TypeOK
  <2>2. CASE \E d \in Conns : inst[d].cred = j
    BY <1>1, <2>2
  <2>3. CASE \E d \in Conns : inst[d].pc = "retire" /\ inst[d].seen = j
    BY <1>1, <2>1, <2>3
  <2> QED
    BY <2>2, <2>3 DEF NoLeftover
<1> QED
  BY <1>4, <1>5, <1>6, <1>7, <1>8, <1>9, <1>10

\* RetireDisplaced removes what no secret names any more.
LEMMA RetireKeeps ==
    ASSUME StoreInv, TypeOK', NEW c \in Conns, RetireDisplaced(c)
    PROVE  StoreInv'
<1>1. inst[c].pc = "retire" /\ Holding(c) /\ inst[c].name \in Names
  BY DEF RetireDisplaced, Holding, StoreInv, InstallsNamed
<1>2. \A n \in Names : catalog[n] \in {inst[c].seen} \cap Creds => catalog[n] \notin Creds
  BY <1>1 DEF StoreInv, Displaced
<1>3. \A d \in Conns : d # c /\ Uncommitted(d) => inst[d].cred \notin {inst[c].seen} \cap Creds
  BY DEF StoreInv, PrivateUntilCommit
<1>4. \/ inst[c].cred \in ({inst[c].seen} \cap Creds) \cup orphaned
      \/ \E n \in Names : catalog[n] = inst[c].cred
  BY <1>1 DEF StoreInv, Displaced
<1> QED
  BY <1>1, <1>2, <1>3, <1>4, EndKeeps DEF RetireDisplaced

\* UndoInstall removes what no secret has named.
LEMMA UndoKeeps ==
    ASSUME StoreInv, TypeOK', NEW c \in Conns, UndoInstall(c)
    PROVE  StoreInv'
<1>1. inst[c].pc = "undo" /\ Holding(c) /\ Uncommitted(c)
  BY DEF UndoInstall, Holding, Uncommitted
<1>2. /\ \A n \in Names : catalog[n] \in {inst[c].cred} => catalog[n] \notin Creds
      /\ \A d \in Conns : d # c /\ Uncommitted(d) => inst[d].cred \notin {inst[c].cred}
  BY <1>1 DEF StoreInv, PrivateUntilCommit
<1> QED
  BY <1>1, <1>2, EndKeeps DEF UndoInstall

\* A step of one query, which forgets a credential at most that has expired or is gone.
LEMMA QueryKeeps ==
    ASSUME StoreInv, TypeOK', NEW r \in Queries,
           \A p \in Queries : p # r => query'[p] = query[p],
           \/ query'[r].cred = query[r].cred
           \/ query'[r].cred = None
           \/ \E n \in Names : query'[r].cred = catalog[n],
           query'[r].pc # "idle" \/ query'[r].reauth # "none" => query'[r].cred \in Creds,
           query'[r].reauth = "missing" => \A n \in Names : catalog[n] # query'[r].cred,
           creds' \subseteq creds, creds \ stale \subseteq creds',
           UNCHANGED <<drawn, stale, catalog, lock, inst, orphaned>>
    PROVE  StoreInv'
<1> USE DEF StoreInv
<1>1. InstallsNamed' /\ QueriesNamed' /\ LockInv'
  BY DEF InstallsNamed, QueriesNamed, LockInv, Holding
<1>2. OnlyDrawn'
  BY DEF OnlyDrawn, Known
<1>3. PrivateUntilCommit'
  <2> SUFFICES ASSUME NEW c \in Conns, Uncommitted(c)
               PROVE  /\ inst[c].cred \in creds' \cup stale
                      /\ \A p \in Queries : query'[p].cred # inst[c].cred
    BY DEF PrivateUntilCommit, Uncommitted
  <2>1. inst[c].cred \in Creds /\ inst[c].cred # None
    BY ValuesAssumption DEF InstallsNamed, TypeOK, Uncommitted
  <2> QED
    BY <2>1 DEF PrivateUntilCommit
<1>4. NamedOnce' /\ Displaced' /\ CatalogNamesLive' /\ NoLeftover'
  BY DEF NamedOnce, Displaced, CatalogNamesLive, NoLeftover
<1>5. ReauthExplained'
  BY DEF ReauthExplained
<1> QED
  BY <1>1, <1>2, <1>3, <1>4, <1>5

\* ResolveCredential reports "missing" only what no secret names.
LEMMA ResolveKeeps ==
    ASSUME StoreInv, TypeOK', NEW r \in Queries, NEW from \in {"bind", "bound"},
           NEW to \in {"bound", "run"}, ResolveCredential(r, from, to)
    PROVE  StoreInv'
<1> DEFINE k == query[r].cred
<1>1. /\ query[r].pc = from /\ k \in Creds
      /\ \A p \in Queries : p # r => query'[p] = query[p]
      /\ UNCHANGED <<drawn, stale, catalog, lock, inst, orphaned>>
  BY DEF ResolveCredential, StoreInv, QueriesNamed, TypeOK
<1>2. CASE k \in Live
  <2>1. query'[r] = [query[r] EXCEPT !.pc = to] /\ creds' = creds /\ query[r] \in Query
    BY <1>2 DEF ResolveCredential, StoreInv, TypeOK
  <2>2. query'[r].cred = k /\ query'[r].reauth = query[r].reauth
    BY <2>1 DEF Query
  <2>3. query'[r].reauth = "missing" => \A n \in Names : catalog[n] # query'[r].cred
    BY <2>2 DEF StoreInv, ReauthExplained
  <2> QED
    BY <1>1, <2>1, <2>2, <2>3, QueryKeeps
<1>3. CASE k \notin Live
  <2>1. /\ query'[r].cred = k /\ creds' = creds \ {k}
        /\ query'[r].reauth = IF k \in stale THEN "expired" ELSE "missing"
    BY <1>3 DEF ResolveCredential, StoreInv, TypeOK
  <2>2. query'[r].reauth = "missing" => \A n \in Names : catalog[n] # k
    BY <1>1, <1>3, <2>1 DEF StoreInv, CatalogNamesLive, Live
  <2>3. creds \ stale \subseteq creds'
    BY <1>3, <2>1 DEF Live
  <2> QED
    BY <1>1, <2>1, <2>2, <2>3, QueryKeeps
<1> QED
  BY <1>2, <1>3

\* Every step preserves the inductive invariant.
LEMMA StoreStep == StoreInv /\ [Next]_vars => StoreInv'
<1> SUFFICES ASSUME StoreInv, [Next]_vars PROVE StoreInv'
  OBVIOUS
<1>0. TypeOK'
  BY TypeStep
<1>1. ASSUME NEW c \in Conns, InstallStep(c) PROVE StoreInv'
  BY <1>0, <1>1, LockKeeps, ReadKeeps, CommitKeeps, CommitFailsKeeps, RetireKeeps, UndoKeeps
     DEF InstallStep
<1>2. ASSUME NEW r \in Queries, NEW n \in Names, QueryBind(r, n) PROVE StoreInv'
  <2>1. /\ query'[r] = [pc |-> "bind", cred |-> catalog[n], reauth |-> "none"]
        /\ \A p \in Queries : p # r => query'[p] = query[p]
        /\ catalog[n] \in Creds /\ creds' = creds
        /\ UNCHANGED <<drawn, stale, catalog, lock, inst, orphaned>>
    BY <1>2 DEF QueryBind, StoreInv, TypeOK
  <2> QED
    BY <1>0, <2>1, QueryKeeps
<1>3. ASSUME NEW r \in Queries, QueryEnd(r) PROVE StoreInv'
  <2>1. /\ query'[r] = IdleQuery /\ \A p \in Queries : p # r => query'[p] = query[p]
        /\ creds' = creds /\ UNCHANGED <<drawn, stale, catalog, lock, inst, orphaned>>
    BY <1>3 DEF QueryEnd, StoreInv, TypeOK
  <2> QED
    BY <1>0, <2>1, QueryKeeps DEF IdleQuery
<1>4. CASE AtRest \/ UNCHANGED vars
  BY <1>0, <1>4
     DEF AtRest, vars, StoreInv, InstallsNamed, QueriesNamed, OnlyDrawn, Known, LockInv, Holding,
         PrivateUntilCommit, Uncommitted, NamedOnce, Displaced, CatalogNamesLive, NoLeftover,
         ReauthExplained
<1> QED
  BY <1>0, <1>1, <1>2, <1>3, <1>4, StoreCredentialKeeps, StoreRefusedKeeps, ResolveKeeps,
     ForeignChangeKeeps, ExpireKeeps DEF Next, ResolveAtBind, ResolveAtInit

\* The inductive invariant holds in every reachable state.
LEMMA StoreInvariant == Spec => []StoreInv
<1>1. Init => StoreInv
  <2> SUFFICES ASSUME Init PROVE StoreInv
    OBVIOUS
  <2>1. /\ \A c \in Conns : inst[c] = IdleInstall
        /\ \A r \in Queries : query[r] = IdleQuery
        /\ \A n \in Names : catalog[n] = None
        /\ \A s \in Stripes : lock[s] = None
    BY DEF Init
  <2>2. TypeOK
    BY DEF Init, TypeOK, IdleInstall, Install, IdleQuery, Query, Entry
  <2>3. InstallsNamed /\ QueriesNamed /\ OnlyDrawn /\ LockInv
    BY <2>1, ValuesAssumption
       DEF Init, InstallsNamed, QueriesNamed, OnlyDrawn, Known, LockInv, Holding, IdleInstall, IdleQuery
  <2>4. PrivateUntilCommit /\ NamedOnce /\ Displaced /\ CatalogNamesLive /\ NoLeftover
        /\ ReauthExplained
    BY <2>1, ValuesAssumption
       DEF Init, PrivateUntilCommit, Uncommitted, NamedOnce, Displaced, CatalogNamesLive,
           NoLeftover, ReauthExplained, IdleInstall, IdleQuery
  <2> QED
    BY <2>2, <2>3, <2>4 DEF StoreInv
<1> QED
  BY <1>1, StoreStep, PTL DEF Spec

-----------------------------------------------------------------------------
(* Theorems                                                                  *)

\* The credentials, the catalog, the mutexes and the calls keep their types.
THEOREM StoreTypeCorrect == Spec => []TypeOK
  BY StoreInvariant, PTL DEF StoreInv

\* A secret in the catalog never names a credential that a completion removed: the new
\* one stays while its secret is there, the displaced one goes after it has been replaced.
THEOREM SecretsNameLive == Spec => []CatalogNamesLive
  BY StoreInvariant, PTL DEF StoreInv

\* A completion that has committed its secret finds it in place until it lets the mutex go,
\* unless another user of the catalog took it away: completions for one name, or for names
\* that share a mutex, never come in between.
THEOREM CompletedSecretsStand == Spec => []CompletedSecretStands
<1>1. StoreInv => CompletedSecretStands
  <2> SUFFICES ASSUME StoreInv, NEW c \in Conns, inst[c].pc = "retire", inst[c].cred \notin orphaned
               PROVE  catalog[inst[c].name] = inst[c].cred /\ inst[c].cred \in creds \cup stale
    BY DEF CompletedSecretStands
  <2>1. catalog[inst[c].name] = inst[c].cred
    BY DEF StoreInv, Displaced
  <2>2. inst[c].name \in Names /\ inst[c].cred \in Creds
    BY DEF StoreInv, InstallsNamed, TypeOK
  <2> QED
    BY <2>1, <2>2 DEF StoreInv, CatalogNamesLive
<1> QED
  BY <1>1, StoreInvariant, PTL

\* However completions succeed, fail and race, none leaves a credential behind that no
\* secret names, unless another user of the catalog took the secret away.
THEOREM NothingLeftOver == Spec => []NoLeftover
  BY StoreInvariant, PTL DEF StoreInv

\* Whatever names share a mutex, each is held by the one completion that is replacing a
\* secret under it and by nobody otherwise.
THEOREM MutexesAreHeldByInstalls == Spec => []MutexHeldByInstall
<1>1. StoreInv => MutexHeldByInstall
  <2> SUFFICES ASSUME StoreInv, NEW s \in Stripes
               PROVE  {c \in Conns : Holding(c) /\ Stripe[inst[c].name] = s} = {lock[s]} \ {None}
    BY DEF MutexHeldByInstall
  <2>1. lock[s] \in Conns \cup {None} /\ None \notin Conns
    BY ValuesAssumption DEF StoreInv, TypeOK
  <2>2. \A c \in Conns : lock[s] = c <=> Holding(c) /\ Stripe[inst[c].name] = s
    BY DEF StoreInv, LockInv
  <2> QED
    BY <2>1, <2>2
<1> QED
  BY <1>1, StoreInvariant, PTL

\* A query is refused for a credential that is missing only if no secret names it.
THEOREM RefusalsAreExplained == Spec => []ReauthExplained
  BY StoreInvariant, PTL DEF StoreInv
=============================================================================
