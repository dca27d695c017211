------------------------- MODULE CredentialResolver -------------------------
(***************************************************************************)
(* Reading cloud credentials back (src/cloud/keychain_resolver.go and the   *)
(* chain of resolver.go) beside the calls that save and clear them: Resolve *)
(* reads the secrets of a credential one Get after another.                 *)
(***************************************************************************)
EXTENDS CredentialStore

CONSTANTS
  RsProvider,  \* the provider it reads through
  RsChains     \* sequences of resolvers, each named for the call that saves its type

ASSUME ResolverAssumption ==
  /\ RsProvider \in CrProviders
  /\ \A ch \in RsChains : ch # <<>> /\ ch \in Seq(CrTypes)

VARIABLES
  rsPc,      \* "idle", "reading", "ok" or "none": what Resolve returned
  rsChain,   \* the chain
  rsAt,      \* which of its resolvers reads
  rsRead,    \* the secrets it has read
  rsFailed,  \* history: a Get has failed
  rsAlone    \* history: no save or clear has run beside Resolve or since

rsVars == <<rsPc, rsChain, rsAt, rsRead, rsFailed, rsAlone>>

RsInit ==
  /\ rsPc = "idle" /\ rsChain = <<>> /\ rsAt = 1 /\ rsRead = <<>>
  /\ rsFailed = FALSE /\ rsAlone = FALSE

\* resolveAPIKey, resolveToken.
RsOrder(type) ==
  IF type = "saveKey" THEN <<"api_key", "tenant_domain">>
  ELSE <<"token", "refresh_token", "tenant_domain">>

RsType == rsChain[rsAt]
RsField == RsOrder(RsType)[Len(rsRead) + 1]

RsBegin ==
  /\ rsPc = "idle"
  /\ rsPc' = "reading"
  /\ rsChain' \in RsChains
  /\ rsAlone' = (CrRunning(CrThreads) = {})
  /\ UNCHANGED <<rsAt, rsRead, rsFailed>>

\* The resolver has the secret, or goes without it; the last one makes the credential.
RsHas(v) ==
  /\ rsRead' = Append(rsRead, v)
  /\ rsPc' = IF Len(rsRead') = Len(RsOrder(RsType)) THEN "ok" ELSE "reading"
  /\ UNCHANGED <<rsChain, rsAt>>

\* The resolver returns an error: the chain tries the next.
RsNextResolver ==
  /\ rsRead' = <<>>
  /\ IF rsAt < Len(rsChain) THEN rsAt' = rsAt + 1 /\ UNCHANGED rsPc
     ELSE rsPc' = "none" /\ UNCHANGED rsAt
  /\ UNCHANGED rsChain

\* Get under the provider's read lock; the file is replaced in one step.  Only the
\* refresh token may be missing.
RsGet ==
  /\ rsPc = "reading"
  /\ \A u \in crMutex : CrProviderOf[u] # RsProvider
  /\ IF crFile[RsField] = NoSecret /\ RsField # "refresh_token"
     THEN RsNextResolver ELSE RsHas(crFile[RsField])
  /\ UNCHANGED <<rsFailed, rsAlone>>

\* Mutant: any error of the refresh token's Get is taken for a missing one.
RsGetFailsQuietly ==
  /\ rsPc = "reading"
  /\ rsFailed' = TRUE
  /\ IF RsField = "refresh_token" THEN RsHas(NoSecret) ELSE RsNextResolver
  /\ UNCHANGED rsAlone

RsGetFails ==
  /\ rsPc = "reading"
  /\ rsFailed' = TRUE
  /\ RsNextResolver
  /\ UNCHANGED rsAlone

\* A save or a clear, beside Resolve or before or after it.
RsCredStep ==
  /\ CredNext
  /\ rsAlone' = FALSE
  /\ UNCHANGED <<rsPc, rsChain, rsAt, rsRead, rsFailed>>

RsNext == RsCredStep \/ ((RsBegin \/ RsGet \/ RsGetFails) /\ UNCHANGED credVars)

RsSpec == RsInit /\ CredInit /\ [][RsNext]_<<credVars, rsVars>>

-----------------------------------------------------------------------------
(* Properties *)

\* While nothing is saved or cleared beside it, Resolve returns, over failed reads and
\* through the chain, the secrets of one save: the last of the type it answers with, if
\* that ran alone and returned nil.  With them comes the tenant of the profile, the one
\* that was saved last with either type.  It finds the first of the chain's types that is
\* saved unless a read fails, and nothing after Clear (keychain_resolver.go's separate
\* Gets, resolver.go's fall-through).
RsResolvedWhole ==
  rsAlone =>
    /\ rsPc = "ok" /\ crSaved[RsType] > 0 =>
         \A i \in 1..(Len(rsRead) - 1) : rsRead[i] = crSaved[RsType]
    /\ rsPc = "ok" /\ ~crTorn /\ crDone.n > 0 =>
         crDone.call # "clear" /\ rsRead[Len(rsRead)] = crDone.n
    /\ rsPc = "ok" /\ ~rsFailed => \A i \in 1..(rsAt - 1) : crSaved[rsChain[i]] = 0
    /\ rsPc = "none" /\ ~rsFailed => \A i \in DOMAIN rsChain : crSaved[rsChain[i]] = 0
=============================================================================
