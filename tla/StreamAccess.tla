---------------------------- MODULE StreamAccess ----------------------------
(***************************************************************************)
(* Scoped access to streams (src/stream/stream.go, stream_s2_control.go).   *)
(* A stream's id is its segments joined by colons; an access covers one id  *)
(* or, for a scope, the ids with a prefix that is put together from the     *)
(* scope's fields.  The provider keeps the tokens until they expire or are  *)
(* revoked, and its answers may be lost.                                    *)
(***************************************************************************)
EXTENDS Integers, SequencesExt

CONSTANTS
  AcLetters,     \* the letters of segments, the colon may be one of them
  AcTenants,     \* tenant ids, namespaces and names: sequences of letters
  AcNamespaces,
  AcNames,
  AcRoles,       \* roles that are asked for
  AcExpiries,    \* lifetimes that are asked for, 0 for the default
  AcMinExpiry, AcDefaultExpiry, AcMaxExpiry,
  AcMaxIssued    \* bound: tokens that are asked for

Colon == ":"
Empty == <<>>

ASSUME AccessAssumption ==
  /\ AcTenants \cup AcNamespaces \cup AcNames \subseteq Seq(AcLetters) \ {Empty}
  /\ {AcMinExpiry, AcDefaultExpiry, AcMaxExpiry, AcMaxIssued} \subseteq Nat
  /\ 0 < AcMinExpiry /\ AcMinExpiry <= AcDefaultExpiry /\ AcDefaultExpiry <= AcMaxExpiry

VARIABLES
  acTokens,   \* the provider's live tokens
  acHeld,     \* access ids that were returned to the caller
  acRevoked,  \* history: access ids whose revocation returned nil
  acIssued,   \* ids drawn so far
  acAsked     \* history: acAsked[id] is the request

accessVars == <<acTokens, acHeld, acRevoked, acIssued, acAsked>>

AcStreamOf(tenants, namespaces, names) ==
  [tenant : tenants \cup {Empty}, ns : namespaces, name : names, multi : BOOLEAN]
AcScopes ==
  [tenant : AcTenants \cup {Empty}, ns : AcNamespaces \cup {Empty}, prefix : AcNames \cup {Empty}]

NoTarget == [none |-> TRUE]
AcTargets ==
  [stream : AcStreamOf(AcTenants, AcNamespaces \cup {Empty}, AcNames \cup {Empty}), scope : {NoTarget}]
    \cup [stream : {NoTarget}, scope : AcScopes \cup {NoTarget}]

-----------------------------------------------------------------------------
(* Stream.ID, Validate, normalizeExpiry *)

AcHasID(s) == s.ns # Empty /\ s.name # Empty /\ (s.multi => s.tenant # Empty)

\* Stream.ID.
AcID(s) ==
  (IF s.multi THEN s.tenant \o <<Colon>> ELSE Empty) \o s.ns \o <<Colon>> \o s.name

AcNormalExpiry(d) == IF d = 0 THEN AcDefaultExpiry ELSE d

\* Mutant: a name prefix may stand alone.
AcValidScopeAnyPrefix(s) == s.tenant # Empty \/ s.ns # Empty \/ s.prefix # Empty

\* StreamScope.Validate: no empty scope, and no name prefix without its namespace.
AcValidScope(s) ==
  /\ s.tenant # Empty \/ s.ns # Empty \/ s.prefix # Empty
  /\ s.prefix # Empty => s.ns # Empty

\* StreamAccessRequest.Validate.
AcValid(q) ==
  /\ q.access \in {"read", "write", "readwrite"}
  /\ AcNormalExpiry(q.expiry) \in AcMinExpiry..AcMaxExpiry
  /\ IF q.scope # NoTarget THEN q.stream = NoTarget /\ AcValidScope(q.scope)
     ELSE q.stream # NoTarget /\ AcHasID(q.stream)

-----------------------------------------------------------------------------
(* s2StreamMatcher, s2ScopePrefix, s2OpsForRole *)

\* Mutant: the namespace is not closed by a colon.
AcScopePrefixOpen(s) ==
  (IF s.tenant # Empty THEN s.tenant \o <<Colon>> ELSE Empty) \o s.ns \o s.prefix

AcScopePrefix(s) ==
  (IF s.tenant # Empty THEN s.tenant \o <<Colon>> ELSE Empty)
    \o (IF s.ns # Empty THEN s.ns \o <<Colon>> ELSE Empty) \o s.prefix

AcMatcher(q) ==
  IF q.scope = NoTarget THEN [exact |-> TRUE, text |-> AcID(q.stream)]
  ELSE [exact |-> FALSE, text |-> AcScopePrefix(q.scope)]

\* Mutant: every role may do everything.
AcOpsAny(role) == {"read", "check-tail", "append"}

AcOps(role) ==
  (IF role \in {"read", "readwrite"} THEN {"read", "check-tail"} ELSE {})
    \cup (IF role \in {"write", "readwrite"} THEN {"append"} ELSE {})

\* The provider: whether a token's matcher covers a stream id.
AcCovers(m, id) == IF m.exact THEN id = m.text ELSE IsPrefix(m.text, id)

-----------------------------------------------------------------------------
AccessInit ==
  /\ acTokens = {} /\ acHeld = {} /\ acRevoked = {} /\ acIssued = 0
  /\ acAsked = <<>>

\* CreateStreamAccess with a valid request: a fresh id, and one call to the provider,
\* which may refuse, or issue the token and lose the answer.
AcCreate(q) ==
  /\ acIssued < AcMaxIssued
  /\ AcValid(q)
  /\ acIssued' = acIssued + 1
  /\ acAsked' = Append(acAsked, q)
  /\ \/ /\ acTokens' = acTokens \cup
             {[id |-> acIssued + 1, match |-> AcMatcher(q), ops |-> AcOps(q.access),
               left |-> AcNormalExpiry(q.expiry)]}
        /\ \/ acHeld' = acHeld \cup {acIssued + 1}
           \/ acHeld' = acHeld
     \/ UNCHANGED <<acTokens, acHeld>>
  /\ UNCHANGED acRevoked

\* Mutant: an error of the provider is taken for "not found".
AcDeleteAnyError(id) ==
  /\ id \in acHeld
  /\ \/ acTokens' = {k \in acTokens : k.id # id}
     \/ UNCHANGED acTokens
  /\ acRevoked' = acRevoked \cup {id}
  /\ UNCHANGED <<acHeld, acIssued, acAsked>>

\* DeleteStreamAccess of an id that was returned: nil when the token is revoked, or no
\* longer there; an error when the provider refuses or its answer is lost.
AcDelete(id) ==
  /\ id \in acHeld
  /\ \/ /\ acTokens' = {k \in acTokens : k.id # id}
        /\ acRevoked' \in {acRevoked, acRevoked \cup {id}}
     \/ UNCHANGED <<acTokens, acRevoked>>
  /\ UNCHANGED <<acHeld, acIssued, acAsked>>

\* Time passes at the provider.
AcTick ==
  /\ acTokens # {}
  /\ acTokens' = {[k EXCEPT !.left = @ - 1] : k \in {j \in acTokens : j.left > 1}}
  /\ UNCHANGED <<acHeld, acRevoked, acIssued, acAsked>>

AccessNext ==
  \/ \E t \in AcTargets, role \in AcRoles, d \in AcExpiries :
       AcCreate([stream |-> t.stream, scope |-> t.scope, access |-> role, expiry |-> d])
  \/ \E id \in acHeld : AcDelete(id)
  \/ AcTick

AccessSpec == AccessInit /\ [][AccessNext]_accessVars

-----------------------------------------------------------------------------
(* Properties *)

\* The streams that can exist: each has an id, a global one has no tenant.
AcStreams ==
  {s \in AcStreamOf(AcTenants, AcNamespaces, AcNames) : s.multi <=> s.tenant # Empty}

\* What a request describes: one stream, or the streams whose fields agree with the
\* scope's; a scope without a tenant describes global streams.
AcDescribes(q, s) ==
  IF q.scope = NoTarget
  THEN /\ s.tenant = (IF q.stream.multi THEN q.stream.tenant ELSE Empty)
       /\ s.ns = q.stream.ns /\ s.name = q.stream.name
  ELSE /\ q.scope.tenant = s.tenant
       /\ q.scope.ns \in {Empty, s.ns}
       /\ IsPrefix(q.scope.prefix, s.name)

AcPlain(segment) == \A i \in 1..Len(segment) : segment[i] # Colon

\* Where the code leaves it to the names whether an id can be told from another: it
\* checks no segment for colons, nor whether a tenant is named like a namespace, when
\* either may begin an id.
AcToldApart(q, s) ==
  /\ AcPlain(s.tenant) /\ AcPlain(s.ns) /\ AcPlain(s.name)
  /\ IF q.scope = NoTarget
     THEN AcPlain(q.stream.tenant) /\ AcPlain(q.stream.ns) /\ AcPlain(q.stream.name)
     ELSE /\ AcPlain(q.scope.tenant) /\ AcPlain(q.scope.ns)
          /\ s.tenant = Empty => q.scope.tenant # s.ns
          /\ q.scope.tenant = Empty => q.scope.ns # s.tenant

\* A live token covers the streams its request describes, whatever the names, and none
\* but those of the ids that can be told from them, whatever names begin with each
\* other.  It lets nobody append who did not ask to write, nor read who did not ask to
\* read; it is not one whose revocation succeeded, and it ends no later than asked
\* (s2ScopePrefix, s2OpsForRole, DeleteStreamAccess, normalizeExpiry).
AcGrantsAsAsked ==
  \A k \in acTokens :
    LET q == acAsked[k.id] IN
    /\ \A s \in AcStreams :
         /\ AcDescribes(q, s) => AcCovers(k.match, AcID(s))
         /\ AcCovers(k.match, AcID(s)) /\ AcToldApart(q, s) => AcDescribes(q, s)
    /\ "read" \in k.ops <=> q.access \in {"read", "readwrite"}
    /\ "append" \in k.ops <=> q.access \in {"write", "readwrite"}
    /\ k.id \notin acRevoked
    /\ k.left <= AcNormalExpiry(q.expiry)
=============================================================================
