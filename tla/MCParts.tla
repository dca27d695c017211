------------------------------ MODULE MCParts ------------------------------
(***************************************************************************)
(* The components that keep their own state and share none, side by side:   *)
(* `part' says which of them runs in a behaviour, the others stay as they    *)
(* were.  Their Inits, steps and fairness are the components' own.           *)
(***************************************************************************)
EXTENDS LocalDB, ErrorSink, DockerSandbox, NatsConsumer, CredentialResolver, Spinner,
        MysqlCache, Trie, S3Writer, StreamAccess, InboxTail, TLC

CONSTANTS Old, New, T1, T2, T3, Provider1, Provider2, A, B, H

\* An old binary knows one migration of each list, a new one two.
MCDbKnown == Old :> [s \in DbScope |-> 1] @@ New :> [s \in DbScope |-> 2]

\* Two goroutines of one process, one of another.
MCCrProviderOf == T1 :> Provider1 @@ T2 :> Provider1 @@ T3 :> Provider2

\* A resolver alone, and a chain of two.
MCRsChains == {<<"saveKey">>, <<"saveToken", "saveKey">>}

\* A word, one that continues it, one that leaves it at the last letter, one with a
\* byte from 0x80 on.
MCTrieInputs == {<<>>, <<A>>, <<A, B>>, <<A, B, A>>, <<A, A>>, <<B, H>>}

\* Two tenants, one named like a namespace; two namespaces and two names, one the
\* beginning of the other, and a name with a colon.
MCAcTenants == {<<"t">>, <<"n">>}
MCAcNamespaces == {<<"n">>, <<"n", "s">>}
MCAcNames == {<<"e">>, <<"e", "v">>, <<"e", ":", "v">>}

VARIABLE part

Components == {"localdb", "sink", "sandbox", "nats", "credentials", "spinner", "cache",
               "trie", "s3writer", "access", "tail"}

allVars == <<dbVars, sinkVars, sandboxVars, natsVars, credVars, rsVars, spinVars, cacheVars, trieVars,
             upVars, accessVars, tailVars>>
partsVars == <<part, allVars>>

Init ==
  /\ part \in Components
  /\ DbInit /\ SinkInit /\ SandboxInit /\ NatsInit
  /\ CredInit /\ RsInit /\ SpinInit /\ CacheInit /\ TrieInit
  /\ UpInit /\ AccessInit /\ TailInbox!Init

Next ==
  \/ /\ part = "localdb" /\ DbNext
     /\ UNCHANGED <<part, sinkVars, sandboxVars, natsVars, credVars, rsVars, spinVars,
                    cacheVars, trieVars, upVars, accessVars, tailVars>>
  \/ /\ part = "sink" /\ SinkNext
     /\ UNCHANGED <<part, dbVars, sandboxVars, natsVars, credVars, rsVars, spinVars,
                    cacheVars, trieVars, upVars, accessVars, tailVars>>
  \/ /\ part = "sandbox" /\ SandboxNext
     /\ UNCHANGED <<part, dbVars, sinkVars, natsVars, credVars, rsVars, spinVars,
                    cacheVars, trieVars, upVars, accessVars, tailVars>>
  \/ /\ part = "nats" /\ NatsNext
     /\ UNCHANGED <<part, dbVars, sinkVars, sandboxVars, credVars, rsVars, spinVars,
                    cacheVars, trieVars, upVars, accessVars, tailVars>>
  \/ /\ part = "credentials" /\ RsNext
     /\ UNCHANGED <<part, dbVars, sinkVars, sandboxVars, natsVars, spinVars,
                    cacheVars, trieVars, upVars, accessVars, tailVars>>
  \/ /\ part = "spinner" /\ SpinNext
     /\ UNCHANGED <<part, dbVars, sinkVars, sandboxVars, natsVars, credVars, rsVars,
                    cacheVars, trieVars, upVars, accessVars, tailVars>>
  \/ /\ part = "cache" /\ CacheNext
     /\ UNCHANGED <<part, dbVars, sinkVars, sandboxVars, natsVars, credVars, rsVars,
                    spinVars, trieVars, upVars, accessVars, tailVars>>
  \/ /\ part = "trie" /\ TrieNext
     /\ UNCHANGED <<part, dbVars, sinkVars, sandboxVars, natsVars, credVars, rsVars,
                    spinVars, cacheVars, upVars, accessVars, tailVars>>
  \/ /\ part = "s3writer" /\ UpNext
     /\ UNCHANGED <<part, dbVars, sinkVars, sandboxVars, natsVars, credVars, rsVars,
                    spinVars, cacheVars, trieVars, accessVars, tailVars>>
  \/ /\ part = "access" /\ AccessNext
     /\ UNCHANGED <<part, dbVars, sinkVars, sandboxVars, natsVars, credVars, rsVars,
                    spinVars, cacheVars, trieVars, upVars, tailVars>>
  \/ /\ part = "tail" /\ TailInbox!Next
     /\ UNCHANGED <<part, dbVars, sinkVars, sandboxVars, natsVars, credVars, rsVars,
                    spinVars, cacheVars, trieVars, upVars, accessVars>>

\* Each component's own fairness: one that does not run is as it started and has no
\* step that fairness could ask for.
Fairness == DbFairness /\ SinkFairness /\ SandboxFairness /\ UpFairness

Spec == Init /\ [][Next]_partsVars /\ Fairness

\* Every call of a component comes back: no process waits for ever for the lock or the
\* switch of another one in Store (localdb.go's bounded retry), Handle and Close of the
\* error sink come back although the driver never does, the sandbox's calls come back
\* although the container never runs or its command never ends, and so do Write and
\* Close of an upload that fails.
CallsReturn == DbStoreReturns /\ SinkCallsReturn /\ SbCallsReturn /\ UpCallsReturn
=============================================================================
