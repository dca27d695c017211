-------------------------------- MODULE Trie --------------------------------
(***************************************************************************)
(* The prefix tree (src/ds/trie/trie.go).  A node is named by the letters   *)
(* on the path to it, and is in the tree when its parent's children say so: *)
(* taking a child out of its parent takes everything below it.  The letters *)
(* are bytes.  Delete unmarks the word and then climbs from its last letter *)
(* to its first, one node at a step.                                       *)
(***************************************************************************)
EXTENDS Integers, Sequences

CONSTANTS
  TrieLetters,   \* bytes
  HighBytes,     \* those from 0x80 on
  TrieInputs,    \* the words Insert and Delete are called with
  TrieValues     \* values

ASSUME TrieAssumption ==
  /\ HighBytes \subseteq TrieLetters
  /\ TrieInputs \subseteq Seq(TrieLetters)

VARIABLES
  trieNodes,   \* the nodes below the root
  trieWord,    \* the values of the nodes that are marked as words
  trieClimb,   \* the node a running Delete looks at, <<>> when none runs
  trieDict     \* the reference: what has been inserted and not deleted since

trieVars == <<trieNodes, trieWord, trieClimb, trieDict>>

\* The nodes on the path to w.
TriePath(w) == {SubSeq(w, 1, i) : i \in 1..Len(w)}

TrieBelow(n, m) == Len(n) <= Len(m) /\ SubSeq(m, 1, Len(n)) = n

TrieWithout(f, S) == [w \in DOMAIN f \ S |-> f[w]]
TrieWith(f, w, v) == [u \in DOMAIN f \cup {w} |-> IF u = w THEN v ELSE f[u]]

TrieNoWords == [w \in {} |-> w]

TrieInit ==
  /\ trieNodes = {}
  /\ trieWord = TrieNoWords /\ trieDict = TrieNoWords
  /\ trieClimb = <<>>

-----------------------------------------------------------------------------
\* Insert makes the nodes that are missing on the way and marks the last one;
\* the empty word is ignored.
TrieInsert(w, v) ==
  /\ trieClimb = <<>> /\ w # <<>>
  /\ trieNodes' = trieNodes \cup TriePath(w)
  /\ trieWord' = TrieWith(trieWord, w, v)
  /\ trieDict' = TrieWith(trieDict, w, v)
  /\ UNCHANGED trieClimb

\* Delete of a word whose nodes are there, marked or not, unmarks the last one.
TrieUnmark(w) ==
  /\ trieClimb = <<>> /\ w # <<>>
  /\ w \in trieNodes
  /\ trieWord' = TrieWithout(trieWord, {w})
  /\ trieDict' = TrieWithout(trieDict, {w})
  /\ trieClimb' = w
  /\ UNCHANGED trieNodes

TrieChildren(n) == {m \in trieNodes : Len(m) = Len(n) + 1 /\ TrieBelow(n, m)}

TrieParent(n) == SubSeq(n, 1, Len(n) - 1)

\* Mutant of TriePrune: a node is dropped although others are below it.
TriePruneBranch ==
  /\ trieClimb # <<>>
  /\ IF trieClimb \notin DOMAIN trieWord
     THEN LET gone == {m \in trieNodes : TrieBelow(trieClimb, m)} IN
            trieNodes' = trieNodes \ gone /\ trieWord' = TrieWithout(trieWord, gone)
     ELSE UNCHANGED <<trieNodes, trieWord>>
  /\ trieClimb' = TrieParent(trieClimb)
  /\ UNCHANGED trieDict

\* A node without children that is not a word is taken out of its parent.
TriePrune ==
  /\ trieClimb # <<>>
  /\ IF TrieChildren(trieClimb) = {} /\ trieClimb \notin DOMAIN trieWord
     THEN LET gone == {m \in trieNodes : TrieBelow(trieClimb, m)} IN
            trieNodes' = trieNodes \ gone /\ trieWord' = TrieWithout(trieWord, gone)
     ELSE UNCHANGED <<trieNodes, trieWord>>
  /\ trieClimb' = TrieParent(trieClimb)
  /\ UNCHANGED trieDict

TrieNext ==
  \/ \E w \in TrieInputs : TrieUnmark(w) \/ \E v \in TrieValues : TrieInsert(w, v)
  \/ TriePrune

TrieSpec == TrieInit /\ [][TrieNext]_trieVars

-----------------------------------------------------------------------------
(* The lookups: GetWord is trieWord itself *)

\* search: the path leads to a node, or is empty.
TrieSearch(p) == p = <<>> \/ p \in trieNodes

\* string(key) is the character of that number: one byte below 0x80, two from
\* there on.
TrieRune(b) == IF b \in HighBytes THEN <<b>> ELSE b

\* addWords spells a word again from the letters on the way down.
TrieSpelling(p, w) == [i \in 1..Len(w) |-> IF i <= Len(p) THEN w[i] ELSE TrieRune(w[i])]

TrieWordsWithPrefix(p) ==
  {[word |-> TrieSpelling(p, w), value |-> trieWord[w]] :
     w \in {u \in DOMAIN trieWord : TrieSearch(p) /\ TrieBelow(p, u)}}

-----------------------------------------------------------------------------
(* Properties *)

TrieReference(p) ==
  {[word |-> w, value |-> trieDict[w]] : w \in {u \in DOMAIN trieDict : TrieBelow(p, u)}}

\* Between calls the tree is the dictionary of what was inserted and not deleted
\* since: it answers every word with its latest value, has no node that leads to
\* no word (ContainsPrefix), whatever words shared their letters when they
\* were deleted, and lists the words below a prefix, as long as they are of
\* bytes below 0x80 (Insert, Delete, WordsWithPrefix).
TrieIsDictionary ==
  trieClimb = <<>> =>
    /\ trieWord = trieDict
    /\ trieNodes = UNION {TriePath(w) : w \in DOMAIN trieDict}
    /\ \A p \in trieNodes \cup {<<>>} :
         (\A u \in DOMAIN trieDict : TrieBelow(p, u) =>
            \A i \in (Len(p) + 1)..Len(u) : u[i] \notin HighBytes)
         => TrieWordsWithPrefix(p) = TrieReference(p)
=============================================================================
