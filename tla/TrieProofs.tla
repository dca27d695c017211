----------------------------- MODULE TrieProofs -----------------------------
(***************************************************************************)
(* Proofs about the prefix tree: it is the dictionary of what was inserted. *)
(***************************************************************************)
EXTENDS Trie, TLAPS

-----------------------------------------------------------------------------
(* Prefixes *)

LEMMA Prefix ==
  ASSUME NEW w \in Seq(TrieLetters), NEW i \in 0..Len(w)
  PROVE  /\ SubSeq(w, 1, i) \in Seq(TrieLetters)
         /\ Len(SubSeq(w, 1, i)) = i
         /\ \A k \in 1..i : SubSeq(w, 1, i)[k] = w[k]
  OBVIOUS

LEMMA SameElements ==
  ASSUME NEW u \in Seq(TrieLetters), NEW w \in Seq(TrieLetters), Len(u) = Len(w),
         \A k \in 1..Len(u) : u[k] = w[k]
  PROVE  u = w
  OBVIOUS

\* n is below m when m goes on from n, letter by letter.
LEMMA BelowMeans ==
  ASSUME NEW n \in Seq(TrieLetters), NEW m \in Seq(TrieLetters)
  PROVE  TrieBelow(n, m) <=> Len(n) <= Len(m) /\ \A k \in 1..Len(n) : n[k] = m[k]
<1>1. CASE Len(n) <= Len(m)
  <2>1. Len(n) \in 0..Len(m)
    BY <1>1
  <2>2. /\ SubSeq(m, 1, Len(n)) \in Seq(TrieLetters) /\ Len(SubSeq(m, 1, Len(n))) = Len(n)
        /\ \A k \in 1..Len(n) : SubSeq(m, 1, Len(n))[k] = m[k]
    BY <2>1, Prefix
  <2>3. (\A k \in 1..Len(n) : n[k] = m[k]) => SubSeq(m, 1, Len(n)) = n
    BY <2>2, SameElements
  <2>4. SubSeq(m, 1, Len(n)) = n => \A k \in 1..Len(n) : n[k] = m[k]
    BY <2>2
  <2> QED
    BY <1>1, <2>3, <2>4 DEF TrieBelow
<1>2. CASE ~(Len(n) <= Len(m))
  BY <1>2 DEF TrieBelow
<1> QED
  BY <1>1, <1>2

\* The path to w is its prefixes, without the empty one.
LEMMA PathMeans ==
  ASSUME NEW w \in Seq(TrieLetters), NEW m
  PROVE  m \in TriePath(w) <=> m \in Seq(TrieLetters) /\ m # <<>> /\ TrieBelow(m, w)
<1>1. ASSUME m \in TriePath(w) PROVE m \in Seq(TrieLetters) /\ m # <<>> /\ TrieBelow(m, w)
  <2>1. PICK i \in 1..Len(w) : m = SubSeq(w, 1, i)
    BY <1>1 DEF TriePath
  <2>2. i \in 0..Len(w)
    BY <2>1
  <2>3. m \in Seq(TrieLetters) /\ Len(m) = i
    BY <2>1, <2>2, Prefix
  <2> QED
    BY <2>1, <2>3 DEF TrieBelow
<1>2. ASSUME m \in Seq(TrieLetters), m # <<>>, TrieBelow(m, w) PROVE m \in TriePath(w)
  <2>1. Len(m) \in 1..Len(w) /\ m = SubSeq(w, 1, Len(m))
    BY <1>2 DEF TrieBelow
  <2> QED
    BY <2>1, Zenon DEF TriePath
<1> QED
  BY <1>1, <1>2

LEMMA BelowTrans ==
  ASSUME NEW a \in Seq(TrieLetters), NEW b \in Seq(TrieLetters), NEW c \in Seq(TrieLetters),
         TrieBelow(a, b), TrieBelow(b, c)
  PROVE  TrieBelow(a, c)
<1>1. Len(a) <= Len(b) /\ Len(b) <= Len(c)
  BY DEF TrieBelow
<1>2. \A k \in 1..Len(a) : a[k] = b[k] /\ k \in 1..Len(b)
  BY <1>1, BelowMeans
<1>3. \A k \in 1..Len(b) : b[k] = c[k]
  BY BelowMeans
<1> QED
  BY <1>1, <1>2, <1>3, BelowMeans

\* Between a node and another below it there is a child of the first.
LEMMA ChildBetween ==
  ASSUME NEW n \in Seq(TrieLetters), NEW m \in Seq(TrieLetters), TrieBelow(n, m), n # m
  PROVE  \E c \in TriePath(m) : Len(c) = Len(n) + 1 /\ TrieBelow(n, c)
<1>1. Len(n) <= Len(m) /\ \A k \in 1..Len(n) : n[k] = m[k]
  BY BelowMeans
<1>2. Len(n) # Len(m)
  BY <1>1, SameElements
<1>3. Len(n) + 1 \in 1..Len(m) /\ Len(n) + 1 \in 0..Len(m)
  BY <1>1, <1>2
<1> DEFINE c == SubSeq(m, 1, Len(n) + 1)
<1>4. c \in Seq(TrieLetters) /\ Len(c) = Len(n) + 1 /\ \A k \in 1..(Len(n) + 1) : c[k] = m[k]
  BY <1>3, Prefix
<1>5. c \in TriePath(m)
  BY <1>3 DEF TriePath
<1> HIDE DEF c
<1>6. TrieBelow(n, c)
  <2>1. Len(n) <= Len(c) /\ \A k \in 1..Len(n) : k \in 1..(Len(n) + 1)
    BY <1>4
  <2>2. \A k \in 1..Len(n) : n[k] = c[k]
    BY <1>1, <1>4, <2>1
  <2> QED
    BY <1>4, <2>1, <2>2, BelowMeans
<1> QED
  BY <1>4, <1>5, <1>6

\* The path to a node is the path to its parent and the node.
LEMMA PathOfParent ==
  ASSUME NEW n \in Seq(TrieLetters), n # <<>>
  PROVE  /\ TrieParent(n) \in Seq(TrieLetters)
         /\ TriePath(n) = TriePath(TrieParent(n)) \cup {n}
         /\ n \notin TriePath(TrieParent(n))
<1> DEFINE p == TrieParent(n)
<1>1. Len(n) - 1 \in 0..Len(n)
  OBVIOUS
<1>2. /\ p \in Seq(TrieLetters) /\ Len(p) = Len(n) - 1
      /\ \A k \in 1..(Len(n) - 1) : p[k] = n[k]
  BY <1>1, Prefix DEF TrieParent
<1> HIDE DEF p
<1>3. TrieBelow(p, n)
  BY <1>2, BelowMeans
<1>4. TrieBelow(n, n) /\ ~TrieBelow(n, p)
  BY <1>2, BelowMeans
<1>5. n \in TriePath(n) /\ n \notin TriePath(p)
  BY <1>2, <1>4, PathMeans
<1>6. TriePath(p) \subseteq TriePath(n)
  BY <1>2, <1>3, PathMeans, BelowTrans
<1>7. ASSUME NEW m \in TriePath(n), m # n PROVE m \in TriePath(p)
  <2>1. m \in Seq(TrieLetters) /\ m # <<>> /\ TrieBelow(m, n)
    BY PathMeans
  <2>2. Len(m) <= Len(n) /\ \A k \in 1..Len(m) : m[k] = n[k]
    BY <2>1, BelowMeans
  <2>3. Len(m) # Len(n)
    BY <1>7, <2>1, <2>2, SameElements
  <2>4. Len(m) <= Len(p) /\ \A k \in 1..Len(m) : m[k] = p[k]
    BY <1>2, <2>1, <2>2, <2>3
  <2> QED
    BY <1>2, <2>1, <2>4, BelowMeans, PathMeans
<1> QED
  BY <1>2, <1>5, <1>6, <1>7 DEF p

-----------------------------------------------------------------------------
(* The tree *)

TriePaths(S) == UNION {TriePath(w) : w \in S}

\* At each step the nodes are those on the way to a word or to where Delete has climbed.
TrieInv ==
  /\ trieClimb \in Seq(TrieLetters)
  /\ DOMAIN trieDict \subseteq Seq(TrieLetters) \ {<<>>}
  /\ trieDict = [w \in DOMAIN trieDict |-> trieDict[w]]
  /\ trieWord = trieDict
  /\ trieNodes = TriePaths(DOMAIN trieDict) \cup TriePath(trieClimb)

LEMMA EmptyPath == TriePath(<<>>) = {}
  BY DEF TriePath

LEMMA TrieInvInit == TrieInit => TrieInv
<1> SUFFICES ASSUME TrieInit PROVE TrieInv
  OBVIOUS
<1>1. DOMAIN trieDict = {} /\ trieDict = [w \in DOMAIN trieDict |-> trieDict[w]]
  BY DEF TrieInit, TrieNoWords
<1>2. TriePaths({}) = {}
  BY DEF TriePaths
<1> QED
  BY <1>1, <1>2, EmptyPath DEF TrieInit, TrieInv

\* What is said of a node on some path.
LEMMA OnSomePath ==
  ASSUME TrieInv, NEW m \in trieNodes
  PROVE  /\ m \in Seq(TrieLetters) /\ m # <<>>
         /\ \/ \E w \in DOMAIN trieDict : TrieBelow(m, w)
            \/ TrieBelow(m, trieClimb)
<1>1. CASE m \in TriePath(trieClimb)
  BY <1>1, PathMeans DEF TrieInv
<1>2. CASE m \in TriePaths(DOMAIN trieDict)
  <2>1. PICK w \in DOMAIN trieDict : m \in TriePath(w)
    BY <1>2 DEF TriePaths
  <2> QED
    BY <2>1, PathMeans DEF TrieInv
<1> QED
  BY <1>1, <1>2 DEF TrieInv

LEMMA TrieInsertStep ==
  ASSUME TrieInv, NEW w \in TrieInputs, NEW v, TrieInsert(w, v)
  PROVE  TrieInv'
<1>1. w \in Seq(TrieLetters) /\ w # <<>>
  BY TrieAssumption DEF TrieInsert
<1>2. DOMAIN trieDict' = DOMAIN trieDict \cup {w}
      /\ trieDict' = [u \in DOMAIN trieDict' |-> trieDict'[u]]
      /\ trieWord' = trieDict'
  BY DEF TrieInv, TrieInsert, TrieWith
<1>3. TriePaths(DOMAIN trieDict \cup {w}) = TriePaths(DOMAIN trieDict) \cup TriePath(w)
  BY DEF TriePaths
<1> QED
  BY <1>1, <1>2, <1>3, EmptyPath DEF TrieInv, TrieInsert

LEMMA TrieUnmarkStep ==
  ASSUME TrieInv, NEW w \in TrieInputs, TrieUnmark(w)
  PROVE  TrieInv'
<1>1. w \in Seq(TrieLetters) /\ w # <<>> /\ w \in trieNodes /\ trieClimb = <<>> /\ trieClimb' = w
      /\ trieNodes' = trieNodes
  BY TrieAssumption DEF TrieUnmark
<1>2. /\ DOMAIN trieDict' = DOMAIN trieDict \ {w}
      /\ trieDict' = [u \in DOMAIN trieDict' |-> trieDict'[u]]
      /\ trieWord' = trieDict'
  BY DEF TrieInv, TrieUnmark, TrieWithout
<1>3. trieNodes = TriePaths(DOMAIN trieDict)
  BY <1>1, EmptyPath DEF TrieInv
<1>4. PICK u \in DOMAIN trieDict : w \in TriePath(u)
  BY <1>1, <1>3 DEF TriePaths
<1>5. TriePath(w) \subseteq TriePath(u)
  BY <1>1, <1>4, PathMeans, BelowTrans DEF TrieInv
<1>6. TriePaths(DOMAIN trieDict) = TriePaths(DOMAIN trieDict \ {w}) \cup TriePath(w)
  BY <1>4, <1>5 DEF TriePaths
<1> QED
  BY <1>1, <1>2, <1>3, <1>6 DEF TrieInv

LEMMA TriePruneStep ==
  ASSUME TrieInv, TriePrune
  PROVE  TrieInv'
<1> DEFINE n == trieClimb
<1>1. /\ n \in Seq(TrieLetters) /\ n # <<>> /\ trieClimb' = TrieParent(n)
      /\ trieDict' = trieDict
  BY DEF TrieInv, TriePrune
<1>2. /\ TrieParent(n) \in Seq(TrieLetters)
      /\ TriePath(n) = TriePath(TrieParent(n)) \cup {n}
      /\ n \notin TriePath(TrieParent(n))
  BY <1>1, PathOfParent
<1>3. ASSUME NEW c \in trieNodes, Len(c) = Len(n) + 1
      PROVE  \E w \in DOMAIN trieDict : TrieBelow(c, w)
  BY <1>1, <1>3, OnSomePath DEF TrieBelow
<1>4. CASE TrieChildren(n) = {} /\ n \notin DOMAIN trieWord
  <2> DEFINE gone == {m \in trieNodes : TrieBelow(n, m)}
  <2>1. trieNodes' = trieNodes \ gone /\ trieWord' = TrieWithout(trieWord, gone)
    BY <1>4 DEF TriePrune
  <2>2. ASSUME NEW m \in Seq(TrieLetters), TriePath(m) \subseteq trieNodes, TrieBelow(n, m)
        PROVE  m = n
    <3> SUFFICES ASSUME m # n PROVE FALSE
      OBVIOUS
    <3>1. PICK c \in TriePath(m) : Len(c) = Len(n) + 1 /\ TrieBelow(n, c)
      BY <1>1, <2>2, ChildBetween
    <3> QED
      BY <1>4, <2>2, <3>1 DEF TrieChildren
  <2>3. \A w \in DOMAIN trieDict : w \in Seq(TrieLetters) /\ TriePath(w) \subseteq trieNodes
    BY DEF TrieInv, TriePaths
  <2>4. \A w \in DOMAIN trieDict : ~TrieBelow(n, w)
    BY <1>4, <2>2, <2>3 DEF TrieInv
  <2>5. n \notin TriePaths(DOMAIN trieDict)
    BY <2>3, <2>4, PathMeans DEF TriePaths
  <2>6. gone = {n}
    <3>1. n \in trieNodes /\ TrieBelow(n, n)
      BY <1>1, <1>2, PathMeans DEF TrieInv
    <3>2. ASSUME NEW m \in gone PROVE m = n
      <4>1. m \in Seq(TrieLetters) /\ TrieBelow(n, m)
        BY OnSomePath
      <4>2. \/ \E w \in DOMAIN trieDict : TrieBelow(m, w)
            \/ TrieBelow(m, n)
        BY OnSomePath
      <4>3. ~\E w \in DOMAIN trieDict : TrieBelow(m, w)
        BY <1>1, <2>3, <2>4, <4>1, BelowTrans
      <4>4. Len(m) = Len(n) /\ \A k \in 1..Len(m) : m[k] = n[k]
        BY <1>1, <4>1, <4>2, <4>3, BelowMeans DEF TrieBelow
      <4> QED
        BY <1>1, <4>1, <4>4, SameElements
    <3> QED
      BY <3>1, <3>2
  <2> HIDE DEF gone
  <2>7. trieWord' = trieWord
    BY <1>4, <2>1, <2>6 DEF TrieInv, TrieWithout
  <2>8. trieNodes' = TriePaths(DOMAIN trieDict) \cup TriePath(TrieParent(n))
    BY <1>2, <2>1, <2>5, <2>6 DEF TrieInv
  <2> QED
    BY <1>1, <1>2, <2>7, <2>8 DEF TrieInv
<1>5. CASE ~(TrieChildren(n) = {} /\ n \notin DOMAIN trieWord)
  <2>1. UNCHANGED <<trieNodes, trieWord>>
    BY <1>5 DEF TriePrune
  <2>2. n \in TriePaths(DOMAIN trieDict)
    <3>1. CASE n \in DOMAIN trieWord
      <4>1. n \in DOMAIN trieDict /\ n \in TriePath(n)
        BY <1>2, <3>1 DEF TrieInv
      <4> QED
        BY <4>1 DEF TriePaths
    <3>2. CASE TrieChildren(n) # {}
      <4>1. PICK c \in trieNodes : Len(c) = Len(n) + 1 /\ TrieBelow(n, c)
        BY <3>2 DEF TrieChildren
      <4>2. PICK w \in DOMAIN trieDict : TrieBelow(c, w)
        BY <1>3, <4>1
      <4>3. c \in Seq(TrieLetters) /\ w \in Seq(TrieLetters)
        BY <4>1, OnSomePath DEF TrieInv
      <4>4. n \in TriePath(w)
        BY <1>1, <4>1, <4>2, <4>3, BelowTrans, PathMeans
      <4> QED
        BY <4>4 DEF TriePaths
    <3> QED
      BY <1>5, <3>1, <3>2
  <2> QED
    BY <1>1, <1>2, <2>1, <2>2 DEF TrieInv
<1> QED
  BY <1>4, <1>5

LEMMA TrieInvStep == TrieInv /\ [TrieNext]_trieVars => TrieInv'
<1> SUFFICES ASSUME TrieInv, [TrieNext]_trieVars PROVE TrieInv'
  OBVIOUS
<1>1. CASE TrieNext
  BY <1>1, TrieInsertStep, TrieUnmarkStep, TriePruneStep DEF TrieNext
<1>2. CASE UNCHANGED trieVars
  BY <1>2 DEF TrieInv, trieVars
<1> QED
  BY <1>1, <1>2

\* A word without high bytes after the prefix is spelled as it was inserted.
LEMMA Spelled ==
  ASSUME NEW p \in Seq(TrieLetters), NEW u \in Seq(TrieLetters),
         \A i \in (Len(p) + 1)..Len(u) : u[i] \notin HighBytes
  PROVE  TrieSpelling(p, u) = u
<1>1. \A i \in 1..Len(u) : (IF i <= Len(p) THEN u[i] ELSE TrieRune(u[i])) = u[i]
  BY DEF TrieRune
<1>2. TrieSpelling(p, u) = [i \in 1..Len(u) |-> u[i]]
  BY <1>1 DEF TrieSpelling
<1> QED
  BY <1>2

LEMMA TrieInvDictionary == TrieInv => TrieIsDictionary
<1> SUFFICES ASSUME TrieInv, trieClimb = <<>> PROVE
      /\ trieWord = trieDict
      /\ trieNodes = UNION {TriePath(w) : w \in DOMAIN trieDict}
      /\ \A p \in trieNodes \cup {<<>>} :
           (\A u \in DOMAIN trieDict : TrieBelow(p, u) =>
              \A i \in (Len(p) + 1)..Len(u) : u[i] \notin HighBytes)
           => TrieWordsWithPrefix(p) = TrieReference(p)
  BY DEF TrieIsDictionary
<1>1. trieWord = trieDict /\ trieNodes = UNION {TriePath(w) : w \in DOMAIN trieDict}
  BY EmptyPath DEF TrieInv, TriePaths
<1>2. ASSUME NEW p \in trieNodes \cup {<<>>},
             \A u \in DOMAIN trieDict : TrieBelow(p, u) =>
               \A i \in (Len(p) + 1)..Len(u) : u[i] \notin HighBytes
      PROVE  TrieWordsWithPrefix(p) = TrieReference(p)
  <2>1. p \in Seq(TrieLetters) /\ TrieSearch(p)
    <3>1. CASE p = <<>>
      <4>1. <<>> \in Seq(TrieLetters)
        OBVIOUS
      <4> QED
        BY <3>1, <4>1 DEF TrieSearch
    <3>2. CASE p \in trieNodes
      BY <3>2, OnSomePath DEF TrieSearch
    <3> QED
      BY <3>1, <3>2
  <2>2. \A u \in DOMAIN trieDict : TrieBelow(p, u) => TrieSpelling(p, u) = u
    BY <1>2, <2>1, Spelled DEF TrieInv
  <2> QED
    BY <1>1, <2>1, <2>2 DEF TrieWordsWithPrefix, TrieReference
<1> QED
  BY <1>1, <1>2

\* For any letters, words and values: between calls the tree answers every word with its
\* latest value, has no node that leads to no word, and lists the words below a prefix
\* when they have no bytes from 0x80 on (Insert, Delete, GetWord, WordsWithPrefix).
THEOREM TreeIsDictionary == TrieSpec => []TrieIsDictionary
<1>1. TrieSpec => []TrieInv
  BY TrieInvInit, TrieInvStep, PTL DEF TrieSpec
<1> QED
  BY <1>1, TrieInvDictionary, PTL

=============================================================================
