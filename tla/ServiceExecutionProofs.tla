----------------------- MODULE ServiceExecutionProofs -----------------------
(***************************************************************************)
(* Proofs about the executions of services.  In four layers: what the tree *)
(* of executions and a thread's list are like; what the steps of threads   *)
(* have in common (CoreStep, EndStep) and why that keeps the invariants;   *)
(* what each step leaves to do, and that it is such a step; the theorems.  *)
(*                                                                         *)
(* CoreInv says who is where: one thread at the most starts an execution,  *)
(* or hands it over; below one that is pending nothing has started; a      *)
(* sequence is at one place at a time; what a look at the children saw is  *)
(* still so, and what it saw pending nobody has touched.  EndInv says what *)
(* of a parent's children when its end is about to be stored.              *)
(*                                                                         *)
(* The types hold in every case.  The rest is for clients that DELETE what *)
(* POST /services gave them, the uppermost execution: then no cancelled    *)
(* child is told to its parent (ToldInv).                                  *)
(***************************************************************************)
EXTENDS ServiceExecution, SeqFacts

(* The tree of the executions *)

KidsOf(p) == Range(Kids[p])
Below(e)  == Under[e] \ {e}

\* What the assumption on the tree says, in the form the proofs use
LEMMA Tree ==
  /\ Root \in Exec /\ Creator \in Thread /\ Loop \in Thread /\ Parents \subseteq Exec /\ Leaves \subseteq Exec
  /\ \A e \in Exec : (e \in Parents <=> e \notin Leaves) /\ (Simple(e) <=> e \in Leaves)
  /\ \A p \in Exec : Kids[p] \in Seq(Exec) /\ KidsOf(p) \subseteq Exec
  /\ \A p \in Exec : \A i \in DOMAIN Kids[p] : Kids[p][i] \in KidsOf(p)
  /\ \A p \in Exec : \A k \in KidsOf(p) : \E i \in DOMAIN Kids[p] : k = Kids[p][i]
  /\ \A p \in Exec : KidsOf(p) # {} => p \in Parents
  /\ \A p \in Parents : Kids[p] # <<>> /\ 1 \in DOMAIN Kids[p] /\ Len(Kids[p]) \in Nat /\ Len(Kids[p]) > 0
  /\ \A p \in Exec : \A i, j \in DOMAIN Kids[p] : Kids[p][i] = Kids[p][j] => i = j
  /\ \A p, q \in Exec : \A k \in KidsOf(p) : k \in KidsOf(q) => p = q
  /\ \A p \in Exec : Root \notin KidsOf(p)
<1>1. Kids \in [Exec -> Seq(Exec)]
  BY TreeAssumption
<1>2. \A p \in Exec : Kids[p] \in Seq(Exec)
  BY <1>1
<1>3. \A p \in Exec : KidsOf(p) \subseteq Exec
  BY <1>2 DEF KidsOf, Range
<1>4. \A p \in Exec : \A k \in KidsOf(p) : \E i \in DOMAIN Kids[p] : k = Kids[p][i]
  BY DEF KidsOf, Range
<1>5. \A p \in Exec : \A i \in DOMAIN Kids[p] : Kids[p][i] \in KidsOf(p)
  BY DEF KidsOf, Range
<1>6. \A p \in Exec : KidsOf(p) # {} => p \in Parents
  BY <1>2, <1>4 DEF Parents
<1>7. \A p \in Parents : Kids[p] # <<>> /\ 1 \in DOMAIN Kids[p] /\ Len(Kids[p]) \in Nat /\ Len(Kids[p]) > 0
  BY <1>2 DEF Parents
<1>8. \A p, q \in Exec : \A i \in DOMAIN Kids[p], j \in DOMAIN Kids[q] : Kids[p][i] = Kids[q][j] => p = q /\ i = j
  BY TreeAssumption
<1>9. \A p \in Exec : Root \notin KidsOf(p)
  BY TreeAssumption DEF KidsOf
<1>10. /\ Root \in Exec /\ Creator \in Thread /\ Loop \in Thread /\ Parents \subseteq Exec /\ Leaves \subseteq Exec
       /\ \A e \in Exec : (e \in Parents <=> e \notin Leaves) /\ (Simple(e) <=> e \in Leaves)
  BY TreeAssumption DEF Parents, Leaves, Simple
<1> QED
  BY <1>2, <1>3, <1>4, <1>5, <1>6, <1>7, <1>8, <1>9, <1>10

\* The parent a child's end is told to
LEMMA TheParent ==
  ASSUME NEW p \in Exec, NEW k \in KidsOf(p)
  PROVE  ParentOf(k) = p
<1>1. p \in Parents /\ k \in Range(Kids[p])
  BY Tree DEF KidsOf
<1>2. \A q \in Parents : k \in Range(Kids[q]) => q = p
  BY Tree DEF KidsOf
<1> QED
  BY <1>1, <1>2 DEF ParentOf

LEMMA HasParent ==
  ASSUME NEW k \in Exec, k # Root
  PROVE  ParentOf(k) \in Parents /\ k \in KidsOf(ParentOf(k))
<1>1. PICK p \in Exec : k \in Range(Kids[p])
  BY TreeAssumption
<1>2. k \in KidsOf(p) /\ p \in Parents
  BY <1>1, Tree DEF KidsOf
<1> QED
  BY <1>2, TheParent, Tree

\* What is below an execution: itself, with each its children, and all below those
LEMMA Unders ==
  ASSUME NEW e \in Exec
  PROVE  /\ e \in Under[e] /\ Under[e] \subseteq Exec
         /\ \A p \in Under[e] : KidsOf(p) \subseteq Under[e]
         /\ \A p \in Under[e] : Under[p] \subseteq Under[e]
<1>1. \A x \in Exec : Under[x] = {d \in Exec : \A S \in SUBSET Exec : x \in S /\ Closed(S) => d \in S}
  BY DEF Under
<1>2. \A x \in Exec : Under[x] \subseteq Exec
  BY <1>1
<1>3. \A x \in Exec : \A p \in Under[x] : KidsOf(p) \subseteq Under[x]
  <2> SUFFICES ASSUME NEW x \in Exec, NEW p \in Under[x], NEW k \in KidsOf(p)
               PROVE  k \in Under[x]
    OBVIOUS
  <2>1. p \in Exec /\ k \in Exec
    BY <1>2, Tree
  <2>2. ASSUME NEW S \in SUBSET Exec, x \in S, Closed(S)
        PROVE  k \in S
    <3>1. p \in S
      BY <2>2, <1>1
    <3> QED
      BY <3>1, <2>2 DEF Closed, KidsOf
  <2> QED
    BY <1>1, <2>1, <2>2
<1>4. \A x \in Exec : Closed(Under[x])
  BY <1>3 DEF Closed, KidsOf
<1>5. ASSUME NEW p \in Under[e]
      PROVE  Under[p] \subseteq Under[e]
  <2>1. p \in Exec
    BY <1>2
  <2> QED
    BY <1>1, <1>2, <1>4, <2>1
<1> QED
  BY <1>1, <1>2, <1>3, <1>5

\* All but the uppermost of them are children of one of them
LEMMA UnderParent ==
  ASSUME NEW e \in Exec, NEW d \in Below(e), NEW p \in Exec, d \in KidsOf(p)
  PROVE  p \in Under[e]
<1>1. \A x \in Exec : Under[x] = {y \in Exec : \A S \in SUBSET Exec : x \in S /\ Closed(S) => y \in S}
  BY DEF Under
<1> DEFINE S == {e} \cup {y \in Under[e] : \E q \in Under[e] : y \in KidsOf(q)}
<1>2. S \in SUBSET Exec /\ e \in S /\ S \subseteq Under[e]
  BY Unders
<1>3. Closed(S)
  BY <1>2, Unders DEF Closed, KidsOf
<1>4. d \in S
  BY <1>1, <1>2, <1>3 DEF Below
<1>5. \E q \in Under[e] : d \in KidsOf(q)
  BY <1>4 DEF Below
<1> QED
  BY <1>5, Tree, Unders

\* No execution is below itself
LEMMA NoCycle ==
  ASSUME NEW p \in Exec, NEW k \in KidsOf(p)
  PROVE  p \notin Under[k]
<1> DEFINE S == {x \in Exec : \A q \in Exec : x \in KidsOf(q) => q \notin Under[x]}
           G == {x \in Exec : \A d \in KidsOf(x) : x \notin Under[d]}
<1>1. Root \in G
  <2> SUFFICES ASSUME NEW d \in KidsOf(Root), Root \in Under[d]
               PROVE  FALSE
    BY Tree
  <2>1. d \in Exec /\ d # Root /\ Root \in Below(d)
    BY Tree DEF Below
  <2>2. \A x \in Exec : Under[x] = {y \in Exec : \A Z \in SUBSET Exec : x \in Z /\ Closed(Z) => y \in Z}
    BY DEF Under
  <2> DEFINE Z == Exec \ {Root}
  <2>3. Z \in SUBSET Exec /\ d \in Z /\ Closed(Z)
    BY <2>1, Tree DEF Closed, KidsOf
  <2>4. Root \in Z
    BY <2>1, <2>2, <2>3 DEF Below
  <2> QED
    BY <2>4
<1>2. Closed(G)
  <2> SUFFICES ASSUME NEW x \in G, NEW c \in KidsOf(x), NEW d \in KidsOf(c), c \in Under[d]
               PROVE  FALSE
    BY Tree DEF Closed, KidsOf
  <2>1. x \in Exec /\ c \in Exec /\ d \in Exec
    BY Tree
  <2>2. x \notin Under[c]
    OBVIOUS
  <2>3. d \in Under[c]
    BY <2>1, Unders
  <2>4. Under[d] \subseteq Under[c]
    BY <2>1, <2>3, Unders
  <2>5. CASE c = d
    <3>1. x = c
      BY <2>1, <2>5, Tree
    <3> QED
      BY <3>1, <2>1, <2>2, Unders
  <2>6. CASE c # d
    <3>1. c \in Below(d)
      BY <2>6 DEF Below
    <3>2. x \in Under[d]
      BY <3>1, <2>1, UnderParent
    <3> QED
      BY <3>2, <2>4, <2>2
  <2> QED
    BY <2>5, <2>6
<1>3. G \in SUBSET Exec
  OBVIOUS
<1>4. Under[Root] = {y \in Exec : \A Z \in SUBSET Exec : Root \in Z /\ Closed(Z) => y \in Z}
  BY Tree DEF Under
<1>5. Under[Root] = Exec
  BY TreeAssumption
<1>6. p \in G
  BY <1>1, <1>2, <1>3, <1>4, <1>5
<1> QED
  BY <1>6

-----------------------------------------------------------------------------
(* What a thread has still to do *)

EntryT == [at : Place, e : Exec, copy : Record, saw : Seq(Status), all : BOOLEAN]
Lists  == [Thread -> Seq(EntryT)]

\* No entry of a kind, on no thread; one at the most
NoneIn(L, T) == \A t \in Thread : \A i \in DOMAIN L[t] : L[t][i] \notin T
OnceIn(L, T) == \A t, u \in Thread : \A i \in DOMAIN L[t], j \in DOMAIN L[u] :
                  L[t][i] \in T /\ L[u][j] \in T => t = u /\ i = j

\* The innermost call of a thread is of a kind
Top(L, t, T) == L[t] # <<>> /\ L[t][1] \in T

\* The same entry, or that of a cancelTree that could not cancel all
LikeEntry(y, z) == y = z \/ (z.at = "cancelEnd" /\ y = [z EXCEPT !.all = FALSE])
Like(r, s) == Len(r) = Len(s) /\ \A i \in DOMAIN s : LikeEntry(r[i], s[i])

Behind(s) == IF s = <<>> THEN <<>> ELSE Tail(s)

\* A step of a thread: its innermost call is replaced by others
Moves(L, M, t, calls, rest) ==
  /\ calls \in Seq(EntryT) /\ rest \in Seq(EntryT)
  /\ Like(rest, Behind(L[t]))
  /\ M = [L EXCEPT ![t] = calls \o rest]

\* Where each entry comes from
LEMMA MovesAt ==
  ASSUME NEW L \in Lists, NEW M, NEW t \in Thread, NEW calls, NEW rest, Moves(L, M, t, calls, rest)
  PROVE  /\ M \in Lists
         /\ Len(calls) \in Nat /\ DOMAIN calls = 1..Len(calls)
         /\ \A u \in Thread : u # t => M[u] = L[u]
         /\ \A i \in DOMAIN calls : i \in DOMAIN M[t] /\ M[t][i] = calls[i] /\ calls[i] \in EntryT
         /\ \A j \in DOMAIN M[t] : j \in Nat /\ j > 0 /\ (j <= Len(calls) => j \in DOMAIN calls /\ M[t][j] = calls[j])
         /\ \A j \in DOMAIN M[t] : j > Len(calls) =>
              /\ L[t] # <<>> /\ j - Len(calls) + 1 \in DOMAIN L[t] /\ j - Len(calls) + 1 > 1
              /\ LikeEntry(M[t][j], L[t][j - Len(calls) + 1])
         /\ \A i \in DOMAIN L[t] : i \in Nat /\ i > 0 /\ (i > 1 =>
              i - 1 + Len(calls) \in DOMAIN M[t] /\ LikeEntry(M[t][i - 1 + Len(calls)], L[t][i]))
<1>1. L[t] \in Seq(EntryT) /\ calls \in Seq(EntryT) /\ rest \in Seq(EntryT)
  BY DEF Moves, Lists
<1>2. PICK m \in Nat : m = Len(calls)
  BY <1>1, LenProperties
<1>3. PICK n \in Nat : n = Len(rest)
  BY <1>1, LenProperties
<1>4. PICK l \in Nat : l = Len(L[t])
  BY <1>1, LenProperties
<1>5. DOMAIN calls = 1..m /\ DOMAIN rest = 1..n /\ DOMAIN L[t] = 1..l
  BY <1>1, <1>2, <1>3, <1>4, LenProperties
<1> DEFINE c == calls \o rest
<1>6. c \in Seq(EntryT) /\ Len(c) = m + n /\ \A i \in 1..(m + n) : c[i] = IF i <= m THEN calls[i] ELSE rest[i - m]
  BY <1>1, <1>2, <1>3, ConcatProperties
<1>7. DOMAIN c = 1..(m + n)
  BY <1>6, LenProperties
<1>8. M = [L EXCEPT ![t] = c] /\ Like(rest, Behind(L[t]))
  BY DEF Moves
<1> HIDE DEF c
<1>9. M \in Lists /\ M[t] = c /\ \A u \in Thread : u # t => M[u] = L[u]
  BY <1>6, <1>8 DEF Lists
<1>10. L[t] = <<>> => n = 0
  BY <1>3, <1>8 DEF Behind, Like
<1>11. L[t] # <<>> => n = l - 1 /\ l > 0 /\ \A i \in 1..n : LikeEntry(rest[i], L[t][i + 1])
  <2> SUFFICES ASSUME L[t] # <<>>
               PROVE  n = l - 1 /\ l > 0 /\ \A i \in 1..n : LikeEntry(rest[i], L[t][i + 1])
    OBVIOUS
  <2> DEFINE b == Tail(L[t])
  <2>1. b \in Seq(EntryT) /\ Len(b) = l - 1 /\ \A i \in 1..(l - 1) : b[i] = L[t][i + 1]
    BY <1>1, <1>4, HeadTailProperties
  <2>2. l > 0
    BY <1>1, <1>4, EmptySeq
  <2>3. DOMAIN b = 1..(l - 1)
    BY <2>1, <2>2, LenProperties
  <2>4. Like(rest, b)
    BY <1>8 DEF Behind
  <2> HIDE DEF b
  <2> QED
    BY <2>1, <2>2, <2>3, <2>4, <1>3, <1>5 DEF Like
<1>12. ASSUME NEW j \in DOMAIN M[t], j > m
       PROVE  /\ L[t] # <<>> /\ j - m + 1 \in DOMAIN L[t] /\ j - m + 1 > 1
              /\ LikeEntry(M[t][j], L[t][j - m + 1])
  <2>1. j \in 1..(m + n) /\ j - m \in 1..n
    BY <1>7, <1>9, <1>12
  <2>2. L[t] # <<>>
    BY <2>1, <1>10
  <2>3. M[t][j] = rest[j - m]
    BY <2>1, <1>6, <1>9, <1>12
  <2>4. LikeEntry(rest[j - m], L[t][(j - m) + 1])
    BY <2>1, <2>2, <1>11
  <2>5. j - m + 1 \in DOMAIN L[t] /\ j - m + 1 > 1
    BY <2>1, <2>2, <1>5, <1>11
  <2> QED
    BY <2>2, <2>3, <2>4, <2>5
<1>13. ASSUME NEW i \in DOMAIN L[t], i > 1
       PROVE  i - 1 + m \in DOMAIN M[t] /\ LikeEntry(M[t][i - 1 + m], L[t][i])
  <2>1. L[t] # <<>>
    BY <1>13, <1>5, <1>4, EmptySeq
  <2>2. i \in 1..l /\ i - 1 \in 1..n
    BY <1>5, <1>11, <1>13, <2>1
  <2>3. i - 1 + m \in 1..(m + n) /\ ~(i - 1 + m <= m) /\ (i - 1 + m) - m = i - 1
    BY <2>2
  <2>4. M[t][i - 1 + m] = rest[i - 1]
    BY <2>3, <1>6, <1>9
  <2>5. LikeEntry(rest[i - 1], L[t][(i - 1) + 1])
    BY <2>1, <2>2, <1>11
  <2>6. (i - 1) + 1 = i
    BY <2>2
  <2> QED
    BY <2>3, <2>4, <2>5, <2>6, <1>7, <1>9
<1> QED
  BY <1>2, <1>5, <1>6, <1>7, <1>9, <1>12, <1>13

\* Kinds of entries none of which is a cancelTree's end
Kind(T) == \A z \in EntryT : z.at = "cancelEnd" => z \notin T /\ [z EXCEPT !.all = FALSE] \notin T

\* What a step leaves of a kind: none if there was none and none comes; one at the most; none if the
\* one there was is the innermost call
LEMMA MovesKind ==
  ASSUME NEW L \in Lists, NEW M, NEW t \in Thread, NEW calls, NEW rest, Moves(L, M, t, calls, rest),
         NEW T, Kind(T)
  PROVE  /\ NoneIn(L, T) /\ (\A i \in DOMAIN calls : calls[i] \notin T) => NoneIn(M, T)
         /\ OnceIn(L, T) /\ (\A i \in DOMAIN calls : calls[i] \notin T) => OnceIn(M, T)
         /\ OnceIn(L, T) /\ Top(L, t, T) /\ (\A i \in DOMAIN calls : calls[i] \notin T) => NoneIn(M, T)
         /\ /\ OnceIn(L, T) /\ (NoneIn(L, T) \/ Top(L, t, T))
            /\ \A i, j \in DOMAIN calls : calls[i] \in T /\ calls[j] \in T => i = j
            => OnceIn(M, T)
<1>1. \A u \in Thread : L[u] \in Seq(EntryT)
  BY DEF Lists
<1>2. PICK m \in Nat : m = Len(calls)
  BY MovesAt
<1> DEFINE From(u, j) == IF u = t THEN j - m + 1 ELSE j
<1>3. /\ \A i \in DOMAIN calls : i \in DOMAIN M[t] /\ M[t][i] = calls[i]
      /\ \A j \in DOMAIN M[t] : j \in Nat /\ j > 0 /\ (j <= m => j \in DOMAIN calls /\ M[t][j] = calls[j])
      /\ \A j \in DOMAIN M[t] : j > m =>
           j - m + 1 \in DOMAIN L[t] /\ j - m + 1 > 1 /\ LikeEntry(M[t][j], L[t][j - m + 1])
      /\ \A u \in Thread : u # t => M[u] = L[u]
      /\ DOMAIN calls = 1..m
  BY <1>2, MovesAt
<1>4. \A y : \A z \in EntryT : LikeEntry(y, z) /\ y \in T => z \in T
  BY DEF LikeEntry, Kind
<1>5. \A u \in Thread : \A i \in DOMAIN L[u] : L[u][i] \in EntryT
  BY <1>1
\* Each of the kind is new or was there, further in
<1>6. ASSUME NEW u \in Thread, NEW j \in DOMAIN M[u], M[u][j] \in T
      PROVE  \/ u = t /\ j \in DOMAIN calls /\ calls[j] \in T
             \/ From(u, j) \in DOMAIN L[u] /\ L[u][From(u, j)] \in T /\ (u = t => From(u, j) > 1 /\ j > m)
  BY <1>3, <1>4, <1>5, <1>6
<1>7. ASSUME NEW u \in Thread, NEW i \in DOMAIN M[u], NEW v \in Thread, NEW j \in DOMAIN M[v],
             u = v, From(u, i) = From(v, j), u = t => i > m /\ j > m
      PROVE  i = j
  BY <1>3, <1>7
<1>8. 1 \in DOMAIN L[t] \/ L[t] = <<>>
  BY <1>1, EmptySeq, LenProperties
<1>9. ASSUME NoneIn(L, T), \A i \in DOMAIN calls : calls[i] \notin T
      PROVE  NoneIn(M, T)
  BY <1>6, <1>9 DEF NoneIn
<1>10. ASSUME OnceIn(L, T), \A i \in DOMAIN calls : calls[i] \notin T
       PROVE  OnceIn(M, T)
  <2> SUFFICES ASSUME NEW u \in Thread, NEW v \in Thread, NEW i \in DOMAIN M[u], NEW j \in DOMAIN M[v],
                      M[u][i] \in T, M[v][j] \in T
               PROVE  u = v /\ i = j
    BY DEF OnceIn
  <2>1. From(u, i) \in DOMAIN L[u] /\ L[u][From(u, i)] \in T /\ (u = t => i > m)
    BY <1>6, <1>10
  <2>2. From(v, j) \in DOMAIN L[v] /\ L[v][From(v, j)] \in T /\ (v = t => j > m)
    BY <1>6, <1>10
  <2>3. u = v /\ From(u, i) = From(v, j)
    BY <2>1, <2>2, <1>10 DEF OnceIn
  <2> QED
    BY <2>1, <2>2, <2>3, <1>7
<1>11. ASSUME OnceIn(L, T), Top(L, t, T), \A i \in DOMAIN calls : calls[i] \notin T
       PROVE  NoneIn(M, T)
  <2> SUFFICES ASSUME NEW u \in Thread, NEW j \in DOMAIN M[u], M[u][j] \in T
               PROVE  FALSE
    BY DEF NoneIn
  <2>1. From(u, j) \in DOMAIN L[u] /\ L[u][From(u, j)] \in T /\ (u = t => From(u, j) > 1)
    BY <1>6, <1>11
  <2>2. 1 \in DOMAIN L[t] /\ L[t][1] \in T
    BY <1>8, <1>11 DEF Top
  <2>3. u = t /\ From(u, j) = 1
    BY <2>1, <2>2, <1>11 DEF OnceIn
  <2> QED
    BY <2>1, <2>3
<1>12. ASSUME OnceIn(L, T), NoneIn(L, T) \/ Top(L, t, T),
              \A i, j \in DOMAIN calls : calls[i] \in T /\ calls[j] \in T => i = j
       PROVE  OnceIn(M, T)
  <2>1. ASSUME NEW u \in Thread, NEW j \in DOMAIN M[u], M[u][j] \in T
        PROVE  u = t /\ j \in DOMAIN calls /\ calls[j] \in T
    <3>1. CASE NoneIn(L, T)
      BY <3>1, <2>1, <1>6 DEF NoneIn
    <3>2. CASE Top(L, t, T)
      <4>1. 1 \in DOMAIN L[t] /\ L[t][1] \in T
        BY <1>8, <3>2 DEF Top
      <4>2. ASSUME From(u, j) \in DOMAIN L[u], L[u][From(u, j)] \in T, u = t => From(u, j) > 1
            PROVE  FALSE
        <5>1. u = t /\ From(u, j) = 1
          BY <4>1, <4>2, <1>12 DEF OnceIn
        <5> QED
          BY <5>1, <4>2
      <4> QED
        BY <4>2, <2>1, <1>6
    <3> QED
      BY <1>12, <3>1, <3>2
  <2> QED
    BY <2>1, <1>12 DEF OnceIn
<1> QED
  BY <1>9, <1>10, <1>11, <1>12

-----------------------------------------------------------------------------
(* Who is where *)

Ran == {"executing", "completed", "failed"}

\* Entries that will start an execution, hand it over, go on with it after its start; those by which
\* a parent goes on to its next child; the first store of a parent; the children it drops
StartOf(e) == {x \in EntryT : x.at = "start" /\ x.e = e}
HandOf(e)  == {x \in EntryT : x.at = "hand" /\ x.e = e}
PastOf(p)  == {x \in EntryT : x.at \in {"childEnded", "look"} /\ x.e = p}
DropOf(p)  == {x \in EntryT : x.at \in {"drop", "replace"} /\ x.e \in KidsOf(p)}
BeginOf(p) == {x \in EntryT : x.at = "store" /\ x.e = p /\ x.copy.status = "executing"}
RunOf(n)   == {x \in EntryT : \/ x.at \in {"hand", "answer"} /\ x.e = n
                              \/ x.at = "store" /\ x.e = n /\ x.copy.status # "cancelled"}
              \cup PastOf(n) \cup DropOf(n)
TokOf(p)   == {x \in EntryT : x.at = "start" /\ x.e \in KidsOf(p) \cup {p}} \cup PastOf(p)

\* Started, as the records and counts tell; as anything tells; about to be, too; nothing of all that
\* for it and all below it
Kept(e)      == (e \in Leaves /\ handed[e] > 0) \/ rec[e].status \in Ran
Started(e)   == ~NoneIn(todo, RunOf(e)) \/ Kept(e)
Reached(e)   == ~NoneIn(todo, StartOf(e)) \/ Started(e)
Untouched(e) == \A d \in Under[e] : ~Reached(d)
Active(e)    == Live(e) /\ Started(e)

Seqs == {p \in Parents : method[p] = "sequential"}

\* An execution is started once, and handed over once
OnceInv ==
  /\ \A e \in Exec : OnceIn(todo, StartOf(e)) /\ OnceIn(todo, HandOf(e))
  /\ \A e \in Leaves : ~NoneIn(todo, HandOf(e)) => handed[e] = 0

\* One that is about to be started was not, nor was any below it
StartInv == \A e \in Exec : ~NoneIn(todo, StartOf(e)) => ~Started(e) /\ \A d \in Below(e) : ~Reached(d)

\* Below one that is pending nothing has started, except behind its own start, not stored yet
AboveInv ==
  \A p \in Exec : rec[p].status = "pending" => \A d \in Below(p) :
    /\ ~Kept(d)
    /\ \A t \in Thread : \A i \in DOMAIN todo[t] :
         todo[t][i] \in StartOf(d) \cup RunOf(d) => i > 1 /\ todo[t][1] \in BeginOf(p)

\* A parent one of whose children ended is not pending
PastInv ==
  \A t \in Thread : \A i \in DOMAIN todo[t] :
    todo[t][i].at \in {"childEnded", "look"} => rec[todo[t][i].e].status # "pending"

\* A sequence is at one place: about to start a child, with one that runs, or looking for the next.
\* While it drops children it is at none
SeqInv ==
  \A p \in Seqs :
    /\ OnceIn(todo, TokOf(p))
    /\ NoneIn(todo, TokOf(p)) \/ NoneIn(todo, DropOf(p))
    /\ ~NoneIn(todo, TokOf(p)) \/ ~NoneIn(todo, DropOf(p)) => \A k \in KidsOf(p) : ~Active(k)
    /\ \A k, l \in KidsOf(p) : Active(k) /\ Active(l) => k = l

\* What a look at the children has seen, and what it still tells of them
LookSees(x, j) ==
  /\ x.saw[j] = "completed" => rec[Kids[x.e][j]].status \in {"completed", "absent"}
  /\ x.saw[j] \in {"failed", "cancelled"} => rec[Kids[x.e][j]].status \in {"failed", "cancelled", "absent"}
  /\ x.saw[j] = "absent" => rec[Kids[x.e][j]].status = "absent"
  /\ x.e \in Seqs => x.saw[j] # "executing"
  /\ x.e \in Seqs /\ x.saw[j] = "pending" => Untouched(Kids[x.e][j])
LookOk(x) == \A j \in DOMAIN x.saw : j \in DOMAIN Kids[x.e] /\ LookSees(x, j)
LookInv == \A x \in EntryT : x.at = "look" /\ ~NoneIn(todo, {x}) => LookOk(x)

\* A child that is dropped has not been started
ReplaceInv == \A x \in EntryT : x.at = "replace" /\ ~NoneIn(todo, {x}) => Untouched(x.e)

\* In a sequence all that comes ahead of a child that was reached has completed
BeforeInv ==
  \A p \in Seqs : \A i, j \in DOMAIN Kids[p] :
    i < j /\ ~Untouched(Kids[p][j]) => rec[Kids[p][i]].status \in {"completed", "absent"}

\* Places, by what they are about
Shape(x) ==
  /\ x.at \in {"hand", "answer", "cancelCall"} => x.e \in Leaves
  /\ x.at \in {"childEnded", "look", "cancelEnd"} => x.e \in Parents
  /\ x.at = "look" => Len(x.saw) < Len(Kids[x.e])
  /\ x.at \in {"drop", "replace"} => \E p \in Seqs : x.e \in KidsOf(p)
  /\ x.at \in {"cancelCall", "cancelEnd", "replace"} => x.copy.status = "cancelled"
  /\ x.at = "store" => x.copy.status \in Ran \cup {"cancelled"}
  /\ x.copy.told => x.e # Root
ShapeInv == \A t \in Thread : \A i \in DOMAIN todo[t] : Shape(todo[t][i])

\* Types, and that all an executor works on was handed to it
SeTypes ==
  /\ method \in [Parents -> {"sequential", "parallel"}]
  /\ mode \in [Leaves -> {"synchronous", "asynchronous"}]
  /\ rec \in [Exec -> Record]
  /\ todo \in Lists
  /\ work \in [Leaves -> {"none", "running", "stopped", "over"}]
  /\ handed \in [Leaves -> Nat]
  /\ disturbed \in BOOLEAN
  /\ ~rec[Root].told
SeInv == SeTypes /\ ShapeInv

RecInv ==
  /\ \A e \in Exec : rec[e].status \in {"pending", "absent"} => ~rec[e].started
  /\ \A e \in Leaves : handed[e] <= 1 /\ (work[e] # "none" => handed[e] > 0)
  /\ \A t \in Thread : \A i \in DOMAIN todo[t] : todo[t][i].at = "answer" => handed[todo[t][i].e] > 0

CoreInv == OnceInv /\ StartInv /\ AboveInv /\ PastInv /\ SeqInv /\ LookInv /\ ReplaceInv /\ BeforeInv

\* No cancel is told to a parent
ToldOk(copy) == copy.told => copy.status # "cancelled"
ToldInv ==
  /\ \A e \in Exec : ToldOk(rec[e])
  /\ \A t \in Thread : \A i \in DOMAIN todo[t] : ToldOk(todo[t][i].copy)

LEMMA KindsOf ==
  ASSUME NEW e \in Exec
  PROVE  /\ Kind(StartOf(e)) /\ Kind(HandOf(e)) /\ Kind(RunOf(e)) /\ Kind(TokOf(e)) /\ Kind(DropOf(e))
         /\ Kind(PastOf(e)) /\ Kind(BeginOf(e))
         /\ HandOf(e) \subseteq RunOf(e) /\ DropOf(e) \subseteq RunOf(e) /\ PastOf(e) \subseteq RunOf(e)
         /\ StartOf(e) \subseteq TokOf(e) /\ PastOf(e) \subseteq TokOf(e) /\ BeginOf(e) \subseteq RunOf(e)
         /\ \A k \in KidsOf(e) : StartOf(k) \subseteq TokOf(e)
<1>1. \A z \in EntryT : z.at = "cancelEnd" => [z EXCEPT !.all = FALSE].at = "cancelEnd"
  BY DEF EntryT
<1>2. HandOf(e) \subseteq RunOf(e) /\ DropOf(e) \subseteq RunOf(e) /\ PastOf(e) \subseteq RunOf(e)
  BY DEF HandOf, RunOf
<1>3. StartOf(e) \subseteq TokOf(e) /\ PastOf(e) \subseteq TokOf(e)
  BY DEF StartOf, TokOf
<1>4. \A k \in KidsOf(e) : StartOf(k) \subseteq TokOf(e)
  BY DEF StartOf, TokOf
<1>5. BeginOf(e) \subseteq RunOf(e)
  BY DEF BeginOf, RunOf
<1>6. Kind(StartOf(e)) /\ Kind(HandOf(e)) /\ Kind(DropOf(e)) /\ Kind(PastOf(e)) /\ Kind(BeginOf(e))
  BY <1>1 DEF Kind, StartOf, HandOf, DropOf, PastOf, BeginOf
<1>7. Kind(RunOf(e)) /\ Kind(TokOf(e))
  BY <1>1, <1>6 DEF Kind, RunOf, TokOf
<1> QED
  BY <1>2, <1>3, <1>4, <1>5, <1>6, <1>7

\* If there is one of a kind, there is one of each kind that holds it
LEMMA Fewer ==
  ASSUME NEW L, NEW T, NEW U, T \subseteq U
  PROVE  NoneIn(L, U) => NoneIn(L, T)
BY DEF NoneIn

LEMMA TopIs ==
  ASSUME NEW L \in Lists, NEW t \in Thread, NEW T, Top(L, t, T)
  PROVE  ~NoneIn(L, T) /\ 1 \in DOMAIN L[t] /\ L[t][1] \in T /\ L[t][1] \in EntryT
<1>1. L[t] \in Seq(EntryT) /\ L[t] # <<>>
  BY DEF Lists, Top
<1>2. 1 \in DOMAIN L[t]
  BY <1>1, EmptySeq, LenProperties
<1> QED
  BY <1>1, <1>2 DEF Top, NoneIn

-----------------------------------------------------------------------------
(* What all steps of threads have in common *)

\* The records: what ended stays so, what is not pending never is again
RecStep ==
  \A e \in Exec :
    /\ rec'[e].status = "pending" => rec[e].status = "pending"
    /\ Live(e)' => Live(e)
    /\ rec[e].status = "completed" => rec'[e].status \in {"completed", "absent"}
    /\ rec[e].status \in {"failed", "cancelled"} => rec'[e].status \in {"failed", "cancelled", "absent"}
    /\ rec[e].status = "absent" => rec'[e].status = "absent"

\* Where the executions N about to be started come from: children of q, the parent whose start or
\* whose look for the next this is
StartStep(t, calls, N) ==
  /\ N \subseteq Exec
  /\ \A i \in DOMAIN calls : calls[i].at = "start" => calls[i].e \in N
  /\ \A k \in N : \E i \in DOMAIN calls : calls[i].at = "start" /\ calls[i].e = k
  /\ \A i, j \in DOMAIN calls : calls[i].at = "start" /\ calls[j].at = "start" /\ calls[i].e = calls[j].e => i = j
  /\ N # {} =>
       /\ \A k \in N : Untouched(k)
       /\ \E q \in Parents :
            /\ N \subseteq KidsOf(q)
            /\ q \in Seqs => \E j \in DOMAIN Kids[q] :
                 N = {Kids[q][j]} /\ \A i \in DOMAIN Kids[q] : i < j => rec'[Kids[q][i]].status \in {"completed", "absent"}
            /\ \/ Top(todo, t, StartOf(q)) /\ 1 \in DOMAIN calls /\ calls[1] \in BeginOf(q)
               \/ q \in Seqs /\ Top(todo, t, PastOf(q))

\* What of started executions comes: of the one that was at the top, of one that was, or of a
\* parent in C, told of the end of a child
RunStep(t, calls, C) ==
  /\ \A i \in DOMAIN calls, n \in Exec : calls[i] \in RunOf(n) =>
       Top(todo, t, StartOf(n)) \/ Top(todo, t, RunOf(n)) \/ Kept(n) \/ n \in C
  /\ C \subseteq Exec
  /\ \A n \in C : \E k \in KidsOf(n) : Active(k) /\ ~Live(k)' /\ Top(todo, t, RunOf(k))
  /\ \A n \in Exec : Kept(n)' => Kept(n) \/ Top(todo, t, RunOf(n))
  /\ \A n \in Exec : Top(todo, t, BeginOf(n)) => rec'[n].status # "pending"
  /\ \A i \in DOMAIN calls : calls[i].at = "hand" =>
       Top(todo, t, StartOf(calls[i].e)) /\ \A j \in DOMAIN calls : calls[j].at = "hand" => i = j
  /\ \A e \in Leaves : handed'[e] # handed[e] => Top(todo, t, HandOf(e)) /\ \A i \in DOMAIN calls : calls[i].at # "hand"

\* What of parents comes
TokStep(t, calls, C) ==
  /\ \A i \in DOMAIN calls : calls[i].at \in {"childEnded", "look"} =>
       Len(calls) = 1 /\ (calls[i].e \in C \/ Top(todo, t, PastOf(calls[i].e)))
  /\ \A i \in DOMAIN calls : calls[i].at = "look" => LookOk(calls[i])
  /\ \A i \in DOMAIN calls, p \in Exec : calls[i] \in DropOf(p) =>
       /\ Top(todo, t, PastOf(p)) \/ Top(todo, t, DropOf(p))
       /\ \A j \in DOMAIN calls : calls[j].at \notin {"start", "childEnded", "look"}
  /\ \A i \in DOMAIN calls : calls[i].at = "replace" => Untouched(calls[i].e)

CoreStep(t, calls, rest, N, C) ==
  /\ Moves(todo, todo', t, calls, rest)
  /\ method' = method
  /\ RecStep
  /\ StartStep(t, calls, N)
  /\ RunStep(t, calls, C)
  /\ TokStep(t, calls, C)

\* What is reached: what was, the executions about to be started, the parents told
LEMMA ReachedStep ==
  ASSUME SeTypes, ShapeInv, AboveInv, NEW t \in Thread, NEW calls, NEW rest, NEW N, NEW C,
         CoreStep(t, calls, rest, N, C), NEW n \in Exec
  PROVE  /\ Started(n)' => Started(n) \/ Top(todo, t, StartOf(n)) \/ n \in C
         /\ ~NoneIn(todo', StartOf(n)) => ~NoneIn(todo, StartOf(n)) \/ n \in N
         /\ Reached(n)' => Reached(n) \/ n \in N \/ n \in C
<1>1. todo \in Lists /\ Moves(todo, todo', t, calls, rest)
  BY DEF SeTypes, CoreStep
<1>2. Kind(RunOf(n)) /\ Kind(StartOf(n))
  BY KindsOf
<1>3. Started(n)' <=> ~NoneIn(todo', RunOf(n)) \/ Kept(n)'
  BY DEF Started
<1>4. Reached(n)' <=> ~NoneIn(todo', StartOf(n)) \/ Started(n)'
  BY DEF Reached
<1>5. Top(todo, t, RunOf(n)) => ~NoneIn(todo, RunOf(n))
  BY <1>1, TopIs
<1>6. Kept(n)' => Started(n)
  BY <1>5 DEF CoreStep, RunStep, Started
<1>7. ~NoneIn(todo', RunOf(n)) => Started(n) \/ Top(todo, t, StartOf(n)) \/ n \in C
  <2>1. CASE \A i \in DOMAIN calls : calls[i] \notin RunOf(n)
    BY <2>1, <1>1, <1>2, MovesKind DEF Started
  <2>2. CASE \E i \in DOMAIN calls : calls[i] \in RunOf(n)
    BY <2>2, <1>5 DEF CoreStep, RunStep, Started
  <2> QED
    BY <2>1, <2>2
<1>8. ~NoneIn(todo', StartOf(n)) => ~NoneIn(todo, StartOf(n)) \/ n \in N
  <2>1. CASE \A i \in DOMAIN calls : calls[i] \notin StartOf(n)
    BY <2>1, <1>1, <1>2, MovesKind
  <2>2. CASE \E i \in DOMAIN calls : calls[i] \in StartOf(n)
    BY <2>2 DEF CoreStep, StartStep, StartOf
  <2> QED
    BY <2>1, <2>2
<1>9. Top(todo, t, StartOf(n)) => Reached(n)
  BY <1>1, TopIs DEF Reached
<1>10. Started(n) => Reached(n)
  BY DEF Reached
<1>11. ~NoneIn(todo, StartOf(n)) => Reached(n)
  BY DEF Reached
<1>12. Started(n)' => Started(n) \/ Top(todo, t, StartOf(n)) \/ n \in C
  BY <1>3, <1>6, <1>7
<1> QED
  BY <1>4, <1>8, <1>9, <1>10, <1>11, <1>12

\* A parent told of a child's end has that child below it, reached
LEMMA ToldReached ==
  ASSUME NEW t \in Thread, NEW calls, NEW rest, NEW N, NEW C,
         CoreStep(t, calls, rest, N, C), NEW n \in C
  PROVE  \E k \in KidsOf(n) : k \in Exec /\ n \in Exec /\ Active(k) /\ Started(k) /\ Reached(k) /\ ~Live(k)' /\ Top(todo, t, RunOf(k))
<1>1. n \in Exec
  BY DEF CoreStep, RunStep
<1>2. PICK k \in KidsOf(n) : Active(k) /\ ~Live(k)' /\ Top(todo, t, RunOf(k))
  BY DEF CoreStep, RunStep
<1>3. k \in Exec
  BY <1>1, Tree
<1> QED
  BY <1>1, <1>2, <1>3 DEF Active, Reached

\* The parent whose children are about to be started
LEMMA StartsUnder ==
  ASSUME SeTypes, NEW t \in Thread, NEW calls, NEW rest, NEW N, NEW C,
         CoreStep(t, calls, rest, N, C), N # {}
  PROVE  \E q \in Parents :
           /\ N \subseteq KidsOf(q) /\ Reached(q)
           /\ \/ Top(todo, t, StartOf(q)) /\ 1 \in DOMAIN calls /\ calls[1] \in BeginOf(q)
              \/ q \in Seqs /\ Top(todo, t, PastOf(q)) /\ Started(q)
<1>1. todo \in Lists
  BY DEF SeTypes
<1>2. PICK q \in Parents :
        /\ N \subseteq KidsOf(q)
        /\ \/ Top(todo, t, StartOf(q)) /\ 1 \in DOMAIN calls /\ calls[1] \in BeginOf(q)
           \/ q \in Seqs /\ Top(todo, t, PastOf(q))
  BY DEF CoreStep, StartStep
<1>3. q \in Exec
  BY Tree
<1>4. Top(todo, t, StartOf(q)) => Reached(q)
  BY <1>1, TopIs DEF Reached
<1>5. Top(todo, t, PastOf(q)) => Started(q)
  <2>1. Top(todo, t, PastOf(q)) => ~NoneIn(todo, PastOf(q))
    BY <1>1, TopIs
  <2>2. PastOf(q) \subseteq RunOf(q)
    BY <1>3, KindsOf
  <2> QED
    BY <2>1, <2>2, Fewer DEF Started
<1>6. Started(q) => Reached(q)
  BY DEF Reached
<1> QED
  BY <1>2, <1>4, <1>5, <1>6

\* What was not reached, with all below it, is not - but for those about to be started
LEMMA UntouchedStep ==
  ASSUME SeTypes, ShapeInv, AboveInv, NEW t \in Thread, NEW calls, NEW rest, NEW N, NEW C,
         CoreStep(t, calls, rest, N, C), NEW r \in Exec, r \notin N, Untouched(r)
  PROVE  Untouched(r)'
<1> SUFFICES ASSUME NEW d \in Under[r], Reached(d)'
             PROVE  FALSE
  BY DEF Untouched
<1>1. d \in Exec /\ ~Reached(d)
  BY Unders DEF Untouched
<1>2. d \in N \/ d \in C
  BY <1>1, ReachedStep
<1>3. CASE d \in N
  <2>1. PICK q \in Parents : N \subseteq KidsOf(q) /\ Reached(q)
    BY <1>3, StartsUnder
  <2>2. d \in Below(r)
    BY <1>3 DEF Below
  <2>3. q \in Under[r]
    BY <2>1, <2>2, <1>3, UnderParent, Tree
  <2> QED
    BY <2>1, <2>3 DEF Untouched
<1>4. CASE d \in C
  <2>1. PICK k \in KidsOf(d) : k \in Exec /\ Reached(k)
    BY <1>4, ToldReached
  <2>2. k \in Under[r]
    BY <2>1, Unders
  <2> QED
    BY <2>1, <2>2 DEF Untouched
<1> QED
  BY <1>2, <1>3, <1>4

LEMMA OnceStep ==
  ASSUME SeTypes, ShapeInv, CoreInv, NEW t \in Thread, NEW calls, NEW rest, NEW N, NEW C,
         CoreStep(t, calls, rest, N, C), SeTypes'
  PROVE  OnceInv'
<1>1. todo \in Lists /\ Moves(todo, todo', t, calls, rest) /\ handed \in [Leaves -> Nat] /\ handed' \in [Leaves -> Nat]
  BY DEF SeTypes, CoreStep
<1>2. ASSUME NEW e \in Exec
      PROVE  OnceIn(todo', StartOf(e))
  <2>1. OnceIn(todo, StartOf(e)) /\ Kind(StartOf(e))
    BY KindsOf DEF CoreInv, OnceInv
  <2>2. CASE \E i \in DOMAIN calls : calls[i] \in StartOf(e)
    <3>1. e \in N
      BY <2>2 DEF CoreStep, StartStep, StartOf
    <3>2. NoneIn(todo, StartOf(e))
      BY <3>1, Unders DEF CoreStep, StartStep, Untouched, Reached
    <3>3. \A i, j \in DOMAIN calls : calls[i] \in StartOf(e) /\ calls[j] \in StartOf(e) => i = j
      BY DEF CoreStep, StartStep, StartOf
    <3> QED
      BY <1>1, <2>1, <3>2, <3>3, MovesKind
  <2>3. CASE \A i \in DOMAIN calls : calls[i] \notin StartOf(e)
    BY <1>1, <2>1, <2>3, MovesKind
  <2> QED
    BY <2>2, <2>3
<1>3. ASSUME NEW e \in Exec
      PROVE  OnceIn(todo', HandOf(e))
  <2>1. OnceIn(todo, HandOf(e)) /\ Kind(HandOf(e))
    BY KindsOf DEF CoreInv, OnceInv
  <2>2. CASE \E i \in DOMAIN calls : calls[i] \in HandOf(e)
    <3>1. Top(todo, t, StartOf(e)) /\ \A i, j \in DOMAIN calls : calls[i] \in HandOf(e) /\ calls[j] \in HandOf(e) => i = j
      BY <2>2 DEF CoreStep, RunStep, HandOf
    <3>2. ~Started(e)
      BY <1>1, <3>1, TopIs DEF CoreInv, StartInv
    <3>3. NoneIn(todo, HandOf(e))
      BY <3>2, KindsOf, Fewer DEF Started
    <3> QED
      BY <1>1, <2>1, <3>1, <3>3, MovesKind
  <2>3. CASE \A i \in DOMAIN calls : calls[i] \notin HandOf(e)
    BY <1>1, <2>1, <2>3, MovesKind
  <2> QED
    BY <2>2, <2>3
<1>4. ASSUME NEW e \in Leaves, ~NoneIn(todo', HandOf(e))
      PROVE  handed'[e] = 0
  <2>0. e \in Exec /\ OnceIn(todo, HandOf(e)) /\ Kind(HandOf(e))
    BY Tree, KindsOf DEF CoreInv, OnceInv
  <2>1. CASE \A i \in DOMAIN calls : calls[i] \notin HandOf(e)
    <3>1. ~NoneIn(todo, HandOf(e)) /\ ~Top(todo, t, HandOf(e))
      BY <1>1, <1>4, <2>0, <2>1, MovesKind
    <3>2. handed'[e] = handed[e]
      BY <3>1 DEF CoreStep, RunStep
    <3> QED
      BY <3>1, <3>2 DEF CoreInv, OnceInv
  <2>2. CASE \E i \in DOMAIN calls : calls[i] \in HandOf(e)
    <3>1. Top(todo, t, StartOf(e)) /\ \E i \in DOMAIN calls : calls[i].at = "hand"
      BY <2>2 DEF CoreStep, RunStep, HandOf
    <3>2. ~Started(e)
      BY <1>1, <2>0, <3>1, TopIs DEF CoreInv, StartInv
    <3>3. handed'[e] = handed[e]
      BY <3>1 DEF CoreStep, RunStep
    <3> QED
      BY <1>1, <3>2, <3>3 DEF Started, Kept
  <2> QED
    BY <2>1, <2>2
<1> QED
  BY <1>2, <1>3, <1>4 DEF OnceInv

LEMMA StartKeeps ==
  ASSUME SeTypes, ShapeInv, CoreInv, NEW t \in Thread, NEW calls, NEW rest, NEW N, NEW C,
         CoreStep(t, calls, rest, N, C)
  PROVE  StartInv'
<1> SUFFICES ASSUME NEW e \in Exec, ~NoneIn(todo', StartOf(e))
             PROVE  ~Started(e)' /\ \A d \in Below(e) : ~Reached(d)'
  BY DEF StartInv
<1>1. todo \in Lists /\ Moves(todo, todo', t, calls, rest) /\ AboveInv
  BY DEF SeTypes, CoreStep, CoreInv
\* Whoever of the parents told is here or below, has a child below that was reached
<1>2. ASSUME NEW d \in Under[e], d \in C
      PROVE  \E k \in Under[e] : k \in Exec /\ Started(k)
  <2>1. PICK k \in KidsOf(d) : k \in Exec /\ Started(k)
    BY <1>2, ToldReached
  <2> QED
    BY <2>1, Unders
<1>3. CASE e \in N
  <2>1. Untouched(e)
    BY <1>3 DEF CoreStep, StartStep
  <2>2. ~Started(e) /\ ~Top(todo, t, StartOf(e)) /\ e \notin C
    <3>1. ~Reached(e) /\ e \in Under[e]
      BY <2>1, Unders DEF Untouched
    <3>2. ~Started(e) /\ NoneIn(todo, StartOf(e))
      BY <3>1 DEF Reached
    <3>3. e \notin C
      BY <1>2, <2>1, <3>1 DEF Untouched, Reached
    <3> QED
      BY <1>1, <3>2, <3>3, TopIs
  <2>3. ASSUME NEW d \in Below(e), Reached(d)'
        PROVE  FALSE
    <3>1. d \in Under[e] /\ d \in Exec /\ d # e
      BY Unders DEF Below
    <3>2. ~Reached(d)
      BY <2>1, <3>1 DEF Untouched
    <3>3. d \notin C
      BY <1>2, <2>1, <3>1 DEF Untouched, Reached
    <3>4. d \in N
      BY <1>1, <2>3, <3>1, <3>2, <3>3, ReachedStep
    <3>5. PICK q \in Parents : N \subseteq KidsOf(q) /\ Reached(q)
      BY <3>4, StartsUnder
    <3>6. q \in Under[e]
      BY <3>1, <3>4, <3>5, UnderParent, Tree
    <3> QED
      BY <2>1, <3>5, <3>6 DEF Untouched
  <2>4. ~Started(e)'
    BY <1>1, <2>2, ReachedStep
  <2> QED
    BY <2>3, <2>4
<1>4. CASE e \notin N
  <2>1. ~NoneIn(todo, StartOf(e))
    BY <1>1, <1>4, ReachedStep
  <2>2. ~Started(e) /\ \A d \in Below(e) : ~Reached(d)
    BY <2>1 DEF CoreInv, StartInv
  <2>3. ~Top(todo, t, StartOf(e))
    <3>1. \A i \in DOMAIN calls : calls[i] \notin StartOf(e)
      BY <1>4 DEF CoreStep, StartStep, StartOf
    <3>2. OnceIn(todo, StartOf(e)) /\ Kind(StartOf(e))
      BY KindsOf DEF CoreInv, OnceInv
    <3> QED
      BY <1>1, <3>1, <3>2, MovesKind
  <2>4. \A d \in Under[e] : d \notin C
    BY <1>2, <2>2 DEF Below, Reached
  <2>5. ~Started(e)'
    BY <1>1, <2>2, <2>3, <2>4, ReachedStep, Unders
  <2>6. ASSUME NEW d \in Below(e), Reached(d)'
        PROVE  FALSE
    <3>1. d \in Under[e] /\ d \in Exec /\ ~Reached(d) /\ d \notin C
      BY <2>2, <2>4, Unders DEF Below
    <3>2. d \in N
      BY <1>1, <2>6, <3>1, ReachedStep
    <3>3. PICK q \in Parents : /\ N \subseteq KidsOf(q) /\ Reached(q)
                               /\ Top(todo, t, StartOf(q)) \/ Started(q)
      BY <3>2, StartsUnder
    <3>4. q \in Under[e]
      BY <3>2, <3>3, UnderParent, Tree
    <3>5. CASE q = e
      BY <3>3, <3>5, <2>2, <2>3
    <3>6. CASE q # e
      BY <3>3, <3>4, <3>6, <2>2 DEF Below
    <3> QED
      BY <3>5, <3>6
  <2> QED
    BY <2>5, <2>6
<1> QED
  BY <1>3, <1>4

LEMMA AboveStep ==
  ASSUME SeTypes, ShapeInv, CoreInv, NEW t \in Thread, NEW calls, NEW rest, NEW N, NEW C,
         CoreStep(t, calls, rest, N, C)
  PROVE  AboveInv'
<1> SUFFICES ASSUME NEW p \in Exec, rec'[p].status = "pending", NEW d \in Below(p)
             PROVE  /\ ~Kept(d)'
                    /\ \A u \in Thread : \A i \in DOMAIN todo'[u] :
                         todo'[u][i] \in StartOf(d) \cup RunOf(d) => i > 1 /\ todo'[u][1] \in BeginOf(p)
  BY DEF AboveInv
<1>1. todo \in Lists /\ Moves(todo, todo', t, calls, rest) /\ AboveInv
  BY DEF SeTypes, CoreStep, CoreInv
<1>2. rec[p].status = "pending" /\ d \in Exec /\ d \in Under[p] /\ d # p
  BY Unders DEF CoreStep, RecStep, Below
<1>3. \A c \in Below(p) : ~Kept(c) /\ \A u \in Thread : \A i \in DOMAIN todo[u] :
        todo[u][i] \in StartOf(c) \cup RunOf(c) => i > 1 /\ todo[u][1] \in BeginOf(p)
  BY <1>1, <1>2 DEF AboveInv
\* Nothing below is at the top
<1>4. ASSUME NEW c \in Below(p)
      PROVE  ~Top(todo, t, StartOf(c)) /\ ~Top(todo, t, RunOf(c))
  <2>1. todo[t] # <<>> => 1 \in DOMAIN todo[t]
    BY <1>1, EmptySeq, LenProperties DEF Lists
  <2> QED
    BY <1>3, <2>1 DEF Top
<1>5. d \notin C
  <2> SUFFICES ASSUME d \in C
               PROVE  FALSE
    OBVIOUS
  <2>1. PICK k \in KidsOf(d) : k \in Exec /\ Top(todo, t, RunOf(k))
    BY ToldReached
  <2>2. k \in Under[p]
    BY <1>2, <2>1, Unders
  <2>3. k # p
    BY <1>2, <2>1, NoCycle
  <2> QED
    BY <1>4, <2>1, <2>2, <2>3 DEF Below
<1>6. ~Kept(d)'
  BY <1>3, <1>4, <1>2 DEF CoreStep, RunStep
<1>7. ASSUME NEW u \in Thread, NEW i \in DOMAIN todo'[u], todo'[u][i] \in StartOf(d) \cup RunOf(d)
      PROVE  i > 1 /\ todo'[u][1] \in BeginOf(p)
  <2>1. CASE u # t
    <3>1. todo'[u] = todo[u]
      BY <2>1, <1>1 DEF Moves, Lists
    <3> QED
      BY <3>1, <1>3, <1>7 DEF Below
  <2>2. CASE u = t /\ i <= Len(calls)
    <3>1. i \in DOMAIN calls /\ calls[i] \in StartOf(d) \cup RunOf(d) /\ 1 \in DOMAIN calls /\ todo'[t][1] = calls[1]
          /\ i \in Nat /\ i > 0
      <4>1. i \in DOMAIN calls /\ todo'[t][i] = calls[i] /\ i \in Nat /\ i > 0
        BY <2>2, <1>1, MovesAt
      <4>2. 1 \in DOMAIN calls
        BY <4>1, <1>1, MovesAt
      <4> QED
        BY <4>1, <4>2, <2>2, <1>7, <1>1, MovesAt
    <3>2. calls[i] \notin RunOf(d)
      BY <1>2, <1>3, <1>4, <1>5, <3>1 DEF CoreStep, RunStep
    <3>3. d \in N /\ calls[i].at = "start"
      BY <3>1, <3>2 DEF CoreStep, StartStep, StartOf
    <3>4. PICK q \in Parents :
           /\ N \subseteq KidsOf(q)
           /\ \/ Top(todo, t, StartOf(q)) /\ calls[1] \in BeginOf(q)
              \/ Top(todo, t, PastOf(q))
      BY <3>3, StartsUnder
    <3>5. q \in Under[p] /\ q \in Exec
      BY <3>3, <3>4, UnderParent, Tree
    <3>6. PastOf(q) \subseteq RunOf(q)
      BY <3>5, KindsOf
    <3>7. q = p
      BY <3>4, <3>5, <3>6, <1>4 DEF Below, Top
    <3>8. ~Top(todo, t, PastOf(p))
      <4>1. Top(todo, t, PastOf(p)) => 1 \in DOMAIN todo[t] /\ todo[t][1] \in PastOf(p)
        BY <1>1, TopIs
      <4> QED
        BY <4>1, <1>2 DEF CoreInv, PastInv, PastOf
    <3>9. calls[1] \in BeginOf(p)
      BY <3>4, <3>7, <3>8
    <3>10. i # 1
      BY <3>3, <3>9 DEF BeginOf
    <3> QED
      BY <2>2, <3>1, <3>9, <3>10
  <2>3. CASE u = t /\ i > Len(calls)
    <3> DEFINE m == i - Len(calls) + 1
    <3>1. m \in DOMAIN todo[t] /\ m > 1 /\ LikeEntry(todo'[t][i], todo[t][m]) /\ todo[t] # <<>>
      BY <2>3, <1>1, MovesAt
    <3> HIDE DEF m
    <3>2. todo[t][m] \in StartOf(d) \cup RunOf(d)
      <4>1. Kind(StartOf(d)) /\ Kind(RunOf(d))
        BY <1>2, KindsOf
      <4>2. todo[t][m] \in EntryT
        BY <1>1, <3>1 DEF Lists
      <4> QED
        BY <4>1, <4>2, <3>1, <1>7, <2>3 DEF LikeEntry, Kind
    <3>3. todo[t][1] \in BeginOf(p)
      BY <3>1, <3>2, <1>3
    <3>4. Top(todo, t, BeginOf(p))
      BY <3>1, <3>3 DEF Top
    <3> QED
      BY <3>4 DEF CoreStep, RunStep
  <2>4. u = t => i \in Nat /\ Len(calls) \in Nat
    BY <1>1, <1>7, MovesAt
  <2> QED
    BY <2>1, <2>2, <2>3, <2>4
<1> QED
  BY <1>6, <1>7

LEMMA PastStep ==
  ASSUME SeTypes, ShapeInv, CoreInv, NEW t \in Thread, NEW calls, NEW rest, NEW N, NEW C,
         CoreStep(t, calls, rest, N, C)
  PROVE  PastInv'
<1> SUFFICES ASSUME NEW u \in Thread, NEW i \in DOMAIN todo'[u], todo'[u][i].at \in {"childEnded", "look"}
             PROVE  rec'[todo'[u][i].e].status # "pending"
  BY DEF PastInv
<1>1. todo \in Lists /\ todo' \in Lists /\ Moves(todo, todo', t, calls, rest) /\ AboveInv /\ PastInv
  BY MovesAt DEF SeTypes, CoreStep, CoreInv
<1>2. todo'[u][i] \in EntryT
  BY <1>1 DEF Lists
<1> DEFINE p == todo'[u][i].e
<1>3. p \in Exec /\ todo'[u][i] \in PastOf(p) /\ Kind(PastOf(p))
  BY <1>2, KindsOf DEF EntryT, PastOf
<1> HIDE DEF p
<1>4. rec[p].status # "pending"
  <2>1. CASE \E j \in DOMAIN calls : calls[j] \in PastOf(p)
    <3>1. p \in C \/ Top(todo, t, PastOf(p))
      BY <2>1 DEF CoreStep, TokStep, PastOf
    <3>2. CASE p \in C
      <4>1. PICK k \in KidsOf(p) : k \in Exec /\ Top(todo, t, RunOf(k))
        BY <3>2, ToldReached
      <4>2. k \in Under[p] /\ k # p
        BY <1>3, <4>1, NoCycle, Unders
      <4>3. 1 \in DOMAIN todo[t] /\ todo[t][1] \in RunOf(k)
        BY <1>1, <4>1, TopIs
      <4> QED
        BY <1>1, <1>3, <4>2, <4>3 DEF AboveInv, Below
    <3>3. CASE Top(todo, t, PastOf(p))
      <4>1. 1 \in DOMAIN todo[t] /\ todo[t][1] \in PastOf(p)
        BY <1>1, <3>3, TopIs
      <4> QED
        BY <1>1, <4>1 DEF PastInv, PastOf
    <3> QED
      BY <3>1, <3>2, <3>3
  <2>2. CASE \A j \in DOMAIN calls : calls[j] \notin PastOf(p)
    <3>1. ~NoneIn(todo', PastOf(p))
      BY <1>3 DEF NoneIn
    <3>2. ~NoneIn(todo, PastOf(p))
      BY <1>1, <1>3, <2>2, <3>1, MovesKind
    <3> QED
      BY <1>1, <3>2 DEF NoneIn, PastInv, PastOf
  <2> QED
    BY <2>1, <2>2
<1>5. rec'[p].status # "pending"
  BY <1>3, <1>4 DEF CoreStep, RecStep
<1> QED
  BY <1>5 DEF p

\* A child of a sequence becomes active only by its start
LEMMA ActiveStep ==
  ASSUME SeTypes, ShapeInv, CoreInv, NEW t \in Thread, NEW calls, NEW rest, NEW N, NEW C,
         CoreStep(t, calls, rest, N, C), NEW k \in Exec, Active(k)'
  PROVE  Active(k) \/ Top(todo, t, StartOf(k))
<1>1. todo \in Lists /\ AboveInv
  BY DEF SeTypes, CoreInv
<1>2. Live(k) /\ Started(k)'
  BY DEF Active, CoreStep, RecStep
<1>3. Started(k) \/ Top(todo, t, StartOf(k)) \/ k \in C
  BY <1>1, <1>2, ReachedStep
<1>4. CASE k \in C
  <2>1. PICK l \in KidsOf(k) : l \in Exec /\ Top(todo, t, RunOf(l))
    BY <1>4, ToldReached
  <2>2. l \in Under[k] /\ l # k
    BY <2>1, NoCycle, Unders
  <2>3. 1 \in DOMAIN todo[t] /\ todo[t][1] \in RunOf(l)
    BY <1>1, <2>1, TopIs
  <2>4. rec[k].status # "pending"
    BY <1>1, <2>2, <2>3 DEF AboveInv, Below
  <2>5. Started(k)
    BY <2>4, <1>2 DEF Live, Started, Kept, Ran
  <2> QED
    BY <2>5, <1>2 DEF Active
<1> QED
  BY <1>2, <1>3, <1>4 DEF Active

\* One entry is at the top
LEMMA OneTop ==
  ASSUME todo \in Lists, NEW t \in Thread, NEW k \in Exec, NEW T, Top(todo, t, StartOf(k)), Top(todo, t, T)
  PROVE  \E x \in T : x \in EntryT /\ x.at = "start" /\ x.e = k
<1>1. todo[t][1] \in StartOf(k) /\ todo[t][1] \in T
  BY DEF Top
<1> QED
  BY <1>1 DEF StartOf

LEMMA SeqStep ==
  ASSUME SeTypes, ShapeInv, CoreInv, NEW t \in Thread, NEW calls, NEW rest, NEW N, NEW C,
         CoreStep(t, calls, rest, N, C)
  PROVE  SeqInv'
<1>1. todo \in Lists /\ todo' \in Lists /\ Moves(todo, todo', t, calls, rest) /\ Seqs' = Seqs /\ SeqInv
  BY MovesAt DEF SeTypes, CoreStep, CoreInv, Seqs
<1> SUFFICES ASSUME NEW p \in Seqs
             PROVE  /\ OnceIn(todo', TokOf(p))
                    /\ NoneIn(todo', TokOf(p)) \/ NoneIn(todo', DropOf(p))
                    /\ ~NoneIn(todo', TokOf(p)) \/ ~NoneIn(todo', DropOf(p)) => \A k \in KidsOf(p) : ~Active(k)'
                    /\ \A k, l \in KidsOf(p) : Active(k)' /\ Active(l)' => k = l
  BY <1>1 DEF SeqInv
<1>2. p \in Exec /\ Kind(TokOf(p)) /\ Kind(DropOf(p)) /\ \A k \in KidsOf(p) : k \in Exec /\ StartOf(k) \subseteq TokOf(p)
  BY Tree, KindsOf DEF Seqs
<1>3. /\ OnceIn(todo, TokOf(p))
      /\ NoneIn(todo, TokOf(p)) \/ NoneIn(todo, DropOf(p))
      /\ ~NoneIn(todo, TokOf(p)) \/ ~NoneIn(todo, DropOf(p)) => \A k \in KidsOf(p) : ~Active(k)
      /\ \A k, l \in KidsOf(p) : Active(k) /\ Active(l) => k = l
  BY <1>1 DEF SeqInv
<1> DEFINE TokCome  == \E i \in DOMAIN calls : calls[i] \in TokOf(p)
           DropCome == \E i \in DOMAIN calls : calls[i] \in DropOf(p)
\* What comes: instead of what was there, or where nothing was
<1>4. ASSUME TokCome
      PROVE  \/ Top(todo, t, TokOf(p))
             \/ Untouched(p)
             \/ p \in C
  <2>1. PICK i \in DOMAIN calls : calls[i] \in TokOf(p)
    BY <1>4
  <2>2. CASE calls[i] \in PastOf(p)
    <3>1. p \in C \/ Top(todo, t, PastOf(p))
      BY <2>2 DEF CoreStep, TokStep, PastOf
    <3> QED
      BY <3>1 DEF Top, TokOf
  <2>3. CASE calls[i].at = "start" /\ calls[i].e \in KidsOf(p) \cup {p}
    <3>1. calls[i].e \in N
      BY <2>3 DEF CoreStep, StartStep
    <3>2. CASE calls[i].e = p
      BY <3>1, <3>2 DEF CoreStep, StartStep
    <3>3. CASE calls[i].e \in KidsOf(p)
      <4>1. PICK q \in Parents : /\ N \subseteq KidsOf(q)
                                 /\ Top(todo, t, StartOf(q)) \/ Top(todo, t, PastOf(q))
        BY <3>1, StartsUnder
      <4>2. q = p
        BY <1>2, <3>1, <3>3, <4>1, Tree
      <4>3. StartOf(p) \subseteq TokOf(p) /\ PastOf(p) \subseteq TokOf(p)
        BY <1>2, KindsOf
      <4> QED
        BY <4>1, <4>2, <4>3 DEF Top
    <3> QED
      BY <2>3, <3>2, <3>3
  <2> QED
    BY <2>1, <2>2, <2>3 DEF TokOf
<1>5. Untouched(p) => NoneIn(todo, TokOf(p)) /\ NoneIn(todo, DropOf(p)) /\ \A k \in KidsOf(p) : ~Active(k)
  <2> SUFFICES ASSUME Untouched(p)
               PROVE  NoneIn(todo, TokOf(p)) /\ NoneIn(todo, DropOf(p)) /\ \A k \in KidsOf(p) : ~Active(k)
    OBVIOUS
  <2>1. \A d \in KidsOf(p) \cup {p} : ~Started(d) /\ NoneIn(todo, StartOf(d))
    BY <1>2, Unders DEF Untouched, Reached
  <2>2. NoneIn(todo, RunOf(p)) /\ PastOf(p) \subseteq RunOf(p) /\ DropOf(p) \subseteq RunOf(p)
    BY <2>1, <1>2, KindsOf DEF Started
  <2>3. NoneIn(todo, PastOf(p)) /\ NoneIn(todo, DropOf(p))
    BY <2>2 DEF NoneIn
  <2>4. NoneIn(todo, TokOf(p))
    <3> SUFFICES ASSUME NEW u \in Thread, NEW i \in DOMAIN todo[u], todo[u][i] \in TokOf(p)
                 PROVE  FALSE
      BY DEF NoneIn
    <3>1. todo[u][i] \notin PastOf(p)
      BY <2>3 DEF NoneIn
    <3>2. todo[u][i].at = "start" /\ todo[u][i].e \in KidsOf(p) \cup {p} /\ todo[u][i] \in EntryT
      BY <3>1 DEF TokOf
    <3> QED
      BY <2>1, <3>2 DEF NoneIn, StartOf
  <2> QED
    BY <2>1, <2>3, <2>4 DEF Active
<1>6. ASSUME p \in C
      PROVE  /\ NoneIn(todo, TokOf(p)) /\ NoneIn(todo, DropOf(p))
             /\ \A k \in KidsOf(p) : Active(k) => ~Live(k)'
  <2>1. PICK k \in KidsOf(p) : Active(k) /\ ~Live(k)'
    BY <1>6, ToldReached
  <2> QED
    BY <2>1, <1>3
<1>7. ASSUME DropCome
      PROVE  Top(todo, t, TokOf(p)) \/ Top(todo, t, DropOf(p))
  <2>1. Top(todo, t, PastOf(p)) \/ Top(todo, t, DropOf(p))
    BY <1>2, <1>7 DEF CoreStep, TokStep
  <2> QED
    BY <2>1 DEF Top, TokOf
<1>8. DropCome => ~TokCome
  BY <1>2 DEF CoreStep, TokStep, TokOf, PastOf
<1>9. \A T : Top(todo, t, T) => ~NoneIn(todo, T)
  BY <1>1, TopIs
<1>10. OnceIn(todo', TokOf(p))
  <2>1. CASE ~TokCome
    BY <2>1, <1>1, <1>2, <1>3, MovesKind
  <2>2. CASE TokCome
    <3>1. NoneIn(todo, TokOf(p)) \/ Top(todo, t, TokOf(p))
      BY <2>2, <1>4, <1>5, <1>6
    <3>2. ASSUME NEW i \in DOMAIN calls, NEW j \in DOMAIN calls, calls[i] \in TokOf(p), calls[j] \in TokOf(p)
          PROVE  i = j
      <4>1. Len(calls) \in Nat /\ DOMAIN calls = 1..Len(calls)
        BY <1>1, MovesAt
      <4>2. CASE Len(calls) = 1
        BY <4>1, <4>2
      <4>3. CASE Len(calls) # 1
        <5>1. \A x \in TokOf(p) : x.at \in {"start", "childEnded", "look"} /\ (x.at = "start" => x.e \in KidsOf(p) \cup {p})
          BY DEF TokOf, PastOf
        <5>2. calls[i].at = "start" /\ calls[j].at = "start" /\ calls[i].e \in N /\ calls[j].e \in N
          BY <5>1, <3>2, <4>3 DEF CoreStep, TokStep, StartStep
        <5>3. PICK q \in Parents : N \subseteq KidsOf(q) /\ (q \in Seqs => \E m : N = {m})
          BY <5>2 DEF CoreStep, StartStep
        <5>4. calls[i].e = calls[j].e
          <6>1. CASE q \in Seqs
            BY <5>2, <5>3, <6>1
          <6>2. CASE q \notin Seqs
            <7>1. calls[i].e \notin KidsOf(p) /\ calls[j].e \notin KidsOf(p)
              BY <5>2, <5>3, <6>2, <1>2, Tree
            <7> QED
              BY <7>1, <5>1, <5>2, <3>2
          <6> QED
            BY <6>1, <6>2
        <5> QED
          BY <5>2, <5>4 DEF CoreStep, StartStep
      <4> QED
        BY <4>2, <4>3
    <3> QED
      BY <3>1, <3>2, <1>1, <1>2, <1>3, MovesKind
  <2> QED
    BY <2>1, <2>2
<1>11. ~NoneIn(todo', TokOf(p)) => TokCome \/ (~NoneIn(todo, TokOf(p)) /\ ~Top(todo, t, TokOf(p)))
  BY <1>1, <1>2, <1>3, MovesKind
<1>12. ~NoneIn(todo', DropOf(p)) => DropCome \/ ~NoneIn(todo, DropOf(p))
  BY <1>1, <1>2, MovesKind
<1>13. NoneIn(todo', TokOf(p)) \/ NoneIn(todo', DropOf(p))
  BY <1>3, <1>4, <1>5, <1>6, <1>7, <1>8, <1>9, <1>11, <1>12
<1>14. ASSUME NEW k \in KidsOf(p), Active(k)', ~NoneIn(todo', TokOf(p)) \/ ~NoneIn(todo', DropOf(p))
       PROVE  FALSE
  <2>1. CASE Active(k)
    <3>1. ~(p \in C)
      BY <2>1, <1>6, <1>14 DEF Active
    <3> QED
      BY <2>1, <3>1, <1>3, <1>4, <1>5, <1>7, <1>9, <1>11, <1>12, <1>14
  <2>2. CASE Top(todo, t, StartOf(k))
    <3>1. Top(todo, t, TokOf(p))
      BY <2>2, <1>2 DEF Top
    <3>2. NoneIn(todo, DropOf(p)) /\ ~Untouched(p) /\ ~(p \in C)
      BY <3>1, <1>3, <1>5, <1>6, <1>9
    <3>3. ~DropCome
      <4>1. ~Top(todo, t, PastOf(p)) /\ ~Top(todo, t, DropOf(p))
        BY <1>1, <1>2, <2>2, OneTop DEF PastOf, DropOf
      <4> QED
        BY <4>1, <1>2 DEF CoreStep, TokStep
    <3>4. ~TokCome
      <4> SUFFICES ASSUME NEW i \in DOMAIN calls, calls[i] \in TokOf(p)
                   PROVE  FALSE
        OBVIOUS
      <4>1. ~Top(todo, t, PastOf(p))
        BY <1>1, <1>2, <2>2, OneTop DEF PastOf
      <4>2. calls[i].at = "start" /\ calls[i].e \in KidsOf(p) \cup {p}
        BY <4>1, <3>2 DEF CoreStep, TokStep, TokOf, PastOf
      <4>3. calls[i].e \in N
        BY <4>2 DEF CoreStep, StartStep
      <4>4. calls[i].e # p
        BY <4>3, <3>2 DEF CoreStep, StartStep
      <4>5. PICK q \in Parents : /\ N \subseteq KidsOf(q)
                                 /\ Top(todo, t, StartOf(q)) \/ Top(todo, t, PastOf(q))
        BY <4>3, StartsUnder
      <4>6. q = p
        BY <1>2, <4>2, <4>3, <4>4, <4>5, Tree
      <4>7. Top(todo, t, StartOf(p))
        BY <4>1, <4>5, <4>6
      <4>8. p = k
        BY <1>1, <1>2, <2>2, <4>7, OneTop DEF StartOf
      <4> QED
        BY <4>8, <1>2, NoCycle, Unders
    <3> QED
      BY <3>1, <3>2, <3>3, <3>4, <1>11, <1>12, <1>14
  <2> QED
    BY <2>1, <2>2, <1>2, <1>14, ActiveStep
<1>15. ASSUME NEW k \in KidsOf(p), NEW l \in KidsOf(p), Active(k)', Active(l)'
       PROVE  k = l
  <2>1. Active(k) \/ Top(todo, t, StartOf(k))
    BY <1>2, <1>15, ActiveStep
  <2>2. Active(l) \/ Top(todo, t, StartOf(l))
    BY <1>2, <1>15, ActiveStep
  <2>3. \A m \in KidsOf(p) : Top(todo, t, StartOf(m)) => ~NoneIn(todo, TokOf(p))
    BY <1>2, <1>9 DEF Top
  <2>4. CASE Top(todo, t, StartOf(k)) /\ Top(todo, t, StartOf(l))
    BY <1>1, <1>2, <2>4, OneTop DEF StartOf
  <2> QED
    BY <2>1, <2>2, <2>3, <2>4, <1>3
<1> QED
  BY <1>10, <1>13, <1>14, <1>15

\* What a look has seen stays true while no child of the sequence is started
LEMMA LookStays ==
  ASSUME SeTypes, ShapeInv, CoreInv, NEW t \in Thread, NEW calls, NEW rest, NEW N, NEW C,
         CoreStep(t, calls, rest, N, C),
         NEW x \in EntryT, LookOk(x), x.e \in Seqs => N \cap KidsOf(x.e) = {}
  PROVE  LookOk(x)'
<1>1. x.e \in Exec /\ x.saw \in Seq(Status) /\ Seqs' = Seqs /\ AboveInv
  BY DEF EntryT, CoreStep, Seqs, CoreInv
<1> SUFFICES ASSUME NEW j \in DOMAIN x.saw
             PROVE  j \in DOMAIN Kids[x.e] /\ LookSees(x, j)'
  BY DEF LookOk
<1>2. j \in DOMAIN Kids[x.e] /\ LookSees(x, j)
  BY DEF LookOk
<1> DEFINE k == Kids[x.e][j]
<1>3. k \in Exec /\ k \in KidsOf(x.e)
  BY <1>1, <1>2, Tree
<1>4. x.e \in Seqs /\ Untouched(k) => Untouched(k)'
  BY <1>1, <1>3, UntouchedStep
<1>5. /\ rec[k].status = "completed" => rec'[k].status \in {"completed", "absent"}
      /\ rec[k].status \in {"failed", "cancelled"} => rec'[k].status \in {"failed", "cancelled", "absent"}
      /\ rec[k].status = "absent" => rec'[k].status = "absent"
  BY <1>3 DEF CoreStep, RecStep
<1>6. LookSees(x, j)' <=>
        /\ x.saw[j] = "completed" => rec'[k].status \in {"completed", "absent"}
        /\ x.saw[j] \in {"failed", "cancelled"} => rec'[k].status \in {"failed", "cancelled", "absent"}
        /\ x.saw[j] = "absent" => rec'[k].status = "absent"
        /\ x.e \in Seqs => x.saw[j] # "executing"
        /\ x.e \in Seqs /\ x.saw[j] = "pending" => Untouched(k)'
  BY <1>1 DEF LookSees
<1>7. /\ x.saw[j] = "completed" => rec[k].status \in {"completed", "absent"}
      /\ x.saw[j] \in {"failed", "cancelled"} => rec[k].status \in {"failed", "cancelled", "absent"}
      /\ x.saw[j] = "absent" => rec[k].status = "absent"
      /\ x.e \in Seqs => x.saw[j] # "executing"
      /\ x.e \in Seqs /\ x.saw[j] = "pending" => Untouched(k)
  BY <1>2 DEF LookSees
<1> HIDE DEF k
<1> QED
  BY <1>2, <1>4, <1>5, <1>6, <1>7

LEMMA LookStep ==
  ASSUME SeTypes, ShapeInv, CoreInv, NEW t \in Thread, NEW calls, NEW rest, NEW N, NEW C,
         CoreStep(t, calls, rest, N, C)
  PROVE  LookInv'
<1> SUFFICES ASSUME NEW x \in EntryT, x.at = "look", ~NoneIn(todo', {x})
             PROVE  LookOk(x)'
  BY DEF LookInv
<1>1. todo \in Lists /\ todo' \in Lists /\ Moves(todo, todo', t, calls, rest)
  BY MovesAt DEF SeTypes, CoreStep
<1>2. \E u \in Thread : \E i \in DOMAIN todo'[u] : todo'[u][i] = x
  BY DEF NoneIn
<1> DEFINE T == {x}
<1>3. x.at = "look" /\ x.e \in Exec /\ Kind(PastOf(x.e)) /\ x \in PastOf(x.e)
  BY <1>2, KindsOf DEF EntryT, PastOf
<1>4. Kind(T)
  BY <1>3 DEF Kind, EntryT
<1>5. LookOk(x)
  <2>1. CASE \E j \in DOMAIN calls : calls[j] \in T
    BY <2>1, <1>3 DEF CoreStep, TokStep
  <2>2. CASE \A j \in DOMAIN calls : calls[j] \notin T
    <3>1. ~NoneIn(todo, T)
      BY <1>1, <1>4, <2>2, MovesKind
    <3> QED
      BY <3>1, <1>3 DEF CoreInv, LookInv
  <2> QED
    BY <2>1, <2>2
<1>6. ASSUME x.e \in Seqs, NEW k \in N \cap KidsOf(x.e)
      PROVE  FALSE
  <2>1. PICK j \in DOMAIN calls : calls[j].at = "start" /\ calls[j].e = k
    BY DEF CoreStep, StartStep
  <2>2. j \in DOMAIN todo'[t] /\ todo'[t][j] = calls[j] /\ calls[j] \in EntryT
    BY <1>1, MovesAt
  <2>3. calls[j] \in TokOf(x.e) /\ x \in TokOf(x.e)
    BY <1>3, <2>1, <2>2 DEF TokOf
  <2>4. OnceIn(todo', TokOf(x.e))
    <3>1. SeqInv' /\ Seqs' = Seqs
      BY SeqStep DEF CoreStep, Seqs
    <3> QED
      BY <1>6, <3>1 DEF SeqInv
  <2>5. calls[j] = x
    BY <1>2, <2>2, <2>3, <2>4 DEF OnceIn
  <2> QED
    BY <1>3, <2>1, <2>5
<1> QED
  BY <1>5, <1>6, LookStays

LEMMA ReplaceStep ==
  ASSUME SeTypes, ShapeInv, CoreInv, NEW t \in Thread, NEW calls, NEW rest, NEW N, NEW C,
         CoreStep(t, calls, rest, N, C), ShapeInv'
  PROVE  ReplaceInv'
<1> SUFFICES ASSUME NEW x \in EntryT, x.at = "replace", ~NoneIn(todo', {x})
             PROVE  Untouched(x.e)'
  BY DEF ReplaceInv
<1>1. todo \in Lists /\ todo' \in Lists /\ Moves(todo, todo', t, calls, rest) /\ AboveInv /\ Seqs' = Seqs
  BY MovesAt DEF SeTypes, CoreStep, CoreInv, Seqs
<1>2. \E u \in Thread : \E i \in DOMAIN todo'[u] : todo'[u][i] = x
  BY DEF NoneIn
<1> DEFINE T == {x}
<1>3. x.at = "replace" /\ x.e \in Exec /\ Kind(T)
  BY <1>2 DEF EntryT, Kind
<1>4. PICK p \in Seqs : x.e \in KidsOf(p)
  BY <1>1, <1>2, <1>3 DEF ShapeInv, Shape
<1>5. x \in DropOf(p) /\ p \in Exec /\ Kind(DropOf(p))
  BY <1>3, <1>4, Tree, KindsOf DEF DropOf, Seqs
<1>6. Untouched(x.e)
  <2>1. CASE \E j \in DOMAIN calls : calls[j] \in T
    BY <2>1, <1>3 DEF CoreStep, TokStep
  <2>2. CASE \A j \in DOMAIN calls : calls[j] \notin T
    <3>1. ~NoneIn(todo, T)
      BY <1>1, <1>3, <2>2, MovesKind
    <3> QED
      BY <3>1, <1>3 DEF CoreInv, ReplaceInv
  <2> QED
    BY <2>1, <2>2
<1>7. x.e \notin N
  <2> SUFFICES ASSUME x.e \in N
               PROVE  FALSE
    OBVIOUS
  <2>1. PICK j \in DOMAIN calls : calls[j].at = "start" /\ calls[j].e = x.e
    BY DEF CoreStep, StartStep
  <2>2. j \in DOMAIN todo'[t] /\ todo'[t][j] = calls[j] /\ calls[j] \in EntryT
    BY <1>1, MovesAt
  <2>3. calls[j] \in TokOf(p)
    BY <1>4, <2>1, <2>2 DEF TokOf
  <2>4. NoneIn(todo', TokOf(p)) \/ NoneIn(todo', DropOf(p))
    <3>1. SeqInv'
      BY SeqStep
    <3> QED
      BY <1>1, <1>4, <3>1 DEF SeqInv
  <2> QED
    BY <1>2, <1>5, <2>2, <2>3, <2>4 DEF NoneIn
<1> QED
  BY <1>1, <1>3, <1>6, <1>7, UntouchedStep

LEMMA BeforeStep ==
  ASSUME SeTypes, ShapeInv, CoreInv, NEW t \in Thread, NEW calls, NEW rest, NEW N, NEW C,
         CoreStep(t, calls, rest, N, C)
  PROVE  BeforeInv'
<1>1. Seqs' = Seqs /\ AboveInv
  BY DEF CoreStep, Seqs, CoreInv
<1> SUFFICES ASSUME NEW p \in Seqs, NEW i \in DOMAIN Kids[p], NEW j \in DOMAIN Kids[p], i < j, ~Untouched(Kids[p][j])'
             PROVE  rec'[Kids[p][i]].status \in {"completed", "absent"}
  BY <1>1 DEF BeforeInv
<1>2. p \in Exec /\ Kids[p][i] \in Exec /\ Kids[p][j] \in Exec /\ Kids[p][j] \in KidsOf(p)
  BY Tree DEF Seqs
<1>3. CASE Kids[p][j] \in N
  <2>1. PICK q \in Parents :
          /\ N \subseteq KidsOf(q)
          /\ q \in Seqs => \E l \in DOMAIN Kids[q] :
               N = {Kids[q][l]} /\ \A m \in DOMAIN Kids[q] : m < l => rec'[Kids[q][m]].status \in {"completed", "absent"}
    BY <1>3 DEF CoreStep, StartStep
  <2>2. q = p
    BY <1>2, <1>3, <2>1, Tree
  <2>3. PICK l \in DOMAIN Kids[p] :
          N = {Kids[p][l]} /\ \A m \in DOMAIN Kids[p] : m < l => rec'[Kids[p][m]].status \in {"completed", "absent"}
    BY <2>1, <2>2
  <2>4. l = j
    BY <1>2, <1>3, <2>3, Tree
  <2> QED
    BY <2>3, <2>4
<1>4. CASE Kids[p][j] \notin N
  <2>1. ~Untouched(Kids[p][j])
    BY <1>1, <1>2, <1>4, UntouchedStep
  <2>2. rec[Kids[p][i]].status \in {"completed", "absent"}
    BY <2>1 DEF CoreInv, BeforeInv
  <2> QED
    BY <1>2, <2>2 DEF CoreStep, RecStep
<1> QED
  BY <1>3, <1>4

LEMMA CoreKeeps ==
  ASSUME SeTypes, ShapeInv, CoreInv, NEW t \in Thread, NEW calls, NEW rest, NEW N, NEW C,
         CoreStep(t, calls, rest, N, C), SeTypes', ShapeInv'
  PROVE  CoreInv'
<1>1. OnceInv' /\ StartInv' /\ AboveInv' /\ PastInv'
  BY OnceStep, StartKeeps, AboveStep, PastStep
<1>2. SeqInv' /\ LookInv' /\ ReplaceInv' /\ BeforeInv'
  BY SeqStep, LookStep, ReplaceStep, BeforeStep
<1> QED
  BY <1>1, <1>2 DEF CoreInv

-----------------------------------------------------------------------------
(* The steps, one by one: what each does to the lists *)

LEMMA EntryFacts ==
  ASSUME NEW at \in Place, NEW e \in Exec, NEW copy \in Record
  PROVE  Entry(at, e, copy) \in EntryT
<1>1. <<>> \in Seq(Status)
  OBVIOUS
<1> QED
  BY <1>1 DEF Entry, EntryT

LEMMA EntryFields ==
  ASSUME NEW at, NEW e, NEW copy
  PROVE  /\ Entry(at, e, copy).at = at /\ Entry(at, e, copy).e = e /\ Entry(at, e, copy).copy = copy
         /\ Entry(at, e, copy).saw = <<>> /\ Entry(at, e, copy).all
BY DEF Entry

LEMMA CallFacts ==
  ASSUME NEW at \in Place, NEW e \in Exec
  PROVE  Call(at, e) \in EntryT
<1>1. Blank \in Record
  BY DEF Blank, Record, Status
<1> QED
  BY <1>1, EntryFacts DEF Call

LEMMA CallFields ==
  ASSUME NEW at, NEW e
  PROVE  /\ Call(at, e).at = at /\ Call(at, e).e = e /\ Call(at, e).copy = Blank
         /\ Call(at, e).saw = <<>> /\ Call(at, e).all
BY DEF Call, Entry

LEMMA EachFacts ==
  ASSUME NEW at \in Place, NEW p \in Exec
  PROVE  /\ Each(at, p) \in Seq(EntryT) /\ DOMAIN Each(at, p) = DOMAIN Kids[p] /\ Len(Each(at, p)) = Len(Kids[p])
         /\ \A i \in DOMAIN Kids[p] : Each(at, p)[i] = Call(at, Kids[p][i]) /\ Kids[p][i] \in Exec
<1>1. Kids[p] \in Seq(Exec)
  BY Tree
<1>2. PICK n \in Nat : n = Len(Kids[p]) /\ DOMAIN Kids[p] = 1..n
  BY <1>1, LenProperties
<1>3. \A i \in 1..n : Kids[p][i] \in Exec
  BY <1>1, <1>2
<1>4. \A i \in 1..n : Call(at, Kids[p][i]) \in EntryT
  BY <1>3, CallFacts
<1>5. Each(at, p) = [i \in 1..n |-> Call(at, Kids[p][i])]
  BY <1>2 DEF Each
<1>6. Each(at, p) \in [1..n -> EntryT]
  BY <1>4, <1>5
<1>7. Each(at, p) \in Seq(EntryT) /\ Len(Each(at, p)) = n
  BY <1>5, <1>6, IsASeq, LenProperties
<1> QED
  BY <1>2, <1>3, <1>5, <1>7

LEMMA NotAllFacts ==
  ASSUME NEW s \in Seq(EntryT)
  PROVE  NotAll(s) \in Seq(EntryT) /\ Like(NotAll(s), s)
<1> DEFINE ends == {i \in DOMAIN s : s[i].at = "cancelEnd"}
           m == CHOOSE i \in ends : \A j \in ends : i <= j
<1>1. NotAll(s) = IF ends = {} THEN s ELSE [s EXCEPT ![m].all = FALSE]
  BY DEF NotAll
<1>2. PICK n \in Nat : n = Len(s) /\ DOMAIN s = 1..n
  BY LenProperties
<1>3. CASE ends = {}
  BY <1>1, <1>3 DEF Like, LikeEntry
<1>4. CASE ends # {}
  <2>1. ends \subseteq Nat
    BY <1>2
  <2>2. \E i \in ends : \A j \in ends : i <= j
    BY <1>4, <2>1, Smallest
  <2>3. m \in ends
    BY <2>2
  <2> HIDE DEF m
  <2>4. m \in DOMAIN s /\ s[m].at = "cancelEnd" /\ s[m] \in EntryT
    BY <1>2, <2>3
  <2>5. [s[m] EXCEPT !.all = FALSE] \in EntryT
    BY <2>4 DEF EntryT
  <2>6. NotAll(s) = [s EXCEPT ![m] = [s[m] EXCEPT !.all = FALSE]]
    BY <1>1, <1>4
  <2>10. s \in [1..n -> EntryT]
    BY <1>2, LenProperties
  <2>7. /\ NotAll(s) \in [1..n -> EntryT]
        /\ NotAll(s)[m] = [s[m] EXCEPT !.all = FALSE]
        /\ \A i \in 1..n : i # m => NotAll(s)[i] = s[i]
    BY <1>2, <2>4, <2>5, <2>6, <2>10
  <2>8. NotAll(s) \in Seq(EntryT) /\ Len(NotAll(s)) = n
    BY <2>7, IsASeq, LenProperties
  <2>9. \A i \in DOMAIN s : LikeEntry(NotAll(s)[i], s[i])
    BY <1>2, <2>4, <2>7 DEF LikeEntry
  <2> QED
    BY <1>2, <2>8, <2>9 DEF Like
<1> QED
  BY <1>3, <1>4

LEMMA LikeSelf ==
  ASSUME NEW s
  PROVE  Like(s, s)
BY DEF Like, LikeEntry

LEMMA AtFacts ==
  ASSUME SeTypes, ShapeInv, NEW t \in Thread, NEW place, At(t, place)
  PROVE  /\ todo[t] \in Seq(EntryT) /\ todo[t] # <<>> /\ Now(t) = todo[t][1] /\ 1 \in DOMAIN todo[t]
         /\ Now(t) \in EntryT /\ Shape(Now(t)) /\ Now(t).at = place /\ Now(t).e \in Exec /\ Now(t).copy \in Record
         /\ Tail(todo[t]) \in Seq(EntryT) /\ Behind(todo[t]) = Tail(todo[t])
         /\ \A T : Top(todo, t, T) <=> Now(t) \in T
<1>1. todo[t] \in Seq(EntryT) /\ todo[t] # <<>> /\ Now(t).at = place
  BY DEF At, SeTypes, Lists
<1>2. Now(t) = todo[t][1] /\ 1 \in DOMAIN todo[t]
  BY <1>1, EmptySeq, LenProperties DEF Now
<1>3. Now(t) \in EntryT
  BY <1>1, <1>2
<1>4. Tail(todo[t]) \in Seq(EntryT)
  BY <1>1
<1> QED
  BY <1>1, <1>2, <1>3, <1>4 DEF ShapeInv, Top, Behind, EntryT

LEMMA ThenMoves ==
  ASSUME SeTypes, ShapeInv, NEW t \in Thread, NEW place, At(t, place), NEW calls \in Seq(EntryT), Then(t, calls)
  PROVE  Moves(todo, todo', t, calls, Tail(todo[t]))
BY AtFacts, LikeSelf DEF Then, Moves

LEMMA StopMoves ==
  ASSUME SeTypes, ShapeInv, NEW t \in Thread, NEW place, At(t, place), todo' = [todo EXCEPT ![t] = NotAll(Tail(@))]
  PROVE  Moves(todo, todo', t, <<>>, NotAll(Tail(todo[t])))
<1>1. Tail(todo[t]) \in Seq(EntryT) /\ Behind(todo[t]) = Tail(todo[t])
  BY AtFacts
<1>2. NotAll(Tail(todo[t])) \in Seq(EntryT) /\ Like(NotAll(Tail(todo[t])), Tail(todo[t]))
  BY <1>1, NotAllFacts
<1>3. <<>> \o NotAll(Tail(todo[t])) = NotAll(Tail(todo[t]))
  BY <1>2, ConcatEmptySeq
<1> QED
  BY <1>1, <1>2, <1>3 DEF Moves

LEMMA FreshMoves ==
  ASSUME SeTypes, NEW t \in Thread, Idle(t), NEW calls \in Seq(EntryT), todo' = [todo EXCEPT ![t] = calls]
  PROVE  Moves(todo, todo', t, calls, <<>>) /\ \A T : ~Top(todo, t, T)
<1>1. calls \o <<>> = calls
  BY ConcatEmptySeq
<1> QED
  BY <1>1, LikeSelf DEF Moves, Idle, Behind, Top

LEMMA ShapeStep ==
  ASSUME SeTypes, ShapeInv, method' = method, NEW t \in Thread, NEW calls, NEW rest,
         Moves(todo, todo', t, calls, rest), \A i \in DOMAIN calls : Shape(calls[i])
  PROVE  todo' \in Lists /\ ShapeInv'
<1>1. todo \in Lists /\ todo' \in Lists
  BY MovesAt DEF SeTypes
<1>2. Seqs' = Seqs
  BY DEF Seqs
<1>3. \A y : Shape(y)' <=> Shape(y)
  BY <1>2 DEF Shape
<1>4. ASSUME NEW z \in EntryT, NEW y, Shape(z), LikeEntry(y, z)
      PROVE  Shape(y)
  <2>1. CASE y = z
    BY <2>1, <1>4
  <2>2. CASE z.at = "cancelEnd" /\ y = [z EXCEPT !.all = FALSE]
    <3>1. y.at = z.at /\ y.e = z.e /\ y.copy = z.copy
      BY <2>2 DEF EntryT
    <3> QED
      BY <3>1, <2>2, <1>4 DEF Shape
  <2> QED
    BY <2>1, <2>2, <1>4 DEF LikeEntry
<1>5. ASSUME NEW u \in Thread, NEW i \in DOMAIN todo'[u]
      PROVE  Shape(todo'[u][i])
  <2>1. CASE u # t
    <3>1. todo'[u] = todo[u]
      BY <2>1, <1>1 DEF Moves, Lists
    <3> QED
      BY <3>1, <1>5 DEF ShapeInv
  <2>2. CASE u = t
    <3>1. i \in Nat /\ Len(calls) \in Nat
      BY <1>1, <1>5, <2>2, MovesAt
    <3>2. CASE i <= Len(calls)
      <4>1. i \in DOMAIN calls /\ todo'[t][i] = calls[i]
        BY <1>1, <1>5, <2>2, <3>2, MovesAt
      <4> QED
        BY <4>1, <2>2
    <3>3. CASE i > Len(calls)
      <4> DEFINE m == i - Len(calls) + 1
      <4>1. m \in DOMAIN todo[t] /\ LikeEntry(todo'[t][i], todo[t][m])
        BY <1>1, <1>5, <2>2, <3>3, MovesAt
      <4> HIDE DEF m
      <4>2. todo[t][m] \in EntryT /\ Shape(todo[t][m])
        BY <1>1, <4>1 DEF Lists, ShapeInv
      <4> QED
        BY <1>4, <2>2, <4>1, <4>2
    <3> QED
      BY <3>1, <3>2, <3>3
  <2> QED
    BY <2>1, <2>2
<1>6. ShapeInv'
  <2>1. ShapeInv' <=> \A u \in Thread : \A i \in DOMAIN todo'[u] : Shape(todo[u][i])'
    BY DEF ShapeInv
  <2>2. ASSUME NEW u \in Thread, NEW i \in DOMAIN todo'[u]
        PROVE  Shape(todo[u][i])'
    BY <1>2, <1>5 DEF Shape
  <2> QED
    BY <2>1, <2>2
<1> QED
  BY <1>1, <1>6

LEMMA JoinFacts ==
  ASSUME NEW r \in Seq(EntryT), NEW s \in Seq(EntryT)
  PROVE  /\ r \o s \in Seq(EntryT) /\ Len(r) \in Nat /\ Len(s) \in Nat /\ Len(r \o s) = Len(r) + Len(s)
         /\ DOMAIN (r \o s) = 1..(Len(r) + Len(s)) /\ DOMAIN r = 1..Len(r) /\ DOMAIN s = 1..Len(s)
         /\ \A i \in DOMAIN r : i \in DOMAIN (r \o s) /\ (r \o s)[i] = r[i]
         /\ \A i \in DOMAIN s : i + Len(r) \in DOMAIN (r \o s) /\ (r \o s)[i + Len(r)] = s[i]
         /\ \A i \in DOMAIN (r \o s) : i \in DOMAIN r \/ (i - Len(r) \in DOMAIN s /\ (r \o s)[i] = s[i - Len(r)])
<1>1. PICK m \in Nat : m = Len(r) /\ DOMAIN r = 1..m
  BY LenProperties
<1>2. PICK n \in Nat : n = Len(s) /\ DOMAIN s = 1..n
  BY LenProperties
<1> DEFINE c == r \o s
<1>3. c \in Seq(EntryT) /\ Len(c) = m + n /\ \A i \in 1..(m + n) : c[i] = IF i <= m THEN r[i] ELSE s[i - m]
  BY <1>1, <1>2, ConcatProperties
<1>4. DOMAIN c = 1..(m + n)
  BY <1>3, LenProperties
<1> HIDE DEF c
<1>5. \A i \in DOMAIN s : i + m \in DOMAIN c /\ c[i + m] = s[i]
  <2> TAKE i \in DOMAIN s
  <2>1. i \in 1..n /\ i + m \in 1..(m + n) /\ ~(i + m <= m) /\ (i + m) - m = i
    BY <1>2
  <2> QED
    BY <2>1, <1>3, <1>4
<1>6. \A i \in DOMAIN c : i \in DOMAIN r \/ (i - m \in DOMAIN s /\ c[i] = s[i - m])
  BY <1>1, <1>2, <1>3, <1>4
<1>7. \A i \in DOMAIN r : i \in DOMAIN c /\ c[i] = r[i]
  BY <1>1, <1>2, <1>3, <1>4
<1> QED
  BY <1>1, <1>2, <1>3, <1>4, <1>5, <1>6, <1>7 DEF c

LEMMA EmptyFacts ==
  /\ <<>> \in Seq(EntryT) /\ \A i \in DOMAIN <<>> : FALSE
  /\ \A x \in EntryT : <<x>> \in Seq(EntryT) /\ DOMAIN <<x>> = {1} /\ <<x>>[1] = x /\ Len(<<x>>) = 1
<1>1. <<>> \in Seq(EntryT) /\ \A i \in DOMAIN <<>> : FALSE
  OBVIOUS
<1>2. ASSUME NEW x \in EntryT
      PROVE  <<x>> \in Seq(EntryT) /\ DOMAIN <<x>> = {1} /\ <<x>>[1] = x /\ Len(<<x>>) = 1
  OBVIOUS
<1> QED
  BY <1>1, <1>2

\* What StartNode leaves to do
StartsLeaf(e, calls) ==
  /\ e \in Leaves
  /\ \A i \in DOMAIN calls : calls[i].e = e /\ (calls[i].at = "hand" \/ calls[i] \in BeginOf(e))
                             /\ (calls[i].copy.told <=> rec[e].told) /\ (calls[i].copy.status \in {rec[e].status, "executing"})
  /\ \A i, j \in DOMAIN calls : calls[i].at = "hand" /\ calls[j].at = "hand" => i = j
StartsParent(e, calls) ==
  /\ e \in Parents
  /\ 1 \in DOMAIN calls /\ calls[1] \in BeginOf(e) /\ (calls[1].copy.told <=> rec[e].told)
  /\ \A i \in DOMAIN calls : i = 1 \/ \E k \in KidsOf(e) : calls[i] = Call("start", k)
  /\ \A i, j \in DOMAIN calls : calls[i].at = "start" /\ calls[j].at = "start" /\ calls[i].e = calls[j].e => i = j
  /\ e \in Seqs => DOMAIN calls = {1, 2} /\ calls[2] = Call("start", Kids[e][1])

LEMMA StartNodeCalls ==
  ASSUME SeTypes, ShapeInv, NEW t \in Thread, StartNode(t)
  PROVE  \E calls \in Seq(EntryT) :
           /\ Now(t) \in StartOf(Now(t).e)
           /\ Moves(todo, todo', t, calls, Tail(todo[t]))
           /\ calls = <<>> \/ StartsLeaf(Now(t).e, calls) \/ StartsParent(Now(t).e, calls)
           /\ \A i \in DOMAIN calls : Shape(calls[i])
<1> DEFINE e == Now(t).e
           running == [rec[e] EXCEPT !.status = "executing", !.started = Simple(e)]
           handed1 == [rec[e] EXCEPT !.started = TRUE]
<1>1. At(t, "start") /\ e \in Exec /\ Now(t) \in StartOf(e) /\ rec[e] \in Record
  BY AtFacts DEF StartNode, StartOf, SeTypes
<1>2. running \in Record /\ running.status = "executing" /\ (running.told <=> rec[e].told)
  BY <1>1 DEF Record, Status, Simple
<1>3. handed1 \in Record /\ handed1.status = rec[e].status /\ (handed1.told <=> rec[e].told)
  BY <1>1 DEF Record
<1> DEFINE store == Entry("store", e, running)
           hand  == Entry("hand", e, running)
           hand1 == Entry("hand", e, handed1)
<1> HIDE DEF running, handed1, e
<1>0. "store" \in Place /\ "hand" \in Place /\ "start" \in Place
  BY DEF Place
<1>4. /\ store \in EntryT /\ store.at = "store" /\ store.e = e /\ store.copy = running
      /\ hand \in EntryT /\ hand.at = "hand" /\ hand.e = e /\ hand.copy = running
      /\ hand1 \in EntryT /\ hand1.at = "hand" /\ hand1.e = e /\ hand1.copy = handed1
  <2>1. store \in EntryT /\ store.at = "store" /\ store.e = e /\ store.copy = running
    BY <1>0, <1>1, <1>2, EntryFacts, EntryFields
  <2>2. hand \in EntryT /\ hand.at = "hand" /\ hand.e = e /\ hand.copy = running
    BY <1>0, <1>1, <1>2, EntryFacts, EntryFields
  <2>3. hand1 \in EntryT /\ hand1.at = "hand" /\ hand1.e = e /\ hand1.copy = handed1
    BY <1>0, <1>1, <1>3, EntryFacts, EntryFields
  <2> QED
    BY <2>1, <2>2, <2>3
<1>5. store \in BeginOf(e)
  BY <1>2, <1>4 DEF BeginOf
<1>14. rec[e].told => e # Root
  BY DEF SeTypes
<1>6. e \in Leaves => Shape(store) /\ Shape(hand) /\ Shape(hand1)
  BY <1>2, <1>3, <1>4, <1>14 DEF Shape, Ran
<1>7. Shape(store)
  BY <1>2, <1>4, <1>14 DEF Shape, Ran
<1>8. \A calls \in Seq(EntryT) : Then(t, calls) => Moves(todo, todo', t, calls, Tail(todo[t]))
  BY <1>1, ThenMoves
<1>9. Then(t, IF rec[e].status = "absent" THEN <<>>
           ELSE IF ~Simple(e)
           THEN <<store>> \o (IF method[e] = "parallel" THEN Each("start", e) ELSE <<Call("start", Kids[e][1])>>)
           ELSE IF mode[e] = "asynchronous" THEN <<store, hand>> ELSE <<hand1>>)
  BY DEF StartNode, running, handed1, e
<1> HIDE DEF store, hand, hand1
<1>10. CASE rec[e].status = "absent"
  <2>1. Then(t, <<>>)
    BY <1>9, <1>10
  <2> QED
    BY <2>1, <1>1, <1>8, EmptyFacts DEF e
<1>11. CASE rec[e].status # "absent" /\ Simple(e) /\ mode[e] = "asynchronous"
  <2>1. Then(t, <<store, hand>>) /\ e \in Leaves
    BY <1>1, <1>9, <1>11, Tree
  <2> DEFINE calls == <<store, hand>>
  <2>2. calls \in Seq(EntryT) /\ DOMAIN calls = {1, 2} /\ calls[1] = store /\ calls[2] = hand
    BY <1>4
  <2> HIDE DEF calls
  <2>3. StartsLeaf(e, calls)
    BY <2>1, <2>2, <1>2, <1>4, <1>5 DEF StartsLeaf
  <2>4. \A i \in DOMAIN calls : Shape(calls[i])
    BY <2>1, <2>2, <1>6
  <2> QED
    BY <2>1, <2>2, <2>3, <2>4, <1>1, <1>8 DEF e, calls
<1>12. CASE rec[e].status # "absent" /\ Simple(e) /\ mode[e] # "asynchronous"
  <2>1. Then(t, <<hand1>>) /\ e \in Leaves
    BY <1>1, <1>9, <1>12, Tree
  <2> DEFINE calls == <<hand1>>
  <2>2. calls \in Seq(EntryT) /\ DOMAIN calls = {1} /\ calls[1] = hand1
    BY <1>4
  <2> HIDE DEF calls
  <2>3. StartsLeaf(e, calls)
    BY <2>1, <2>2, <1>3, <1>4 DEF StartsLeaf
  <2>4. \A i \in DOMAIN calls : Shape(calls[i])
    BY <2>1, <2>2, <1>6
  <2> QED
    BY <2>1, <2>2, <2>3, <2>4, <1>1, <1>8 DEF e, calls
<1>13. CASE rec[e].status # "absent" /\ ~Simple(e)
  <2> DEFINE starts == IF method[e] = "parallel" THEN Each("start", e) ELSE <<Call("start", Kids[e][1])>>
             calls == <<store>> \o starts
  <2>1. Then(t, calls) /\ e \in Parents /\ 1 \in DOMAIN Kids[e] /\ Kids[e][1] \in Exec
    <3>1. e \in Parents /\ 1 \in DOMAIN Kids[e]
      BY <1>1, <1>13, Tree
    <3>2. Kids[e][1] \in Exec
      BY <1>1, <3>1, Tree
    <3> QED
      BY <1>9, <1>13, <3>1, <3>2
  <2>2. /\ starts \in Seq(EntryT)
        /\ \A i \in DOMAIN starts : i \in DOMAIN Kids[e] /\ starts[i] = Call("start", Kids[e][i]) /\ Kids[e][i] \in Exec
        /\ method[e] # "parallel" => DOMAIN starts = {1} /\ Len(starts) = 1 /\ starts[1] = Call("start", Kids[e][1])
    <3>1. CASE method[e] = "parallel"
      <4>1. starts = Each("start", e)
        BY <3>1
      <4> QED
        BY <4>1, <1>1, <3>1, EachFacts DEF Place
    <3>2. CASE method[e] # "parallel"
      <4>1. starts = <<Call("start", Kids[e][1])>>
        BY <3>2
      <4>2. Call("start", Kids[e][1]) \in EntryT
        BY <1>0, <2>1, CallFacts
      <4>3. starts \in Seq(EntryT) /\ DOMAIN starts = {1} /\ Len(starts) = 1 /\ starts[1] = Call("start", Kids[e][1])
        BY <4>1, <4>2, EmptyFacts
      <4> QED
        BY <4>3, <2>1, <3>2
    <3> QED
      BY <3>1, <3>2
  <2>3. e \in Seqs => method[e] # "parallel"
    BY DEF Seqs
  <2> HIDE DEF starts
  <2>4. <<store>> \in Seq(EntryT) /\ DOMAIN <<store>> = {1} /\ <<store>>[1] = store /\ Len(<<store>>) = 1
    BY <1>4, EmptyFacts
  <2>5. /\ calls \in Seq(EntryT) /\ Len(starts) \in Nat /\ DOMAIN calls = 1..(1 + Len(starts))
        /\ 1 \in DOMAIN calls /\ calls[1] = store
        /\ \A i \in DOMAIN calls : i = 1 \/ (i - 1 \in DOMAIN starts /\ calls[i] = starts[i - 1])
        /\ \A i \in DOMAIN starts : calls[i + 1] = starts[i]
    <3> DEFINE r == <<store>>
    <3>1. r \in Seq(EntryT) /\ DOMAIN r = {1} /\ r[1] = store /\ Len(r) = 1
      BY <2>4
    <3> HIDE DEF r
    <3>4. /\ r \o starts \in Seq(EntryT) /\ Len(starts) \in Nat
          /\ DOMAIN (r \o starts) = 1..(Len(r) + Len(starts))
          /\ \A i \in DOMAIN r : i \in DOMAIN (r \o starts) /\ (r \o starts)[i] = r[i]
          /\ \A i \in DOMAIN starts : (r \o starts)[i + Len(r)] = starts[i]
          /\ \A i \in DOMAIN (r \o starts) : i \in DOMAIN r \/ (i - Len(r) \in DOMAIN starts /\ (r \o starts)[i] = starts[i - Len(r)])
      BY <2>2, <3>1, JoinFacts, ZenonT(60)
    <3>2. /\ r \o starts \in Seq(EntryT) /\ Len(starts) \in Nat
          /\ DOMAIN (r \o starts) = 1..(1 + Len(starts))
          /\ \A i \in DOMAIN r : i \in DOMAIN (r \o starts) /\ (r \o starts)[i] = r[i]
          /\ \A i \in DOMAIN starts : (r \o starts)[i + 1] = starts[i]
          /\ \A i \in DOMAIN (r \o starts) : i \in DOMAIN r \/ (i - 1 \in DOMAIN starts /\ (r \o starts)[i] = starts[i - 1])
      BY <3>1, <3>4
    <3>3. calls = r \o starts
      BY DEF r
    <3> HIDE DEF calls
    <3> QED
      BY <3>1, <3>2, <3>3
  <2> HIDE DEF calls
  <2>6. \A k \in Exec : Call("start", k).at = "start" /\ Call("start", k).e = k
    BY CallFields
  <2>7. \A i \in DOMAIN calls : i = 1 \/ \E k \in KidsOf(e) : calls[i] = Call("start", k)
    BY <2>2, <2>5, <1>1, Tree
  <2>8. ASSUME NEW i \in DOMAIN calls, NEW j \in DOMAIN calls, calls[i].at = "start", calls[j].at = "start", calls[i].e = calls[j].e
        PROVE  i = j
    <3>1. i # 1 /\ j # 1
      BY <2>5, <2>8, <1>4
    <3>2. i - 1 \in DOMAIN Kids[e] /\ j - 1 \in DOMAIN Kids[e] /\ Kids[e][i - 1] = Kids[e][j - 1]
      BY <3>1, <2>2, <2>5, <2>6, <2>8
    <3>3. i - 1 = j - 1
      BY <3>2, <1>1, Tree
    <3>4. i \in Nat /\ j \in Nat
      BY <2>5
    <3> QED
      BY <3>3, <3>4
  <2>9. e \in Seqs => DOMAIN calls = {1, 2} /\ calls[2] = Call("start", Kids[e][1])
    <3> SUFFICES ASSUME e \in Seqs
                 PROVE  DOMAIN calls = {1, 2} /\ calls[2] = Call("start", Kids[e][1])
      OBVIOUS
    <3>1. Len(starts) = 1 /\ DOMAIN starts = {1} /\ starts[1] = Call("start", Kids[e][1])
      BY <2>2, <2>3
    <3>2. calls[1 + 1] = starts[1]
      BY <3>1, <2>5
    <3>3. DOMAIN calls = 1..(1 + 1)
      BY <3>1, <2>5
    <3> QED
      BY <3>1, <3>2, <3>3
  <2>10. StartsParent(e, calls)
    BY <2>1, <2>5, <2>7, <2>8, <2>9, <1>2, <1>4, <1>5 DEF StartsParent
  <2>11. \A i \in DOMAIN calls : Shape(calls[i])
    <3>1. \A k : Call("start", k).copy.told = FALSE /\ Call("start", k).at = "start"
      BY CallFields DEF Blank
    <3>2. \A k : Shape(Call("start", k))
      BY <3>1 DEF Shape
    <3> QED
      BY <2>5, <2>7, <3>2, <1>7
  <2> QED
    BY <2>1, <2>5, <2>10, <2>11, <1>1, <1>8 DEF e, calls
<1> QED
  BY <1>10, <1>11, <1>12, <1>13

\* One call more, or none
LEMMA OneCall ==
  ASSUME SeTypes, ShapeInv, NEW t \in Thread, NEW place, At(t, place), NEW x \in EntryT, Shape(x), Then(t, <<x>>)
  PROVE  /\ Moves(todo, todo', t, <<x>>, Tail(todo[t]))
         /\ \A i \in DOMAIN <<x>> : Shape(<<x>>[i])
BY EmptyFacts, ThenMoves

LEMMA NoCall ==
  ASSUME SeTypes, ShapeInv, NEW t \in Thread, NEW place, At(t, place), Then(t, <<>>)
  PROVE  /\ Moves(todo, todo', t, <<>>, Tail(todo[t]))
         /\ \A i \in DOMAIN <<>> : Shape(<<>>[i])
BY EmptyFacts, ThenMoves

LEMMA WithFacts ==
  ASSUME NEW copy \in Record, NEW status \in Status
  PROVE  /\ With(copy, status) \in Record /\ With(copy, status).status = status
         /\ With(copy, status).told <=> copy.told
BY DEF With, Record

LEMMA UntoldFacts ==
  ASSUME NEW copy \in Record
  PROVE  /\ Untold(copy) \in Record /\ Untold(copy).status = copy.status
         /\ ~Untold(copy).told
BY DEF Untold, Record

\* A thread's step, its innermost call done, and what is left as it is
LEMMA HandOverCalls ==
  ASSUME SeTypes, ShapeInv, NEW t \in Thread, HandOver(t)
  PROVE  \E calls \in Seq(EntryT) :
           /\ Now(t) \in HandOf(Now(t).e) /\ Now(t).e \in Leaves
           /\ Moves(todo, todo', t, calls, Tail(todo[t])) /\ \A i \in DOMAIN calls : Shape(calls[i])
           /\ calls = <<>> \/ calls = <<Entry("answer", Now(t).e, Now(t).copy)>>
<1>1. At(t, "hand") /\ Shape(Now(t)) /\ Now(t) \in EntryT /\ Now(t) \in HandOf(Now(t).e) /\ Now(t).e \in Leaves /\ Now(t).e \in Exec /\ Now(t).copy \in Record
  BY AtFacts DEF HandOver, HandOf, Shape
<1>2. "answer" \in Place
  BY DEF Place
<1> DEFINE x == Entry("answer", Now(t).e, Now(t).copy)
<1>3. x \in EntryT /\ x.at = "answer" /\ x.e = Now(t).e /\ x.copy = Now(t).copy
  BY <1>1, <1>2, EntryFacts, EntryFields
<1>4. Then(t, <<x>>) \/ Then(t, <<>>)
  BY DEF HandOver
<1> HIDE DEF x
<1>5. Shape(x)
  BY <1>1, <1>3 DEF Shape
<1>6. CASE Then(t, <<x>>)
  BY <1>1, <1>3, <1>5, <1>6, OneCall, EmptyFacts DEF x
<1>7. CASE Then(t, <<>>)
  BY <1>1, <1>7, NoCall, EmptyFacts
<1> QED
  BY <1>4, <1>6, <1>7

\* The store of an end by the thread that made it
LEMMA EndCalls ==
  ASSUME SeTypes, ShapeInv, NEW t \in Thread, HandOverFails(t) \/ Answer(t)
  PROVE  \E x \in EntryT :
           /\ Now(t).at \in {"hand", "answer"} /\ Now(t) \in RunOf(Now(t).e) /\ Now(t).e \in Leaves
           /\ Moves(todo, todo', t, <<x>>, Tail(todo[t])) /\ \A i \in DOMAIN <<x>> : Shape(<<x>>[i])
           /\ x.at = "store" /\ x.e = Now(t).e /\ x.copy.status \in {"completed", "failed"} /\ (x.copy.told <=> Now(t).copy.told)
<1>1. PICK place \in {"hand", "answer"} : At(t, place)
  BY DEF HandOverFails, Answer
<1>2. Shape(Now(t)) /\ Now(t) \in EntryT /\ Now(t).at = place /\ Now(t) \in RunOf(Now(t).e) /\ Now(t).e \in Leaves /\ Now(t).e \in Exec /\ Now(t).copy \in Record
  BY <1>1, AtFacts DEF RunOf, Shape
<1>3. PICK status \in {"completed", "failed"} : Then(t, <<Entry("store", Now(t).e, With(Now(t).copy, status))>>)
  BY DEF HandOverFails, Answer
<1>4. "store" \in Place /\ status \in Status
  BY DEF Place, Status
<1>5. PICK copy \in Record : copy = With(Now(t).copy, status) /\ copy.status = status /\ (copy.told <=> Now(t).copy.told)
  BY <1>2, <1>4, WithFacts
<1> DEFINE x == Entry("store", Now(t).e, copy)
<1>6. x \in EntryT /\ x.at = "store" /\ x.e = Now(t).e /\ x.copy = copy
  BY <1>2, <1>4, EntryFacts, EntryFields
<1>7. Then(t, <<x>>)
  BY <1>3, <1>5
<1> HIDE DEF x
<1>8. Shape(x)
  BY <1>2, <1>5, <1>6 DEF Shape, Ran
<1> QED
  BY <1>1, <1>2, <1>5, <1>6, <1>7, <1>8, OneCall

\* The store of a record
LEMMA StoreCalls ==
  ASSUME SeTypes, ShapeInv, NEW t \in Thread, Store(t)
  PROVE  \E calls \in Seq(EntryT) : \E rest :
           /\ Now(t).at = "store" /\ Now(t).e \in Exec /\ Now(t) \in EntryT
           /\ Moves(todo, todo', t, calls, rest) /\ \A i \in DOMAIN calls : Shape(calls[i])
           /\ rest = Tail(todo[t]) \/ (rest = NotAll(Tail(todo[t])) /\ ~Live(Now(t).e))
           /\ calls = <<>> \/ \E p \in Parents :
                /\ calls = <<Call("childEnded", p)>> /\ Now(t).e \in KidsOf(p)
                /\ Live(Now(t).e) /\ Now(t).copy.told /\ Terminal(Now(t).copy.status)
<1> DEFINE e == Now(t).e
           tells == Live(e) /\ Now(t).copy.told /\ Terminal(Now(t).copy.status)
<1>1. At(t, "store") /\ Now(t) \in EntryT /\ Now(t).at = "store" /\ e \in Exec /\ Shape(Now(t))
  BY AtFacts DEF Store
<1>2. \/ todo' = [todo EXCEPT ![t] = NotAll(Tail(@))] /\ ~Live(e)
      \/ Then(t, <<>>)
      \/ tells /\ Then(t, <<Call("childEnded", ParentOf(e))>>)
  BY DEF Store, Live
<1>3. CASE todo' = [todo EXCEPT ![t] = NotAll(Tail(@))] /\ ~Live(e)
  BY <1>1, <1>3, StopMoves, EmptyFacts
<1>4. CASE Then(t, <<>>)
  BY <1>1, <1>4, NoCall, EmptyFacts
<1>5. CASE tells /\ Then(t, <<Call("childEnded", ParentOf(e))>>)
  <2>1. e # Root
    BY <1>1, <1>5 DEF Shape
  <2>2. PICK p \in Parents : p = ParentOf(e) /\ e \in KidsOf(p)
    BY <1>1, <2>1, HasParent
  <2>3. "childEnded" \in Place /\ p \in Exec
    BY Tree DEF Place
  <2> DEFINE x == Call("childEnded", p)
  <2>4. x \in EntryT /\ x.at = "childEnded" /\ x.e = p /\ x.copy = Blank
    BY <2>3, CallFacts, CallFields
  <2>5. Then(t, <<x>>)
    BY <1>5, <2>2
  <2> HIDE DEF x
  <2>6. Shape(x)
    BY <2>4 DEF Shape, Blank
  <2> QED
    BY <1>1, <1>5, <2>2, <2>4, <2>5, <2>6, OneCall, EmptyFacts DEF x
<1> QED
  BY <1>2, <1>3, <1>4, <1>5

LEMMA ChildEndedCalls ==
  ASSUME SeTypes, ShapeInv, NEW t \in Thread, ChildEnded(t)
  PROVE  \E calls \in Seq(EntryT) :
           /\ Now(t).e \in Parents /\ Now(t) \in PastOf(Now(t).e)
           /\ Moves(todo, todo', t, calls, Tail(todo[t])) /\ \A i \in DOMAIN calls : Shape(calls[i])
           /\ calls = <<>> \/ calls = <<Entry("look", Now(t).e, rec[Now(t).e])>>
<1> DEFINE p == Now(t).e
<1>1. At(t, "childEnded") /\ Now(t) \in EntryT /\ p \in Parents /\ p \in Exec /\ Now(t) \in PastOf(p) /\ rec[p] \in Record
  BY AtFacts DEF ChildEnded, PastOf, Shape, SeTypes
<1>2. "look" \in Place /\ Len(Kids[p]) > 0
  BY <1>1, Tree DEF Place
<1> DEFINE x == Entry("look", p, rec[p])
<1>3. x \in EntryT /\ x.at = "look" /\ x.e = p /\ x.saw = <<>> /\ x.copy = rec[p]
  BY <1>1, <1>2, EntryFacts, EntryFields
<1>4. Then(t, <<x>>) \/ Then(t, <<>>)
  BY DEF ChildEnded
<1> HIDE DEF x
<1>5. Shape(x)
  <2>1. Len(x.saw) = 0
    BY <1>3
  <2>2. rec[p].told => p # Root
    BY DEF SeTypes
  <2> QED
    BY <2>1, <2>2, <1>1, <1>2, <1>3 DEF Shape
<1>6. CASE Then(t, <<x>>)
  BY <1>1, <1>3, <1>5, <1>6, OneCall, EmptyFacts DEF x
<1>7. CASE Then(t, <<>>)
  BY <1>1, <1>7, NoCall, EmptyFacts
<1> QED
  BY <1>4, <1>6, <1>7

LEMMA DropCalls ==
  ASSUME SeTypes, ShapeInv, NEW t \in Thread, Drop(t)
  PROVE  \E calls \in Seq(EntryT) :
           /\ Now(t).at = "drop" /\ Now(t).e \in Exec /\ Now(t) \in EntryT
           /\ \E p \in Seqs : Now(t).e \in KidsOf(p)
           /\ Moves(todo, todo', t, calls, Tail(todo[t])) /\ \A i \in DOMAIN calls : Shape(calls[i])
           /\ \/ calls = <<>> /\ rec[Now(t).e].status # "pending"
              \/ /\ rec[Now(t).e].status = "pending"
                 /\ \E x \in EntryT : calls = <<x>> /\ x.at = "replace" /\ x.e = Now(t).e
                                      /\ x.copy.status = "cancelled" /\ ~x.copy.told
<1> DEFINE k == Now(t).e
<1>1. At(t, "drop") /\ Now(t) \in EntryT /\ Now(t).at = "drop" /\ k \in Exec /\ rec[k] \in Record /\ \E p \in Seqs : k \in KidsOf(p)
  BY AtFacts DEF Drop, Shape, SeTypes
<1>2. "replace" \in Place /\ "cancelled" \in Status
  BY DEF Place, Status
<1>3. PICK c \in Record : c = With(rec[k], "cancelled") /\ c.status = "cancelled"
  BY <1>1, <1>2, WithFacts
<1>4. PICK copy \in Record : copy = Untold(c) /\ copy.status = "cancelled" /\ ~copy.told
  BY <1>2, <1>3, UntoldFacts
<1> DEFINE x == Entry("replace", k, copy)
<1>5. x \in EntryT /\ x.at = "replace" /\ x.e = k /\ x.copy = copy
  BY <1>1, <1>2, EntryFacts, EntryFields
<1>6. \/ Then(t, <<x>>) /\ rec[k].status = "pending"
      \/ Then(t, <<>>) /\ rec[k].status # "pending"
  BY <1>3, <1>4 DEF Drop
<1> HIDE DEF x
<1>7. Shape(x)
  BY <1>1, <1>4, <1>5 DEF Shape
<1>8. CASE Then(t, <<x>>) /\ rec[k].status = "pending"
  BY <1>1, <1>4, <1>5, <1>7, <1>8, OneCall, EmptyFacts
<1>9. CASE Then(t, <<>>) /\ rec[k].status # "pending"
  BY <1>1, <1>9, NoCall, EmptyFacts
<1> QED
  BY <1>6, <1>8, <1>9

\* A call for each child, then one for the parent
Before(at, p, x, calls) ==
  /\ calls \in Seq(EntryT) /\ Len(calls) \in Nat /\ Len(calls) \in DOMAIN calls /\ DOMAIN calls = 1..Len(calls)
  /\ calls[Len(calls)] = x
  /\ \A i \in DOMAIN calls : i = Len(calls) \/ \E k \in KidsOf(p) : calls[i] = Call(at, k)
  /\ \A k \in KidsOf(p) : \E i \in DOMAIN calls : i < Len(calls) /\ calls[i] = Call(at, k)

LEMMA EachThen ==
  ASSUME NEW at \in Place, NEW p \in Exec, NEW x \in EntryT
  PROVE  Before(at, p, x, Each(at, p) \o <<x>>)
<1> DEFINE r == Each(at, p)
           s == <<x>>
<1>1. /\ r \in Seq(EntryT) /\ DOMAIN r = DOMAIN Kids[p]
      /\ \A i \in DOMAIN Kids[p] : r[i] = Call(at, Kids[p][i]) /\ Kids[p][i] \in Exec
  BY EachFacts
<1>2. s \in Seq(EntryT) /\ DOMAIN s = {1} /\ s[1] = x /\ Len(s) = 1
  BY EmptyFacts
<1>3. r \o s = Each(at, p) \o <<x>>
  OBVIOUS
<1> HIDE DEF r, s
<1>4. PICK n \in Nat : n = Len(r)
  BY <1>1, LenProperties
<1>5. PICK calls : calls = r \o s
  OBVIOUS
<1>6. /\ calls \in Seq(EntryT) /\ Len(calls) = n + 1 /\ DOMAIN calls = 1..(n + 1) /\ DOMAIN r = 1..n
      /\ \A i \in DOMAIN r : i \in DOMAIN calls /\ calls[i] = r[i]
      /\ \A i \in DOMAIN s : i + n \in DOMAIN calls /\ calls[i + n] = s[i]
      /\ \A i \in DOMAIN calls : i \in DOMAIN r \/ (i - n \in DOMAIN s /\ calls[i] = s[i - n])
  BY <1>1, <1>2, <1>4, <1>5, JoinFacts
<1>7. n + 1 \in DOMAIN calls /\ calls[n + 1] = x
  <2>1. 1 + n \in DOMAIN calls /\ calls[1 + n] = s[1] /\ 1 + n = n + 1
    BY <1>2, <1>4, <1>6
  <2> QED
    BY <2>1, <1>2
<1>8. \A i \in DOMAIN calls : i = n + 1 \/ \E k \in KidsOf(p) : calls[i] = Call(at, k)
  <2> TAKE i \in DOMAIN calls
  <2>1. CASE i \in DOMAIN r
    <3>1. i \in DOMAIN Kids[p] /\ Kids[p][i] \in KidsOf(p)
      BY <2>1, <1>1, Tree
    <3>2. calls[i] = Call(at, Kids[p][i])
      BY <2>1, <3>1, <1>1, <1>6
    <3> QED
      BY <3>1, <3>2
  <2>2. CASE i - n \in DOMAIN s
    BY <2>2, <1>2, <1>4, <1>6
  <2> QED
    BY <2>1, <2>2, <1>6
<1>9. \A k \in KidsOf(p) : \E i \in DOMAIN calls : i < n + 1 /\ calls[i] = Call(at, k)
  <2> TAKE k \in KidsOf(p)
  <2>1. PICK i \in DOMAIN Kids[p] : k = Kids[p][i]
    BY Tree
  <2>2. i \in DOMAIN r /\ calls[i] = Call(at, k) /\ i \in DOMAIN calls /\ i < n + 1
    BY <2>1, <1>1, <1>4, <1>6
  <2> QED
    BY <2>2
<1>10. Before(at, p, x, calls)
  BY <1>4, <1>6, <1>7, <1>8, <1>9 DEF Before
<1> QED
  BY <1>3, <1>5, <1>10

\* What a look at a child leaves to do
Looks(p, saw, copy, calls) ==
  LET full == DOMAIN saw = DOMAIN Kids[p]
  IN  \/ calls = <<>>
      \/ \E x \in EntryT : calls = <<x>> /\ x.at = "look" /\ x.e = p /\ x.saw = saw /\ x.copy = copy
      \/ /\ full
         /\ \E x \in EntryT :
              /\ calls = <<x>> /\ x.at = "store" /\ x.e = p /\ x.copy.status \in {"completed", "failed"}
              /\ x.copy.status = "completed" => \A i \in DOMAIN saw : saw[i] = "completed"
              /\ x.copy.status = "failed" =>
                   p \notin Seqs /\ (\E i \in DOMAIN saw : saw[i] \in {"failed", "cancelled"}) /\ \A i \in DOMAIN saw : Terminal(saw[i])
      \/ /\ full /\ p \in Seqs /\ \E i \in DOMAIN saw : saw[i] \in {"failed", "cancelled"}
         /\ \E x \in EntryT :
              x.at = "store" /\ x.e = p /\ x.copy.status = "failed" /\ Before("drop", p, x, calls)
      \/ /\ full /\ p \in Seqs
         /\ \E j \in DOMAIN Kids[p] :
              /\ calls = <<Call("start", Kids[p][j])>> /\ saw[j] = "pending"
              /\ \A i \in DOMAIN Kids[p] : i < j => saw[i] \notin {"pending", "failed", "cancelled"}

LEMMA LookCalls ==
  ASSUME SeTypes, ShapeInv, NEW t \in Thread, Look(t)
  PROVE  \E calls \in Seq(EntryT), saw \in Seq(Status) :
           /\ Now(t).at = "look" /\ Now(t).e \in Parents /\ Now(t) \in PastOf(Now(t).e)
           /\ Moves(todo, todo', t, calls, Tail(todo[t])) /\ \A i \in DOMAIN calls : Shape(calls[i])
           /\ \A i \in DOMAIN saw : /\ i \in DOMAIN Kids[Now(t).e]
                                    /\ \/ i \in DOMAIN Now(t).saw /\ saw[i] = Now(t).saw[i]
                                       \/ saw[i] = rec[Kids[Now(t).e][i]].status
           /\ Looks(Now(t).e, saw, Now(t).copy, calls)
           /\ \A i \in DOMAIN calls : calls[i].e = Now(t).e => (calls[i].copy.told => Now(t).copy.told)
<1> DEFINE p == Now(t).e
           old == Now(t).saw
           k == Kids[p][Len(old) + 1]
           saw == Append(old, rec[k].status)
           copy == Now(t).copy
<1>1. At(t, "look") /\ Shape(Now(t)) /\ Now(t) \in EntryT /\ p \in Parents /\ p \in Exec /\ Now(t) \in PastOf(p) /\ copy \in Record
      /\ Now(t).at = "look" /\ old \in Seq(Status) /\ Len(old) < Len(Kids[p]) /\ (copy.told => p # Root)
  BY AtFacts DEF Look, PastOf, Shape, EntryT
<1>2. PICK n \in Nat : n = Len(old) /\ DOMAIN old = 1..n
  BY <1>1, LenProperties
<1>3. Kids[p] \in Seq(Exec) /\ Len(Kids[p]) \in Nat /\ DOMAIN Kids[p] = 1..Len(Kids[p])
  BY <1>1, Tree, LenProperties
<1>4. n + 1 \in DOMAIN Kids[p] /\ k \in Exec /\ k = Kids[p][n + 1]
  BY <1>1, <1>2, <1>3
<1>5. rec[k].status \in Status
  BY <1>4 DEF SeTypes, Record
<1>6. /\ saw \in Seq(Status) /\ Len(saw) = n + 1 /\ DOMAIN saw = 1..(n + 1) /\ saw[n + 1] = rec[k].status
      /\ \A i \in 1..n : saw[i] = old[i]
  <2>1. saw \in Seq(Status) /\ Len(saw) = n + 1 /\ saw[n + 1] = rec[k].status /\ \A i \in 1..n : saw[i] = old[i]
    BY <1>1, <1>2, <1>5, AppendProperties
  <2> QED
    BY <2>1, LenProperties
<1>7. Then(t, IF Len(saw) < Len(Kids[p]) THEN <<[Now(t) EXCEPT !.saw = saw]>> ELSE AfterLook(p, copy, saw))
  BY DEF Look
<1>8. \A i \in DOMAIN saw : /\ i \in DOMAIN Kids[p]
                            /\ \/ i \in DOMAIN old /\ saw[i] = old[i]
                               \/ saw[i] = rec[Kids[p][i]].status
  <2> TAKE i \in DOMAIN saw
  <2>1. i \in 1..n \/ i = n + 1
    BY <1>6
  <2> QED
    BY <2>1, <1>1, <1>2, <1>3, <1>4, <1>6
<1>9. PICK w \in Seq(Status) : w = saw
  BY <1>6
<1> HIDE DEF saw, old, k
<1>10. SUFFICES ASSUME TRUE
       PROVE  \E calls \in Seq(EntryT) :
                /\ Moves(todo, todo', t, calls, Tail(todo[t])) /\ \A i \in DOMAIN calls : Shape(calls[i])
                /\ Looks(p, w, copy, calls)
                /\ \A i \in DOMAIN calls : calls[i].e = p => (calls[i].copy.told => copy.told)
  <2>1. \A i \in DOMAIN w : /\ i \in DOMAIN Kids[p]
                            /\ \/ i \in DOMAIN Now(t).saw /\ w[i] = Now(t).saw[i]
                               \/ w[i] = rec[Kids[p][i]].status
    BY <1>8, <1>9 DEF old
  <2> QED
    BY <2>1, <1>1, <1>9
<1>11. Then(t, <<>>) => /\ Moves(todo, todo', t, <<>>, Tail(todo[t])) /\ (\A i \in DOMAIN <<>> : Shape(<<>>[i])) /\ <<>> \in Seq(EntryT)
                        /\ Looks(p, w, copy, <<>>) /\ \A i \in DOMAIN <<>> : FALSE
  BY <1>1, NoCall, EmptyFacts DEF Looks
<1>12. CASE Len(saw) < Len(Kids[p])
  <2> DEFINE x == [Now(t) EXCEPT !.saw = w]
  <2>1. x \in EntryT /\ x.at = "look" /\ x.e = p /\ x.saw = w /\ x.copy = copy
    BY <1>1, <1>9 DEF EntryT
  <2>2. Then(t, <<x>>)
    BY <1>7, <1>9, <1>12
  <2> HIDE DEF x
  <2>3. Shape(x)
    BY <2>1, <1>1, <1>9, <1>12 DEF Shape
  <2>4. Moves(todo, todo', t, <<x>>, Tail(todo[t])) /\ (\A i \in DOMAIN <<x>> : Shape(<<x>>[i])) /\ <<x>> \in Seq(EntryT)
        /\ DOMAIN <<x>> = {1} /\ <<x>>[1] = x
    BY <2>1, <2>2, <2>3, <1>1, OneCall, EmptyFacts
  <2>5. Looks(p, w, copy, <<x>>)
    BY <2>1 DEF Looks
  <2>6. \A i \in DOMAIN <<x>> : <<x>>[i].e = p => (<<x>>[i].copy.told => copy.told)
    BY <2>1, <2>4
  <2> QED
    BY <2>4, <2>5, <2>6
<1>13. CASE ~(Len(saw) < Len(Kids[p]))
  <2>1. DOMAIN w = DOMAIN Kids[p]
    BY <1>2, <1>3, <1>4, <1>6, <1>9, <1>13
  <2>2. Then(t, AfterLook(p, copy, w))
    BY <1>7, <1>9, <1>13
  <2>3. p \in Seqs <=> method[p] # "parallel"
    BY <1>1 DEF Seqs, SeTypes
  <2>4. "store" \in Place /\ "start" \in Place /\ "drop" \in Place /\ "completed" \in Status /\ "failed" \in Status
    BY DEF Place, Status
  <2> DEFINE status == IF Wrong(w) THEN "failed" ELSE "completed"
  <2>5. PICK c \in Record : c = With(copy, status) /\ c.status = status /\ (c.told <=> copy.told)
    BY <1>1, <2>4, WithFacts
  <2> DEFINE x == Entry("store", p, c)
  <2>6. x \in EntryT /\ x.at = "store" /\ x.e = p /\ x.copy = c
    BY <1>1, <2>4, <2>5, EntryFacts, EntryFields
  <2>7. AfterLook(p, copy, w) =
          IF method[p] = "parallel"
          THEN IF \A i \in DOMAIN w : Terminal(w[i]) THEN <<x>> ELSE <<>>
          ELSE IF Wrong(w) THEN Each("drop", p) \o <<x>>
          ELSE IF NextPending(w) # {} THEN <<Call("start", Kids[p][CHOOSE i \in NextPending(w) : TRUE])>>
          ELSE IF \A i \in DOMAIN w : w[i] = "completed" THEN <<x>>
          ELSE <<>>
    BY <2>5 DEF AfterLook
  <2> HIDE DEF x
  <2>8. Shape(x)
    BY <1>1, <2>5, <2>6 DEF Shape, Ran
  <2>9. Wrong(w) <=> \E i \in DOMAIN w : w[i] \in {"failed", "cancelled"}
    BY DEF Wrong
  <2>10. ASSUME Then(t, <<x>>), Looks(p, w, copy, <<x>>)
         PROVE  \E calls \in Seq(EntryT) :
                /\ Moves(todo, todo', t, calls, Tail(todo[t])) /\ \A i \in DOMAIN calls : Shape(calls[i])
                /\ Looks(p, w, copy, calls)
                /\ \A i \in DOMAIN calls : calls[i].e = p => (calls[i].copy.told => copy.told)
    <3>1. Moves(todo, todo', t, <<x>>, Tail(todo[t])) /\ (\A i \in DOMAIN <<x>> : Shape(<<x>>[i])) /\ <<x>> \in Seq(EntryT)
          /\ DOMAIN <<x>> = {1} /\ <<x>>[1] = x
      BY <2>6, <2>8, <2>10, <1>1, OneCall, EmptyFacts
    <3>2. \A i \in DOMAIN <<x>> : <<x>>[i].e = p => (<<x>>[i].copy.told => copy.told)
      BY <3>1, <2>5, <2>6
    <3> QED
      BY <3>1, <3>2, <2>10
  <2>11. CASE method[p] = "parallel"
    <3>1. CASE \A i \in DOMAIN w : Terminal(w[i])
      <4>1. Then(t, <<x>>)
        BY <2>2, <2>7, <2>11, <3>1
      <4>2. ~Wrong(w) => \A i \in DOMAIN w : w[i] = "completed"
        BY <2>9, <3>1 DEF Terminal
      <4>3. Looks(p, w, copy, <<x>>)
        BY <2>1, <2>3, <2>5, <2>6, <2>9, <2>11, <3>1, <4>2 DEF Looks
      <4> QED
        BY <4>1, <4>3, <2>10
    <3>2. CASE ~\A i \in DOMAIN w : Terminal(w[i])
      <4>1. Then(t, <<>>)
        BY <2>2, <2>7, <2>11, <3>2
      <4> QED
        BY <4>1, <1>11
    <3> QED
      BY <3>1, <3>2
  <2>12. CASE method[p] # "parallel" /\ Wrong(w)
    <3> DEFINE calls == Each("drop", p) \o <<x>>
    <3>1. Then(t, calls)
      BY <2>2, <2>7, <2>12
    <3>2. Before("drop", p, x, calls)
      BY <1>1, <2>4, <2>6, EachThen
    <3> HIDE DEF calls
    <3>3. calls \in Seq(EntryT)
      BY <3>2 DEF Before
    <3>4. Moves(todo, todo', t, calls, Tail(todo[t]))
      BY <1>1, <3>1, <3>3, ThenMoves
    <3>5. Looks(p, w, copy, calls)
      BY <2>1, <2>3, <2>5, <2>6, <2>9, <2>12, <3>2 DEF Looks
    <3>6. \A q \in KidsOf(p) : Call("drop", q).at = "drop" /\ Call("drop", q).e = q /\ ~Call("drop", q).copy.told
      BY CallFields DEF Blank
    <3>7. p \in Seqs
      BY <2>3, <2>12
    <3>8. \A q \in KidsOf(p) : Shape(Call("drop", q))
      BY <3>6, <3>7 DEF Shape
    <3>9. \A i \in DOMAIN calls : Shape(calls[i]) /\ (calls[i].e = p => (calls[i].copy.told => copy.told))
      BY <3>2, <3>6, <3>8, <2>5, <2>6, <2>8 DEF Before
    <3> QED
      BY <3>3, <3>4, <3>5, <3>9
  <2>13. CASE method[p] # "parallel" /\ ~Wrong(w) /\ NextPending(w) # {}
    <3>1. PICK j : j = CHOOSE i \in NextPending(w) : TRUE
      OBVIOUS
    <3>2. j \in NextPending(w)
      BY <3>1, <2>13
    <3>3. j \in DOMAIN w /\ w[j] = "pending" /\ \A i \in 1..(j - 1) : w[i] # "pending"
      BY <3>2 DEF NextPending
    <3>4. j \in DOMAIN Kids[p] /\ Kids[p][j] \in Exec
      BY <2>1, <3>3, <1>1, Tree
    <3> DEFINE y == Call("start", Kids[p][j])
    <3>5. Then(t, <<y>>)
      BY <2>2, <2>7, <2>13, <3>1
    <3>6. y \in EntryT /\ y.at = "start" /\ y.e = Kids[p][j] /\ ~y.copy.told
      BY <3>4, <2>4, CallFacts, CallFields DEF Blank
    <3>7. \A i \in DOMAIN Kids[p] : i < j => w[i] \notin {"pending", "failed", "cancelled"}
      BY <1>3, <2>1, <2>9, <2>13, <3>3
    <3>8. Looks(p, w, copy, <<y>>)
      BY <2>1, <2>3, <2>13, <3>3, <3>4, <3>7 DEF Looks
    <3> HIDE DEF y
    <3>9. Shape(y)
      BY <3>6 DEF Shape
    <3>10. Moves(todo, todo', t, <<y>>, Tail(todo[t])) /\ (\A i \in DOMAIN <<y>> : Shape(<<y>>[i])) /\ <<y>> \in Seq(EntryT)
           /\ DOMAIN <<y>> = {1} /\ <<y>>[1] = y
      BY <3>5, <3>6, <3>9, <1>1, OneCall, EmptyFacts
    <3>11. \A i \in DOMAIN <<y>> : <<y>>[i].e = p => (<<y>>[i].copy.told => copy.told)
      BY <3>6, <3>10
    <3> QED
      BY <3>8, <3>10, <3>11
  <2>14. CASE method[p] # "parallel" /\ ~Wrong(w) /\ NextPending(w) = {} /\ \A i \in DOMAIN w : w[i] = "completed"
    <3>1. Then(t, <<x>>)
      BY <2>2, <2>7, <2>14
    <3>2. Looks(p, w, copy, <<x>>)
      BY <2>1, <2>5, <2>6, <2>14 DEF Looks
    <3> QED
      BY <3>1, <3>2, <2>10
  <2>15. CASE method[p] # "parallel" /\ ~Wrong(w) /\ NextPending(w) = {} /\ ~\A i \in DOMAIN w : w[i] = "completed"
    <3>1. Then(t, <<>>)
      BY <2>2, <2>7, <2>15
    <3> QED
      BY <3>1, <1>11
  <2> QED
    BY <2>11, <2>12, <2>13, <2>14, <2>15
<1> QED
  BY <1>12, <1>13

\* What a cancel leaves to do
Cancels(e, calls) ==
  /\ calls \in Seq(EntryT)
  /\ \E x \in EntryT :
       /\ x.e = e /\ x.copy.status = "cancelled"
       /\ \/ e \in Leaves /\ calls = <<x>> /\ x.at \in {"cancelCall", "store"}
          \/ e \in Parents /\ x.at = "cancelEnd" /\ Before("cancelKid", e, x, calls)

LEMMA CancelShapes ==
  ASSUME NEW e \in Exec, NEW copy \in Record, copy.told => e # Root,
         NEW calls, calls = IF Simple(e) THEN CancelSimple(e, copy) ELSE CancelParent(e, copy)
  PROVE  /\ Cancels(e, calls) /\ \A i \in DOMAIN calls : Shape(calls[i]) /\ (calls[i].copy.told => calls[i].e = e /\ copy.told)
<1>1. "cancelled" \in Status /\ "cancelCall" \in Place /\ "store" \in Place /\ "cancelEnd" \in Place /\ "cancelKid" \in Place
  BY DEF Status, Place
<1>2. PICK c \in Record : c = With(copy, "cancelled") /\ c.status = "cancelled" /\ (c.told <=> copy.told)
  BY <1>1, WithFacts
<1>3. CASE e \in Leaves
  <2>1. Simple(e)
    BY <1>3, Tree
  <2>2. PICK at \in {"cancelCall", "store"} : calls = <<Entry(at, e, c)>>
    BY <1>2, <2>1 DEF CancelSimple
  <2>3. at \in Place
    BY <1>1
  <2> DEFINE x == Entry(at, e, c)
  <2>4. x \in EntryT /\ x.at = at /\ x.e = e /\ x.copy = c
    BY <2>3, EntryFacts, EntryFields
  <2>5. calls = <<x>>
    BY <2>2
  <2> HIDE DEF x
  <2>6. calls \in Seq(EntryT) /\ DOMAIN calls = {1} /\ calls[1] = x
    BY <2>4, <2>5, EmptyFacts
  <2>7. Shape(x)
    BY <1>2, <1>3, <2>4 DEF Shape
  <2> QED
    BY <1>2, <1>3, <2>4, <2>5, <2>6, <2>7 DEF Cancels
<1>4. CASE e \in Parents
  <2>1. ~Simple(e)
    BY <1>4, Tree
  <2> DEFINE x == Entry("cancelEnd", e, c)
  <2>2. x \in EntryT /\ x.at = "cancelEnd" /\ x.e = e /\ x.copy = c
    BY <1>1, EntryFacts, EntryFields
  <2>3. calls = Each("cancelKid", e) \o <<x>>
    BY <1>2, <2>1 DEF CancelParent
  <2> HIDE DEF x
  <2>4. Before("cancelKid", e, x, calls)
    BY <1>1, <2>2, <2>3, EachThen
  <2>5. Shape(x)
    BY <1>2, <1>4, <2>2 DEF Shape
  <2>6. \A k : Call("cancelKid", k).at = "cancelKid" /\ ~Call("cancelKid", k).copy.told
    BY CallFields DEF Blank
  <2>7. \A k : Shape(Call("cancelKid", k))
    BY <2>6 DEF Shape
  <2>8. \A i \in DOMAIN calls : Shape(calls[i]) /\ (calls[i].copy.told => calls[i].e = e /\ copy.told)
    BY <2>2, <2>4, <2>5, <2>6, <2>7, <1>2 DEF Before
  <2> QED
    BY <1>2, <1>4, <2>2, <2>4, <2>8 DEF Cancels, Before
<1> QED
  BY <1>3, <1>4, Tree

LEMMA CancelKidCalls ==
  ASSUME SeTypes, ShapeInv, NEW t \in Thread, CancelKid(t)
  PROVE  \E calls \in Seq(EntryT) :
           /\ Now(t).at = "cancelKid" /\ Now(t).e \in Exec /\ Now(t) \in EntryT
           /\ Moves(todo, todo', t, calls, Tail(todo[t])) /\ \A i \in DOMAIN calls : Shape(calls[i])
           /\ (calls = <<>> /\ ~Live(Now(t).e)) \/ Cancels(Now(t).e, calls)
           /\ \A i \in DOMAIN calls : ~calls[i].copy.told
<1> DEFINE k == Now(t).e
<1>1. At(t, "cancelKid") /\ Now(t) \in EntryT /\ Now(t).at = "cancelKid" /\ k \in Exec /\ rec[k] \in Record
  BY AtFacts DEF CancelKid, SeTypes
<1>2. PICK copy \in Record : copy = Untold(rec[k]) /\ ~copy.told
  BY <1>1, UntoldFacts
<1> DEFINE calls == IF Simple(k) THEN CancelSimple(k, copy) ELSE CancelParent(k, copy)
<1>3. Cancels(k, calls) /\ \A i \in DOMAIN calls : Shape(calls[i]) /\ (calls[i].copy.told => calls[i].e = k /\ copy.told)
  BY <1>1, <1>2, CancelShapes
<1>4. (~Live(k) /\ Then(t, <<>>)) \/ Then(t, calls)
  BY <1>2 DEF CancelKid
<1> HIDE DEF calls
<1>5. CASE ~Live(k) /\ Then(t, <<>>)
  BY <1>1, <1>5, NoCall, EmptyFacts
<1>6. CASE Then(t, calls)
  <2>1. calls \in Seq(EntryT)
    BY <1>3 DEF Cancels
  <2>2. Moves(todo, todo', t, calls, Tail(todo[t]))
    BY <1>1, <1>6, <2>1, ThenMoves
  <2> QED
    BY <1>1, <1>2, <1>3, <2>1, <2>2
<1> QED
  BY <1>4, <1>5, <1>6

\* The store of a cancel, or none
LEMMA CancelStoreCalls ==
  ASSUME SeTypes, ShapeInv, NEW t \in Thread, CancelCall(t) \/ CancelRefused(t) \/ CancelEnd(t)
  PROVE  \E calls \in Seq(EntryT) : \E rest :
           /\ Now(t).at \in {"cancelCall", "cancelEnd"} /\ Now(t).e \in Exec /\ Now(t) \in EntryT
           /\ Now(t).at = "cancelEnd" => Now(t).e \in Parents
           /\ Now(t).at = "cancelCall" => Now(t).e \in Leaves
           /\ Moves(todo, todo', t, calls, rest) /\ \A i \in DOMAIN calls : Shape(calls[i])
           /\ \/ calls = <<>> /\ rest = NotAll(Tail(todo[t]))
              \/ /\ rest = Tail(todo[t]) /\ (Now(t).at = "cancelEnd" => Now(t).all)
                 /\ \E x \in EntryT : calls = <<x>> /\ x.at = "store" /\ x.e = Now(t).e /\ x.copy = Now(t).copy /\ x.copy.status = "cancelled"
<1>1. PICK place \in {"cancelCall", "cancelEnd"} : At(t, place)
  BY DEF CancelCall, CancelRefused, CancelEnd
<1>2. Shape(Now(t)) /\ Now(t) \in EntryT /\ Now(t).at = place /\ Now(t).e \in Exec /\ Now(t).copy \in Record /\ Now(t).copy.status = "cancelled"
  BY <1>1, AtFacts DEF Shape
<1>3. (Now(t).at = "cancelEnd" => Now(t).e \in Parents) /\ (Now(t).at = "cancelCall" => Now(t).e \in Leaves)
  BY <1>2 DEF Shape
<1>4. "store" \in Place
  BY DEF Place
<1> DEFINE x == Entry("store", Now(t).e, Now(t).copy)
<1>5. x \in EntryT /\ x.at = "store" /\ x.e = Now(t).e /\ x.copy = Now(t).copy
  BY <1>2, <1>4, EntryFacts, EntryFields
<1>6. \/ Then(t, <<x>>) /\ (Now(t).at = "cancelEnd" => Now(t).all)
      \/ todo' = [todo EXCEPT ![t] = NotAll(Tail(@))]
  BY DEF CancelCall, CancelRefused, CancelEnd, At
<1> HIDE DEF x
<1>7. Shape(x)
  BY <1>2, <1>5 DEF Shape
<1>8. CASE Then(t, <<x>>) /\ (Now(t).at = "cancelEnd" => Now(t).all)
  <2>1. Moves(todo, todo', t, <<x>>, Tail(todo[t])) /\ (\A i \in DOMAIN <<x>> : Shape(<<x>>[i])) /\ <<x>> \in Seq(EntryT)
    BY <1>1, <1>5, <1>7, <1>8, OneCall, EmptyFacts
  <2> QED
    BY <1>1, <1>2, <1>3, <1>5, <1>8, <2>1
<1>9. CASE todo' = [todo EXCEPT ![t] = NotAll(Tail(@))]
  <2>1. Moves(todo, todo', t, <<>>, NotAll(Tail(todo[t]))) /\ (\A i \in DOMAIN <<>> : Shape(<<>>[i])) /\ <<>> \in Seq(EntryT)
    BY <1>1, <1>9, StopMoves, EmptyFacts
  <2> QED
    BY <1>1, <1>2, <1>3, <2>1
<1> QED
  BY <1>6, <1>8, <1>9

\* Places where a cancel or a removal waits; nothing is started by them
Neutral(y) == y.at \in {"cancelKid", "cancelCall", "cancelEnd", "deleteTree", "remove"} \/ (y.at = "store" /\ y.copy.status = "cancelled")

LEMMA DeleteTreeCalls ==
  ASSUME SeTypes, ShapeInv, NEW t \in Thread, DeleteTree(t)
  PROVE  \E calls \in Seq(EntryT) :
           /\ Now(t).at = "deleteTree" /\ Now(t).e \in Exec /\ Now(t) \in EntryT
           /\ Moves(todo, todo', t, calls, Tail(todo[t])) /\ \A i \in DOMAIN calls : Shape(calls[i])
           /\ \A i \in DOMAIN calls : calls[i].at \in {"deleteTree", "remove"} /\ ~calls[i].copy.told
<1> DEFINE e == Now(t).e
<1>1. At(t, "deleteTree") /\ Now(t) \in EntryT /\ Now(t).at = "deleteTree" /\ e \in Exec
  BY AtFacts DEF DeleteTree
<1>2. "deleteTree" \in Place /\ "remove" \in Place
  BY DEF Place
<1> DEFINE x == Call("remove", e)
           calls == Each("deleteTree", e) \o <<x>>
<1>3. x \in EntryT /\ x.at = "remove" /\ ~x.copy.told
  BY <1>1, <1>2, CallFacts, CallFields DEF Blank
<1>4. Then(t, <<>>) \/ Then(t, calls)
  BY DEF DeleteTree
<1> HIDE DEF x
<1>5. Before("deleteTree", e, x, calls)
  BY <1>1, <1>2, <1>3, EachThen
<1> HIDE DEF calls
<1>6. \A k : Call("deleteTree", k).at = "deleteTree" /\ ~Call("deleteTree", k).copy.told
  BY CallFields DEF Blank
<1>7. \A i \in DOMAIN calls : calls[i].at \in {"deleteTree", "remove"} /\ ~calls[i].copy.told
  BY <1>3, <1>5, <1>6 DEF Before
<1>8. \A i \in DOMAIN calls : Shape(calls[i])
  BY <1>7 DEF Shape
<1>9. CASE Then(t, <<>>)
  BY <1>1, <1>9, NoCall, EmptyFacts
<1>10. CASE Then(t, calls)
  <2>1. calls \in Seq(EntryT)
    BY <1>5 DEF Before
  <2>2. Moves(todo, todo', t, calls, Tail(todo[t]))
    BY <1>1, <1>10, <2>1, ThenMoves
  <2> QED
    BY <1>1, <1>7, <1>8, <2>1, <2>2
<1> QED
  BY <1>4, <1>9, <1>10

\* A DELETE, with a thread of its own
LEMMA DeleteCalls ==
  ASSUME SeTypes, ShapeInv, NEW t \in Thread, NEW e \in Exec, Delete(t, e)
  PROVE  \E calls \in Seq(EntryT) :
           /\ Moves(todo, todo', t, calls, <<>>) /\ todo[t] = <<>> /\ \A i \in DOMAIN calls : Shape(calls[i])
           /\ \/ \A i \in DOMAIN calls : calls[i].at \in {"deleteTree", "remove"} /\ ~calls[i].copy.told
              \/ Cancels(e, calls) /\ \A i \in DOMAIN calls : calls[i].copy.told => rec[e].told
<1>1. Idle(t) /\ rec[e] \in Record /\ (rec[e].told => e # Root)
  BY DEF Delete, SeTypes
<1>2. "deleteTree" \in Place /\ "remove" \in Place
  BY DEF Place
<1> DEFINE out == IF Simple(e) THEN "remove" ELSE "deleteTree"
           calls == IF Simple(e) THEN CancelSimple(e, rec[e]) ELSE CancelParent(e, rec[e])
           x == Call(out, e)
<1>3. \/ todo' = [todo EXCEPT ![t] = <<>>]
      \/ todo' = [todo EXCEPT ![t] = <<x>>]
      \/ todo' = [todo EXCEPT ![t] = calls]
  BY DEF Delete
<1>4. Cancels(e, calls) /\ \A i \in DOMAIN calls : Shape(calls[i]) /\ (calls[i].copy.told => calls[i].e = e /\ rec[e].told)
  BY <1>1, CancelShapes
<1>5. x \in EntryT /\ x.at \in {"deleteTree", "remove"} /\ ~x.copy.told
  BY <1>2, CallFacts, CallFields DEF Blank
<1> HIDE DEF x, calls
<1>6. Shape(x)
  BY <1>5 DEF Shape
<1>7. CASE todo' = [todo EXCEPT ![t] = <<>>]
  BY <1>1, <1>7, FreshMoves, EmptyFacts DEF Idle
<1>8. CASE todo' = [todo EXCEPT ![t] = <<x>>]
  <2>1. <<x>> \in Seq(EntryT) /\ DOMAIN <<x>> = {1} /\ <<x>>[1] = x
    BY <1>5, EmptyFacts
  <2>2. Moves(todo, todo', t, <<x>>, <<>>) /\ todo[t] = <<>>
    BY <1>1, <1>8, <2>1, FreshMoves DEF Idle
  <2> QED
    BY <1>5, <1>6, <2>1, <2>2
<1>9. CASE todo' = [todo EXCEPT ![t] = calls]
  <2>1. calls \in Seq(EntryT)
    BY <1>4 DEF Cancels
  <2>2. Moves(todo, todo', t, calls, <<>>) /\ todo[t] = <<>>
    BY <1>1, <1>9, <2>1, FreshMoves DEF Idle
  <2> QED
    BY <1>4, <2>1, <2>2
<1> QED
  BY <1>3, <1>7, <1>8, <1>9

\* A report, or the sweep's time-out
LEMMA ReportCalls ==
  ASSUME SeTypes, ShapeInv, NEW t \in Thread, NEW e \in Leaves,
         Report(t, e) \/ (t = Loop /\ SweepTimeout(e))
  PROVE  \E calls \in Seq(EntryT) :
           /\ Moves(todo, todo', t, calls, <<>>) /\ todo[t] = <<>> /\ \A i \in DOMAIN calls : Shape(calls[i])
           /\ \A i \in DOMAIN calls :
                calls[i].at = "store" /\ calls[i].e = e /\ calls[i].copy.status \in {"completed", "failed"}
                /\ (calls[i].copy.told => rec[e].told)
<1>1. Idle(t) /\ e \in Exec /\ rec[e] \in Record /\ (rec[e].told => e # Root)
  BY Tree DEF Report, SweepTimeout, SeTypes
<1>2. \/ todo' = [todo EXCEPT ![t] = <<>>]
      \/ \E status \in {"completed", "failed"} : todo' = [todo EXCEPT ![t] = <<Entry("store", e, With(rec[e], status))>>]
  BY DEF Report, SweepTimeout
<1>3. CASE todo' = [todo EXCEPT ![t] = <<>>]
  BY <1>1, <1>3, FreshMoves, EmptyFacts DEF Idle
<1>4. ASSUME NEW status \in {"completed", "failed"}, todo' = [todo EXCEPT ![t] = <<Entry("store", e, With(rec[e], status))>>]
      PROVE  \E calls \in Seq(EntryT) :
               /\ Moves(todo, todo', t, calls, <<>>) /\ todo[t] = <<>> /\ \A i \in DOMAIN calls : Shape(calls[i])
               /\ \A i \in DOMAIN calls :
                    calls[i].at = "store" /\ calls[i].e = e /\ calls[i].copy.status \in {"completed", "failed"}
                    /\ (calls[i].copy.told => rec[e].told)
  <2>1. "store" \in Place /\ status \in Status
    BY DEF Place, Status
  <2>2. PICK c \in Record : c = With(rec[e], status) /\ c.status = status /\ (c.told <=> rec[e].told)
    BY <1>1, <2>1, WithFacts
  <2> DEFINE x == Entry("store", e, c)
  <2>3. x \in EntryT /\ x.at = "store" /\ x.e = e /\ x.copy = c
    BY <1>1, <2>1, EntryFacts, EntryFields
  <2>4. todo' = [todo EXCEPT ![t] = <<x>>]
    BY <1>4, <2>2
  <2> HIDE DEF x
  <2>5. Shape(x)
    BY <1>1, <2>2, <2>3 DEF Shape, Ran
  <2>6. <<x>> \in Seq(EntryT) /\ DOMAIN <<x>> = {1} /\ <<x>>[1] = x
    BY <2>3, EmptyFacts
  <2>7. Moves(todo, todo', t, <<x>>, <<>>) /\ todo[t] = <<>>
    BY <1>1, <2>4, <2>6, FreshMoves DEF Idle
  <2> QED
    BY <2>2, <2>3, <2>5, <2>6, <2>7
<1> QED
  BY <1>2, <1>3, <1>4

-----------------------------------------------------------------------------
(* Types *)

\* What a step does not change, or changes within its type
Others ==
  /\ method' = method /\ mode' = mode
  /\ work' \in [Leaves -> {"none", "running", "stopped", "over"}]
  /\ handed' \in [Leaves -> Nat]
  /\ disturbed' \in BOOLEAN

\* A record replaced by a copy, or none
Writes(e, copy) == rec' = rec \/ rec' = [rec EXCEPT ![e] = copy]

LEMMA WritesTypes ==
  ASSUME SeTypes, NEW e \in Exec, NEW copy \in Record, copy.told => e # Root, Writes(e, copy)
  PROVE  rec' \in [Exec -> Record] /\ ~rec'[Root].told
<1>1. rec \in [Exec -> Record] /\ ~rec[Root].told /\ Root \in Exec
  BY Tree DEF SeTypes
<1>2. CASE rec' = rec
  BY <1>1, <1>2
<1>3. CASE rec' = [rec EXCEPT ![e] = copy]
  <2>1. rec' \in [Exec -> Record]
    BY <1>1, <1>3
  <2>2. rec'[Root] = IF Root = e THEN copy ELSE rec[Root]
    BY <1>1, <1>3
  <2> QED
    BY <1>1, <2>1, <2>2
<1> QED
  BY <1>2, <1>3 DEF Writes

\* The types kept, once the lists and the records are
LEMMA TypesStep ==
  ASSUME SeTypes, Others, todo' \in Lists, ShapeInv', rec' \in [Exec -> Record], ~rec'[Root].told
  PROVE  SeInv'
BY DEF SeInv, SeTypes, Others

\* Every step of a thread, as the records and the rest see it
LEMMA StepOthers ==
  ASSUME SeTypes, ShapeInv, NEW t \in Thread, Step(t)
  PROVE  Others
<1> USE DEF Others, SeTypes
<1>1. ASSUME StartNode(t) PROVE Others BY <1>1 DEF StartNode
<1>2. ASSUME HandOver(t) PROVE Others
  <2>1. At(t, "hand") /\ Now(t).e \in Exec /\ Shape(Now(t)) /\ Now(t).at = "hand"
    BY <1>2, AtFacts DEF HandOver
  <2>2. Now(t).e \in Leaves
    BY <2>1 DEF Shape
  <2>3. work' = [work EXCEPT ![Now(t).e] = "running"] /\ handed' = [handed EXCEPT ![Now(t).e] = @ + 1]
        /\ UNCHANGED <<method, mode, rec, disturbed, events>>
    BY <1>2 DEF HandOver
  <2> QED
    BY <2>2, <2>3
<1>3. ASSUME HandOverFails(t) PROVE Others
  <2>1. At(t, "hand") /\ Now(t).e \in Exec /\ Shape(Now(t)) /\ Now(t).at = "hand"
    BY <1>3, AtFacts DEF HandOverFails
  <2>2. Now(t).e \in Leaves
    BY <2>1 DEF Shape
  <2>3. PICK took \in BOOLEAN :
          /\ work' = [work EXCEPT ![Now(t).e] = IF took THEN "running" ELSE @]
          /\ handed' = [handed EXCEPT ![Now(t).e] = IF took THEN @ + 1 ELSE @]
          /\ UNCHANGED <<method, mode, rec, disturbed, events>>
    BY <1>3 DEF HandOverFails
  <2> QED
    BY <2>2, <2>3
<1>4. ASSUME Answer(t) PROVE Others BY <1>4 DEF Answer
<1>5. ASSUME Store(t) PROVE Others BY <1>5 DEF Store
<1>6. ASSUME ChildEnded(t) PROVE Others BY <1>6 DEF ChildEnded
<1>7. ASSUME Look(t) PROVE Others BY <1>7 DEF Look
<1>8. ASSUME Drop(t) PROVE Others BY <1>8 DEF Drop
<1>9. ASSUME Replace(t) PROVE Others BY <1>9 DEF Replace
<1>10. ASSUME CancelKid(t) PROVE Others BY <1>10 DEF CancelKid
<1>11. ASSUME CancelCall(t) PROVE Others BY <1>11 DEF CancelCall
<1>12. ASSUME CancelRefused(t) PROVE Others BY <1>12 DEF CancelRefused
<1>13. ASSUME CancelEnd(t) PROVE Others BY <1>13 DEF CancelEnd
<1>14. ASSUME DeleteTree(t) PROVE Others BY <1>14 DEF DeleteTree
<1>15. ASSUME Remove(t) PROVE Others
  <2>1. disturbed' \in BOOLEAN
    BY <1>15 DEF Remove, Gone
  <2> QED
    BY <1>15, <2>1 DEF Remove
<1> QED
  BY <1>1, <1>2, <1>3, <1>4, <1>5, <1>6, <1>7, <1>8, <1>9, <1>10, <1>11, <1>12, <1>13, <1>14, <1>15 DEF Step

\* The records: only a store, a replacement and a removal touch them
LEMMA BlankFacts == Blank \in Record /\ ~Blank.told /\ Blank.status = "absent" /\ ~Blank.started
BY DEF Blank, Record, Status

LEMMA StepWrites ==
  ASSUME SeTypes, ShapeInv, NEW t \in Thread, Step(t)
  PROVE  \/ rec' = rec
         \/ Store(t) /\ Live(Now(t).e) /\ rec' = [rec EXCEPT ![Now(t).e] = Now(t).copy]
         \/ Replace(t) /\ rec[Now(t).e].status # "absent" /\ rec' = [rec EXCEPT ![Now(t).e] = Now(t).copy]
         \/ Remove(t) /\ rec' = [rec EXCEPT ![Now(t).e] = Blank]
<1>1. ASSUME Store(t) PROVE rec' = rec \/ (Live(Now(t).e) /\ rec' = [rec EXCEPT ![Now(t).e] = Now(t).copy])
  BY <1>1 DEF Store
<1>2. ASSUME Replace(t) PROVE rec' = rec \/ (rec[Now(t).e].status # "absent" /\ rec' = [rec EXCEPT ![Now(t).e] = Now(t).copy])
  BY <1>2 DEF Replace
<1>3. ASSUME Remove(t) PROVE rec' = [rec EXCEPT ![Now(t).e] = Blank]
  BY <1>3 DEF Remove, Gone
<1>4. ASSUME ~Store(t), ~Replace(t), ~Remove(t) PROVE rec' = rec
  BY <1>4 DEF Step, StartNode, HandOver, HandOverFails, Answer, ChildEnded, Look, Drop, CancelKid, CancelCall,
       CancelRefused, CancelEnd, DeleteTree
<1> QED
  BY <1>1, <1>2, <1>3, <1>4

LEMMA StepTypes ==
  ASSUME SeTypes, ShapeInv, NEW t \in Thread, Step(t)
  PROVE  rec' \in [Exec -> Record] /\ ~rec'[Root].told
<1>1. ASSUME NEW place, At(t, place)
      PROVE  Now(t).e \in Exec /\ Now(t).copy \in Record /\ (Now(t).copy.told => Now(t).e # Root)
  BY <1>1, AtFacts DEF Shape
<1>2. Store(t) \/ Replace(t) \/ Remove(t) => \E place : At(t, place)
  BY DEF Store, Replace, Remove
<1>3. rec \in [Exec -> Record] /\ ~rec[Root].told
  BY DEF SeTypes
<1>4. CASE rec' = rec
  BY <1>3, <1>4
<1>5. CASE (Store(t) \/ Replace(t)) /\ rec' = [rec EXCEPT ![Now(t).e] = Now(t).copy]
  BY <1>1, <1>2, <1>5, WritesTypes DEF Writes
<1>6. CASE Remove(t) /\ rec' = [rec EXCEPT ![Now(t).e] = Blank]
  BY <1>1, <1>2, <1>6, WritesTypes, BlankFacts DEF Writes
<1> QED
  BY <1>4, <1>5, <1>6, StepWrites

\* The lists
LEMMA StepLists ==
  ASSUME SeTypes, ShapeInv, NEW t \in Thread, Step(t)
  PROVE  todo' \in Lists /\ ShapeInv'
<1>1. method' = method
  BY StepOthers DEF Others
<1> SUFFICES \E calls, rest : Moves(todo, todo', t, calls, rest) /\ \A i \in DOMAIN calls : Shape(calls[i])
  BY <1>1, ShapeStep
<1>2. CASE StartNode(t) BY <1>2, StartNodeCalls
<1>3. CASE HandOver(t) BY <1>3, HandOverCalls
<1>4. CASE HandOverFails(t) \/ Answer(t) BY <1>4, EndCalls
<1>5. CASE Store(t) BY <1>5, StoreCalls
<1>6. CASE ChildEnded(t) BY <1>6, ChildEndedCalls
<1>7. CASE Look(t) BY <1>7, LookCalls
<1>8. CASE Drop(t) BY <1>8, DropCalls
<1>9. CASE Replace(t) BY <1>9, NoCall DEF Replace
<1>10. CASE CancelKid(t) BY <1>10, CancelKidCalls
<1>11. CASE CancelCall(t) \/ CancelRefused(t) \/ CancelEnd(t) BY <1>11, CancelStoreCalls
<1>12. CASE DeleteTree(t) BY <1>12, DeleteTreeCalls
<1>13. CASE Remove(t) BY <1>13, NoCall DEF Remove
<1> QED
  BY <1>2, <1>3, <1>4, <1>5, <1>6, <1>7, <1>8, <1>9, <1>10, <1>11, <1>12, <1>13 DEF Step

LEMMA InitTypes == ASSUME Init PROVE SeInv
<1>1. /\ method \in [Parents -> {"sequential", "parallel"}] /\ mode \in [Leaves -> {"synchronous", "asynchronous"}]
      /\ work \in [Leaves -> {"none", "running", "stopped", "over"}] /\ disturbed \in BOOLEAN
  BY TreeAssumption DEF Init
<1>2. handed \in [Leaves -> Nat]
  BY DEF Init
<1>3. rec \in [Exec -> Record] /\ ~rec[Root].told
  <2>1. rec = [e \in Exec |-> [status |-> "pending", told |-> e # Root, started |-> FALSE]]
    BY DEF Init
  <2>2. \A e \in Exec : [status |-> "pending", told |-> e # Root, started |-> FALSE] \in Record
    BY DEF Record, Status
  <2> QED
    BY <2>1, <2>2, Tree
<1> DEFINE x == Call("start", Root)
<1>4. x \in EntryT /\ x.at = "start" /\ x.e = Root /\ ~x.copy.told
  <2>1. "start" \in Place
    BY DEF Place
  <2> QED
    BY <2>1, Tree, CallFacts, CallFields, BlankFacts
<1> HIDE DEF x
<1>5. todo = [t \in Thread |-> IF t = Creator THEN <<x>> ELSE <<>>]
  BY DEF Init, x
<1>6. <<x>> \in Seq(EntryT) /\ DOMAIN <<x>> = {1} /\ <<x>>[1] = x /\ <<>> \in Seq(EntryT) /\ \A i \in DOMAIN <<>> : FALSE
  BY <1>4, EmptyFacts
<1>7. todo \in Lists
  BY <1>5, <1>6 DEF Lists
<1>8. \A t \in Thread : \A i \in DOMAIN todo[t] : todo[t][i] = x
  BY <1>5, <1>6
<1>9. Shape(x)
  BY <1>4 DEF Shape
<1> QED
  BY <1>1, <1>2, <1>3, <1>7, <1>8, <1>9 DEF SeInv, SeTypes, ShapeInv

LEMMA ReportTypes ==
  ASSUME SeTypes, ShapeInv, NEW t \in Thread, NEW e \in Leaves, Report(t, e) \/ (t = Loop /\ SweepTimeout(e))
  PROVE  SeInv'
<1>1. Others /\ rec' = rec
  BY DEF Report, SweepTimeout, Others, SeTypes
<1>2. PICK calls \in Seq(EntryT) : Moves(todo, todo', t, calls, <<>>) /\ \A i \in DOMAIN calls : Shape(calls[i])
  BY ReportCalls, ZenonT(60)
<1>4. todo' \in Lists /\ ShapeInv'
  BY <1>1, <1>2, ShapeStep DEF Others
<1>3. rec' \in [Exec -> Record] /\ ~rec'[Root].told
  BY <1>1 DEF SeTypes
<1> QED
  BY <1>1, <1>3, <1>4, TypesStep

LEMMA DeleteTypes ==
  ASSUME SeTypes, ShapeInv, NEW t \in Thread, NEW e \in Exec, Delete(t, e)
  PROVE  SeInv'
<1>1. Others /\ rec' = rec
  BY DEF Delete, Others, SeTypes
<1>2. todo' \in Lists /\ ShapeInv'
  BY <1>1, DeleteCalls, ShapeStep DEF Others
<1>3. rec' \in [Exec -> Record] /\ ~rec'[Root].told
  BY <1>1 DEF SeTypes
<1> QED
  BY <1>1, <1>2, <1>3, TypesStep

LEMMA ExpiredTypes ==
  ASSUME SeTypes, ShapeInv, NEW e \in Exec, SweepExpired(e)
  PROVE  SeInv'
<1>1. disturbed' \in BOOLEAN /\ rec' = [rec EXCEPT ![e] = Blank]
  BY DEF SweepExpired, Gone
<1>2. Others
  BY <1>1 DEF SweepExpired, Others, SeTypes
<1>3. todo' \in Lists /\ ShapeInv'
  <2>1. todo' = todo /\ method' = method
    BY DEF SweepExpired
  <2> QED
    BY <2>1 DEF SeTypes, ShapeInv, Shape, Seqs
<1>4. rec' \in [Exec -> Record] /\ ~rec'[Root].told
  BY <1>1, BlankFacts, WritesTypes DEF Writes
<1> QED
  BY <1>2, <1>3, <1>4, TypesStep

LEMMA CrashTypes ==
  ASSUME SeTypes, ShapeInv, Crash
  PROVE  SeInv'
<1>1. Others /\ rec' = rec
  BY DEF Crash, Others, SeTypes
<1>2. todo' = [t \in Thread |-> <<>>]
  BY DEF Crash
<1>3. todo' \in Lists
  BY <1>2, EmptyFacts DEF Lists
<1>4. \A t \in Thread : \A i \in DOMAIN todo'[t] : FALSE
  BY <1>2, EmptyFacts
<1>5. ShapeInv'
  BY <1>4 DEF ShapeInv
<1>6. rec' \in [Exec -> Record] /\ ~rec'[Root].told
  BY <1>1 DEF SeTypes
<1> QED
  BY <1>1, <1>3, <1>5, <1>6, TypesStep

LEMMA StepKeepsTypes ==
  ASSUME SeTypes, ShapeInv, NEW t \in Thread, Step(t)
  PROVE  SeInv'
BY StepOthers, StepLists, StepTypes, TypesStep

LEMMA SameKeepsTypes ==
  ASSUME SeTypes, ShapeInv, UNCHANGED vars
  PROVE  SeInv'
BY DEF vars, SeInv, SeTypes, ShapeInv, Shape, Seqs

LEMMA NextTypes ==
  ASSUME SeInv, [Next]_vars
  PROVE  SeInv'
<1> USE DEF SeInv
<1>1. CASE \E t \in Thread : Step(t) BY <1>1, StepKeepsTypes
<1>2. CASE \E t \in Thread, e \in Leaves : Report(t, e) BY <1>2, ReportTypes
<1>3. CASE \E t \in Thread, e \in Target : Delete(t, e) BY <1>3, DeleteTypes, TreeAssumption
<1>4. CASE \E e \in Leaves : SweepTimeout(e) BY <1>4, ReportTypes, Tree
<1>5. CASE \E e \in Exec : SweepExpired(e) BY <1>5, ExpiredTypes
<1>6. CASE Crash BY <1>6, CrashTypes
<1>7. CASE UNCHANGED vars BY <1>7, SameKeepsTypes
<1> QED
  BY <1>1, <1>2, <1>3, <1>4, <1>5, <1>6, <1>7 DEF Next

\* Every variable keeps its type, whatever clients DELETE
THEOREM ExecutionTypesCorrect == Spec => []TypeOK
<1>1. SeInv => TypeOK
  <2> SUFFICES ASSUME SeInv PROVE TypeOK
    OBVIOUS
  <2>1. \A t \in Thread : todo[t] \in Seq(EntryT)
    BY DEF SeInv, SeTypes, Lists
  <2> QED
    BY <2>1 DEF SeInv, SeTypes, TypeOK, EntryT
<1> QED
  BY <1>1, InitTypes, NextTypes, PTL DEF Spec

-----------------------------------------------------------------------------
(* The records, over a step *)

\* A record replaced
LEMMA WriteAt ==
  ASSUME rec \in [Exec -> Record], NEW e \in Exec, NEW copy, rec' = [rec EXCEPT ![e] = copy]
  PROVE  rec'[e] = copy /\ \A d \in Exec : d # e => rec'[d] = rec[d]
OBVIOUS

LEMMA RecSame ==
  ASSUME rec' = rec
  PROVE  RecStep
BY DEF RecStep, Live

LEMMA StepRec ==
  ASSUME SeTypes, ShapeInv, CoreInv, NEW t \in Thread, Step(t)
  PROVE  RecStep
<1> DEFINE e == Now(t).e
           copy == Now(t).copy
<1>0. rec \in [Exec -> Record]
  BY DEF SeTypes
<1>1. CASE rec' = rec
  BY <1>1, RecSame
<1>2. CASE Store(t) /\ Live(e) /\ rec' = [rec EXCEPT ![e] = copy]
  <2>1. e \in Exec /\ Shape(Now(t)) /\ Now(t).at = "store"
    BY <1>2, AtFacts DEF Store
  <2>2. copy.status \in {"executing", "completed", "failed", "cancelled"}
    BY <2>1 DEF Shape, Ran
  <2>3. rec'[e] = copy /\ \A d \in Exec : d # e => rec'[d] = rec[d]
    BY <1>0, <1>2, <2>1, WriteAt
  <2>4. rec[e].status \in {"pending", "executing"}
    BY <1>2 DEF Live
  <2> HIDE DEF e, copy
  <2> QED
    BY <2>1, <2>2, <2>3, <2>4 DEF RecStep, Live
<1>3. CASE Replace(t) /\ rec[e].status # "absent" /\ rec' = [rec EXCEPT ![e] = copy]
  <2>1. e \in Exec /\ Shape(Now(t)) /\ Now(t).at = "replace" /\ Now(t) \in EntryT /\ 1 \in DOMAIN todo[t] /\ Now(t) = todo[t][1]
    BY <1>3, AtFacts DEF Replace
  <2>2. copy.status = "cancelled"
    BY <2>1 DEF Shape
  <2>3. rec'[e] = copy /\ \A d \in Exec : d # e => rec'[d] = rec[d]
    BY <1>0, <1>3, <2>1, WriteAt
  <2>4. rec[e].status \in {"pending", "cancelled"}
    <3>1. ~NoneIn(todo, {Now(t)})
      BY <2>1 DEF NoneIn
    <3>2. Untouched(e)
      BY <2>1, <3>1 DEF CoreInv, ReplaceInv
    <3>3. ~Kept(e)
      BY <2>1, <3>2, Unders DEF Untouched, Reached, Started
    <3>4. rec[e].status \in Status
      BY <1>0, <2>1 DEF Record
    <3> QED
      BY <1>3, <3>3, <3>4 DEF Kept, Ran, Status
  <2> HIDE DEF e, copy
  <2> QED
    BY <2>1, <2>2, <2>3, <2>4 DEF RecStep, Live
<1>4. CASE Remove(t) /\ rec' = [rec EXCEPT ![e] = Blank]
  <2>1. e \in Exec
    BY <1>4, AtFacts DEF Remove
  <2>3. rec'[e].status = "absent" /\ \A d \in Exec : d # e => rec'[d] = rec[d]
    BY <1>0, <1>4, <2>1, WriteAt, BlankFacts
  <2> HIDE DEF e, copy
  <2> QED
    BY <2>1, <2>3 DEF RecStep, Live
<1> QED
  BY <1>1, <1>2, <1>3, <1>4, StepWrites

\* A record without a time of its start if it has not started; no cancelled one that tells
RecordOk(r) == (r.status \in {"pending", "absent"} => ~r.started) /\ ToldOk(r)
LEMMA RecordOks ==
  (\A e \in Exec : RecordOk(rec[e])) <=>
    /\ \A e \in Exec : rec[e].status \in {"pending", "absent"} => ~rec[e].started
    /\ \A e \in Exec : ToldOk(rec[e])
BY DEF RecordOk

LEMMA StepRecords ==
  ASSUME SeTypes, ShapeInv, RecInv, ToldInv, NEW t \in Thread, Step(t)
  PROVE  \A e \in Exec : RecordOk(rec'[e])
<1> DEFINE e == Now(t).e
           copy == Now(t).copy
<1>0. rec \in [Exec -> Record] /\ \A d \in Exec : RecordOk(rec[d])
  BY RecordOks DEF SeTypes, RecInv, ToldInv
<1>1. CASE rec' = rec
  BY <1>0, <1>1
<1>2. CASE Store(t) /\ rec' = [rec EXCEPT ![e] = copy]
  <2>1. e \in Exec /\ Shape(Now(t)) /\ Now(t).at = "store" /\ 1 \in DOMAIN todo[t] /\ Now(t) = todo[t][1]
    BY <1>2, AtFacts DEF Store
  <2>2. copy.status \in {"executing", "completed", "failed", "cancelled"}
    BY <2>1 DEF Shape, Ran
  <2>3. rec'[e] = copy /\ \A d \in Exec : d # e => rec'[d] = rec[d]
    BY <1>0, <1>2, <2>1, WriteAt
  <2>4. ToldOk(copy)
    BY <2>1 DEF ToldInv
  <2> HIDE DEF e, copy
  <2>5. RecordOk(copy)
    BY <2>2, <2>4 DEF RecordOk
  <2> QED
    BY <1>0, <2>1, <2>3, <2>5
<1>3. CASE Replace(t) /\ rec' = [rec EXCEPT ![e] = copy]
  <2>1. e \in Exec /\ Shape(Now(t)) /\ Now(t).at = "replace" /\ 1 \in DOMAIN todo[t] /\ Now(t) = todo[t][1]
    BY <1>3, AtFacts DEF Replace
  <2>2. copy.status = "cancelled"
    BY <2>1 DEF Shape
  <2>3. rec'[e] = copy /\ \A d \in Exec : d # e => rec'[d] = rec[d]
    BY <1>0, <1>3, <2>1, WriteAt
  <2>4. ToldOk(copy)
    BY <2>1 DEF ToldInv
  <2> HIDE DEF e, copy
  <2>5. RecordOk(copy)
    BY <2>2, <2>4 DEF RecordOk
  <2> QED
    BY <1>0, <2>1, <2>3, <2>5
<1>4. CASE Remove(t) /\ rec' = [rec EXCEPT ![e] = Blank]
  <2>1. e \in Exec
    BY <1>4, AtFacts DEF Remove
  <2>3. rec'[e] = Blank /\ \A d \in Exec : d # e => rec'[d] = rec[d]
    BY <1>0, <1>4, <2>1, WriteAt
  <2> HIDE DEF e, copy
  <2>5. RecordOk(Blank)
    BY BlankFacts DEF RecordOk, ToldOk
  <2> QED
    BY <1>0, <2>1, <2>3, <2>5
<1> QED
  BY <1>1, <1>2, <1>3, <1>4, StepWrites

\* What is handed over, and worked on
Works ==
  /\ \A e \in Leaves : handed'[e] <= 1 /\ (work'[e] # "none" => handed'[e] > 0)
  /\ \A e \in Leaves : handed[e] > 0 => handed'[e] > 0

LEMMA SameWorks ==
  ASSUME SeTypes, RecInv, handed' = handed, work' = work
  PROVE  Works
BY DEF Works, RecInv

LEMMA StepWorks ==
  ASSUME SeTypes, ShapeInv, CoreInv, RecInv, NEW t \in Thread, Step(t)
  PROVE  Works
<1> DEFINE e == Now(t).e
<1>0. /\ handed \in [Leaves -> Nat] /\ work \in [Leaves -> {"none", "running", "stopped", "over"}]
      /\ \A d \in Leaves : handed[d] <= 1 /\ (work[d] # "none" => handed[d] > 0)
  BY DEF SeTypes, RecInv
<1>1. CASE HandOver(t) \/ HandOverFails(t)
  <2>1. e \in Leaves /\ Now(t).at = "hand" /\ 1 \in DOMAIN todo[t] /\ Now(t) = todo[t][1] /\ Now(t) \in EntryT
    BY <1>1, AtFacts DEF HandOver, HandOverFails, Shape
  <2>2. ~NoneIn(todo, HandOf(e))
    BY <2>1 DEF NoneIn, HandOf
  <2>3. handed[e] = 0
    BY <2>1, <2>2 DEF CoreInv, OnceInv
  <2>4. \/ handed' = [handed EXCEPT ![e] = @ + 1] /\ work' = [work EXCEPT ![e] = "running"]
        \/ handed' = [handed EXCEPT ![e] = @] /\ work' = [work EXCEPT ![e] = @]
    BY <1>1 DEF HandOver, HandOverFails
  <2> HIDE DEF e
  <2> QED
    BY <1>0, <2>1, <2>3, <2>4 DEF Works
<1>2. CASE Answer(t)
  <2>1. e \in Leaves /\ Now(t).at = "answer" /\ 1 \in DOMAIN todo[t] /\ Now(t) = todo[t][1]
    BY <1>2, AtFacts DEF Answer, Shape
  <2>2. handed[e] > 0
    BY <2>1 DEF RecInv
  <2>3. handed' = handed /\ work' = [work EXCEPT ![e] = "over"]
    BY <1>2 DEF Answer
  <2> HIDE DEF e
  <2> QED
    BY <1>0, <2>1, <2>2, <2>3 DEF Works
<1>3. CASE CancelCall(t)
  <2>1. e \in Leaves
    BY <1>3, AtFacts DEF CancelCall, Shape
  <2>3. handed' = handed /\ work' = [work EXCEPT ![e] = IF @ = "running" THEN "stopped" ELSE @]
    BY <1>3 DEF CancelCall
  <2> HIDE DEF e
  <2> QED
    BY <1>0, <2>1, <2>3 DEF Works
<1>4. CASE ~(HandOver(t) \/ HandOverFails(t) \/ Answer(t) \/ CancelCall(t))
  <2>1. handed' = handed /\ work' = work
    BY <1>4 DEF Step, StartNode, Store, ChildEnded, Look, Drop, Replace, CancelKid,
       CancelRefused, CancelEnd, DeleteTree, Remove
  <2> QED
    BY <2>1, SameWorks
<1> QED
  BY <1>1, <1>2, <1>3, <1>4

-----------------------------------------------------------------------------
(* What the steps have in common, shown *)

\* What the copies of the entries say, and that an answer is of one that was handed over
Fine(y) == ToldOk(y.copy) /\ (y.at = "answer" => handed'[y.e] > 0)

LEMMA EntriesStep ==
  ASSUME SeTypes, ShapeInv, RecInv, ToldInv, Works, \A e \in Exec : RecordOk(rec'[e]),
         NEW t \in Thread, NEW calls, NEW rest, Moves(todo, todo', t, calls, rest), \A i \in DOMAIN calls : Fine(calls[i])
  PROVE  RecInv' /\ ToldInv'
<1>1. todo \in Lists
  BY DEF SeTypes
<1>2. \A u \in Thread : \A i \in DOMAIN todo[u] : ToldOk(todo[u][i].copy) /\ (todo[u][i].at = "answer" => handed[todo[u][i].e] > 0)
  BY DEF RecInv, ToldInv
<1>3. \A u \in Thread : \A i \in DOMAIN todo[u] : todo[u][i].at = "answer" => todo[u][i].e \in Leaves
  BY DEF ShapeInv, Shape
<1>4. \A u \in Thread : \A i \in DOMAIN todo[u] : Fine(todo[u][i])
  BY <1>2, <1>3 DEF Fine, Works
<1>5. \A u \in Thread : \A i \in DOMAIN todo[u] : todo[u][i] \in EntryT
  BY <1>1 DEF Lists
<1>6. \A y, z : z \in EntryT /\ LikeEntry(y, z) => y.at = z.at /\ y.e = z.e /\ y.copy = z.copy
  BY DEF LikeEntry, EntryT
<1>7. \A u \in Thread : \A i \in DOMAIN todo'[u] : Fine(todo'[u][i])
  <2> SUFFICES ASSUME NEW u \in Thread, NEW i \in DOMAIN todo'[u] PROVE Fine(todo'[u][i])
    OBVIOUS
  <2>1. CASE u # t
    <3>1. todo'[u] = todo[u]
      BY <1>1, <2>1 DEF Moves, Lists
    <3> QED
      BY <1>4, <3>1
  <2>2. CASE u = t
    <3>1. i \in Nat /\ Len(calls) \in Nat /\ (i <= Len(calls) => i \in DOMAIN calls /\ todo'[t][i] = calls[i])
      BY <1>1, <2>2, MovesAt
    <3>2. CASE i <= Len(calls)
      BY <2>2, <3>1, <3>2
    <3>3. CASE i > Len(calls)
      <4>1. PICK j \in DOMAIN todo[t] : LikeEntry(todo'[t][i], todo[t][j])
        BY <1>1, <2>2, <3>3, MovesAt
      <4> QED
        BY <1>4, <1>5, <1>6, <2>2, <4>1 DEF Fine
    <3> QED
      BY <3>1, <3>2, <3>3
  <2> QED
    BY <2>1, <2>2
<1>8. \A u \in Thread : \A i \in DOMAIN todo'[u] : ToldOk(todo'[u][i].copy) /\ (todo'[u][i].at = "answer" => handed'[todo'[u][i].e] > 0)
  BY <1>7 DEF Fine
<1>9. /\ \A e \in Exec : rec'[e].status \in {"pending", "absent"} => ~rec'[e].started
      /\ \A e \in Exec : ToldOk(rec'[e])
  BY DEF RecordOk
<1>10. RecInv'
  BY <1>8, <1>9 DEF RecInv, Works
<1>11. ToldInv'
  <2>1. \A e \in Exec : ToldOk(rec[e])'
    BY <1>9 DEF ToldOk
  <2>2. \A u \in Thread : \A i \in DOMAIN todo'[u] : todo'[u][i].copy.told => todo'[u][i].copy.status # "cancelled"
    BY <1>8 DEF ToldOk
  <2> QED
    BY <2>1, <2>2 DEF ToldInv, ToldOk
<1> QED
  BY <1>10, <1>11

\* What was given to an executor, or is said to run or have run, was so or is at the top; so is a
\* parent's start
Changes(t) ==
  /\ method' = method
  /\ RecStep
  /\ \A n \in Exec : Kept(n)' => Kept(n) \/ Top(todo, t, RunOf(n))
  /\ \A n \in Exec : Top(todo, t, BeginOf(n)) => rec'[n].status # "pending"
  /\ \A e \in Leaves : handed'[e] # handed[e] => Top(todo, t, HandOf(e))

LEMMA StepChanges ==
  ASSUME SeTypes, ShapeInv, CoreInv, NEW t \in Thread, Step(t)
  PROVE  Changes(t)
<1> DEFINE e == Now(t).e
           copy == Now(t).copy
<1>1. method' = method
  BY StepOthers DEF Others
<1>2. RecStep
  BY StepRec
<1>3. PICK place : At(t, place)
  BY DEF Step, StartNode, HandOver, HandOverFails, Answer, Store, ChildEnded, Look, Drop, Replace, CancelKid, CancelCall,
       CancelRefused, CancelEnd, DeleteTree, Remove
<1>4. /\ e \in Exec /\ Now(t) \in EntryT /\ Now(t).at = place /\ \A T : Top(todo, t, T) <=> Now(t) \in T
      /\ Shape(Now(t))
  BY <1>3, AtFacts
<1>5. rec \in [Exec -> Record] /\ handed \in [Leaves -> Nat]
  BY DEF SeTypes
<1>6. \A d \in Leaves : handed'[d] # handed[d] => Top(todo, t, HandOf(d))
  <2>1. CASE HandOver(t) \/ HandOverFails(t)
    <3>1. Now(t).at = "hand"
      BY <2>1, AtFacts DEF HandOver, HandOverFails
    <3>2. Now(t) \in HandOf(e)
      BY <3>1, <1>4 DEF HandOf
    <3>3. handed' = [handed EXCEPT ![e] = @ + 1] \/ handed' = [handed EXCEPT ![e] = @]
      BY <2>1 DEF HandOver, HandOverFails
    <3>4. \A d \in Leaves : d # e => handed'[d] = handed[d]
      BY <1>5, <3>3
    <3> QED
      BY <1>4, <3>2, <3>4
  <2>2. CASE ~(HandOver(t) \/ HandOverFails(t))
    <3>1. handed' = handed
      BY <2>2 DEF Step, StartNode, Answer, Store, ChildEnded, Look, Drop, Replace, CancelKid, CancelCall,
        CancelRefused, CancelEnd, DeleteTree, Remove
    <3> QED
      BY <3>1
  <2> QED
    BY <2>1, <2>2
<1>7. ASSUME NEW n \in Exec, rec'[n].status \in Ran PROVE rec[n].status \in Ran \/ Top(todo, t, RunOf(n))
  <2>1. CASE rec' = rec
    BY <1>7, <2>1
  <2>2. CASE Store(t) /\ rec' = [rec EXCEPT ![e] = copy]
    <3>1. rec'[e] = copy /\ \A d \in Exec : d # e => rec'[d] = rec[d]
      BY <1>4, <1>5, <2>2, WriteAt
    <3>2. Now(t).at = "store"
      BY <2>2, AtFacts DEF Store
    <3>3. CASE n = e
      <4>1. copy.status # "cancelled"
        BY <1>7, <3>1, <3>3 DEF Ran
      <4> QED
        BY <1>4, <3>2, <3>3, <4>1 DEF RunOf
    <3> QED
      BY <1>7, <3>1, <3>3
  <2>3. CASE Replace(t) /\ rec' = [rec EXCEPT ![e] = copy]
    <3>1. rec'[e] = copy /\ \A d \in Exec : d # e => rec'[d] = rec[d]
      BY <1>4, <1>5, <2>3, WriteAt
    <3>2. copy.status = "cancelled"
      BY <2>3, AtFacts DEF Replace, Shape
    <3>3. "cancelled" \notin Ran
      BY DEF Ran
    <3> QED
      BY <1>7, <3>1, <3>2, <3>3
  <2>4. CASE Remove(t) /\ rec' = [rec EXCEPT ![e] = Blank]
    <3>1. rec'[e].status = "absent" /\ \A d \in Exec : d # e => rec'[d] = rec[d]
      BY <1>4, <1>5, <2>4, WriteAt, BlankFacts
    <3>3. "absent" \notin Ran
      BY DEF Ran
    <3> QED
      BY <1>7, <3>1, <3>3
  <2> QED
    BY <2>1, <2>2, <2>3, <2>4, StepWrites
<1>8. ASSUME NEW n \in Exec, Kept(n)' PROVE Kept(n) \/ Top(todo, t, RunOf(n))
  <2>1. CASE rec'[n].status \in Ran
    BY <1>7, <2>1 DEF Kept
  <2>2. CASE n \in Leaves /\ handed'[n] > 0
    <3>1. CASE handed'[n] = handed[n]
      BY <2>2, <3>1 DEF Kept
    <3>2. CASE handed'[n] # handed[n]
      <4>1. Now(t) \in HandOf(n) /\ HandOf(n) \subseteq RunOf(n)
        BY <1>4, <1>6, <2>2, <3>2, KindsOf
      <4> QED
        BY <1>4, <4>1
    <3> QED
      BY <3>1, <3>2
  <2> QED
    BY <1>8, <2>1, <2>2 DEF Kept
<1>9. ASSUME NEW n \in Exec, Top(todo, t, BeginOf(n)) PROVE rec'[n].status # "pending"
  <2>1. Now(t).at = "store" /\ e = n /\ copy.status = "executing"
    BY <1>4, <1>9 DEF BeginOf
  <2>2. Store(t)
    BY <2>1 DEF Step, At, StartNode, HandOver, HandOverFails, Answer, ChildEnded, Look, Drop, Replace, CancelKid, CancelCall,
        CancelRefused, CancelEnd, DeleteTree, Remove
  <2>3. CASE Live(e)
    <3>1. rec' = [rec EXCEPT ![e] = copy]
      BY <2>2, <2>3 DEF Store
    <3>2. rec'[e] = copy
      BY <1>4, <1>5, <3>1, WriteAt
    <3> QED
      BY <2>1, <3>2
  <2>4. CASE ~Live(e)
    <3>1. rec' = rec
      BY <2>2, <2>4 DEF Store
    <3> QED
      BY <2>1, <2>4, <3>1 DEF Live
  <2> QED
    BY <2>3, <2>4
<1> QED
  BY <1>1, <1>2, <1>6, <1>8, <1>9 DEF Changes

LEMMA StillChanges ==
  ASSUME SeTypes, NEW t \in Thread, todo[t] = <<>>, method' = method, rec' = rec, handed' = handed
  PROVE  Changes(t)
BY RecSame DEF Changes, Kept, Top

\* Entries that start nothing, and do not look at a parent's children
LEMMA PlainCore ==
  ASSUME NEW t \in Thread, NEW calls, NEW rest, Moves(todo, todo', t, calls, rest), Changes(t),
         \A i \in DOMAIN calls :
           \/ Neutral(calls[i])
           \/ /\ calls[i].at \in {"answer", "store"}
              /\ \A n \in Exec : calls[i].e = n => Top(todo, t, StartOf(n)) \/ Top(todo, t, RunOf(n)) \/ Kept(n)
  PROVE  CoreStep(t, calls, rest, {}, {})
<1>1. \A i \in DOMAIN calls : calls[i].at \in {"answer", "store", "cancelKid", "cancelCall", "cancelEnd", "deleteTree", "remove"}
  BY DEF Neutral
<1>2. StartStep(t, calls, {})
  BY <1>1 DEF StartStep
<1>3. \A i \in DOMAIN calls, n \in Exec : calls[i] \in RunOf(n) => Top(todo, t, StartOf(n)) \/ Top(todo, t, RunOf(n)) \/ Kept(n)
  <2> SUFFICES ASSUME NEW i \in DOMAIN calls, NEW n \in Exec, calls[i] \in RunOf(n)
               PROVE  Top(todo, t, StartOf(n)) \/ Top(todo, t, RunOf(n)) \/ Kept(n)
    OBVIOUS
  <2>1. calls[i].at \in {"answer", "store"} /\ calls[i].e = n /\ (calls[i].at = "store" => calls[i].copy.status # "cancelled")
    BY <1>1 DEF RunOf, PastOf, DropOf
  <2>2. ~Neutral(calls[i])
    BY <2>1 DEF Neutral
  <2> QED
    BY <2>1, <2>2
<1>4. RunStep(t, calls, {})
  BY <1>1, <1>3 DEF RunStep, Changes
<1>5. TokStep(t, calls, {})
  BY <1>1 DEF TokStep, DropOf
<1> QED
  BY <1>2, <1>4, <1>5 DEF CoreStep, Changes

-----------------------------------------------------------------------------
(* Step by step *)

\* Of a sequence at one place, a child that is pending has not been touched, nor any below it
LEMMA PendingUntouched ==
  ASSUME SeTypes, CoreInv, NEW p \in Seqs, NEW k \in KidsOf(p), rec[k].status = "pending",
         ~NoneIn(todo, TokOf(p)) \/ ~NoneIn(todo, DropOf(p)), NoneIn(todo, StartOf(k))
  PROVE  Untouched(k)
<1>1. p \in Exec /\ k \in Exec
  BY Tree DEF Seqs
<1>2. ~Active(k)
  BY DEF CoreInv, SeqInv
<1>3. ~Started(k)
  BY <1>2 DEF Active, Live
<1>4. NoneIn(todo, BeginOf(k))
  BY <1>1, <1>3, KindsOf, Fewer DEF Started
<1> SUFFICES ASSUME NEW d \in Under[k], Reached(d) PROVE FALSE
  BY DEF Untouched
<1>5. d \in Exec /\ d # k
  BY <1>1, <1>3, Unders DEF Reached
<1>6. d \in Below(k)
  BY <1>5 DEF Below
<1>7. ~Kept(d)
  BY <1>1, <1>6 DEF CoreInv, AboveInv
<1>8. PICK t \in Thread : \E i \in DOMAIN todo[t] : todo[t][i] \in StartOf(d) \cup RunOf(d)
  BY <1>7 DEF Reached, Started, NoneIn
<1>9. PICK i \in DOMAIN todo[t] : todo[t][i] \in StartOf(d) \cup RunOf(d)
  BY <1>8
<1>10. todo[t][1] \in BeginOf(k)
  BY <1>1, <1>6, <1>9 DEF CoreInv, AboveInv
<1>11. 1 \in DOMAIN todo[t]
  <2>1. todo[t] \in Seq(EntryT)
    BY DEF SeTypes, Lists
  <2>2. PICK n \in Nat : n = Len(todo[t])
    BY <2>1, LenProperties
  <2>3. DOMAIN todo[t] = 1..n
    BY <2>1, <2>2, LenProperties
  <2> QED
    BY <1>9, <2>3
<1> QED
  BY <1>4, <1>10, <1>11 DEF NoneIn

\* The start of a parent
LEMMA StartsParentCore ==
  ASSUME SeTypes, ShapeInv, CoreInv, NEW t \in Thread, Changes(t), rec' = rec, NEW e \in Exec, Top(todo, t, StartOf(e)),
         NEW calls, NEW rest, Moves(todo, todo', t, calls, rest), StartsParent(e, calls), handed' = handed
  PROVE  \E N : CoreStep(t, calls, rest, N, {})
<1> DEFINE N == {k \in KidsOf(e) : \E i \in DOMAIN calls : calls[i].at = "start" /\ calls[i].e = k}
<1>1. e \in Parents /\ KidsOf(e) \subseteq Exec
  BY Tree DEF StartsParent
<1>2. \A k : Call("start", k).at = "start" /\ Call("start", k).e = k
  BY CallFields
<1>3. calls[1] \in EntryT /\ calls[1].at = "store" /\ calls[1].e = e /\ calls[1].copy.status = "executing" /\ 1 \in DOMAIN calls
  BY DEF StartsParent, BeginOf
<1>4. \A i \in DOMAIN calls : i = 1 \/ (calls[i].at = "start" /\ calls[i].e \in KidsOf(e))
  BY <1>2 DEF StartsParent
<1>5. \A k \in N : Untouched(k)
  <2> SUFFICES ASSUME NEW k \in KidsOf(e), NEW d \in Under[k], Reached(d) PROVE FALSE
    BY DEF Untouched
  <2>1. ~NoneIn(todo, StartOf(e))
    BY TopIs DEF SeTypes
  <2>2. k \in Under[e] /\ Under[k] \subseteq Under[e] /\ e \notin Under[k]
    BY Unders, NoCycle
  <2>3. d \in Below(e)
    BY <2>2 DEF Below
  <2> QED
    BY <2>1, <2>3 DEF CoreInv, StartInv
<1>6. ASSUME e \in Seqs
      PROVE  \E j \in DOMAIN Kids[e] :
               N = {Kids[e][j]} /\ \A i \in DOMAIN Kids[e] : i < j => rec'[Kids[e][i]].status \in {"completed", "absent"}
  <2>1. DOMAIN calls = {1, 2} /\ calls[2] = Call("start", Kids[e][1])
    BY <1>6 DEF StartsParent
  <2>2. 1 \in DOMAIN Kids[e] /\ Kids[e][1] \in KidsOf(e)
    BY <1>1, Tree
  <2>3. N = {Kids[e][1]}
    BY <1>2, <1>3, <2>1, <2>2
  <2>4. \A i \in DOMAIN Kids[e] : ~(i < 1)
    <3>1. Kids[e] \in Seq(Exec)
      BY Tree
    <3>2. PICK m \in Nat : m = Len(Kids[e])
      BY <3>1, LenProperties
    <3>3. DOMAIN Kids[e] = 1..m
      BY <3>1, <3>2, LenProperties
    <3> QED
      BY <3>3
  <2> HIDE DEF N
  <2> QED
    BY <2>2, <2>3, <2>4
<1>7. StartStep(t, calls, N)
  <2>1. N \subseteq Exec /\ N \subseteq KidsOf(e)
    BY <1>1
  <2>2. \A i \in DOMAIN calls : calls[i].at = "start" => calls[i].e \in N
    BY <1>3, <1>4
  <2>3. \A k \in N : \E i \in DOMAIN calls : calls[i].at = "start" /\ calls[i].e = k
    OBVIOUS
  <2>4. \A i, j \in DOMAIN calls : calls[i].at = "start" /\ calls[j].at = "start" /\ calls[i].e = calls[j].e => i = j
    BY DEF StartsParent
  <2>5. 1 \in DOMAIN calls /\ calls[1] \in BeginOf(e)
    BY DEF StartsParent
  <2> HIDE DEF N
  <2> QED
    BY <1>1, <1>5, <1>6, <2>1, <2>2, <2>3, <2>4, <2>5 DEF StartStep
<1> HIDE DEF N
<1>8. RunStep(t, calls, {})
  <2>1. \A i \in DOMAIN calls, n \in Exec : calls[i] \in RunOf(n) => Top(todo, t, StartOf(n))
    BY <1>3, <1>4 DEF RunOf, PastOf, DropOf
  <2>2. \A i \in DOMAIN calls : calls[i].at # "hand"
    BY <1>3, <1>4
  <2> QED
    BY <2>1, <2>2 DEF RunStep, Changes
<1>9. TokStep(t, calls, {})
  BY <1>3, <1>4 DEF TokStep, DropOf
<1>10. CoreStep(t, calls, rest, N, {})
  BY <1>7, <1>8, <1>9 DEF CoreStep, Changes
<1> QED
  BY <1>10

\* ... of a simple execution
LEMMA StartsLeafCore ==
  ASSUME SeTypes, ShapeInv, CoreInv, NEW t \in Thread, Changes(t), rec' = rec, NEW e \in Exec, Top(todo, t, StartOf(e)),
         NEW calls, NEW rest, Moves(todo, todo', t, calls, rest), StartsLeaf(e, calls), handed' = handed
  PROVE  CoreStep(t, calls, rest, {}, {})
<1>1. \A i \in DOMAIN calls : calls[i].e = e /\ (calls[i].at = "hand" \/ calls[i].at = "store")
  BY DEF StartsLeaf, BeginOf
<1>2. \A i, j \in DOMAIN calls : calls[i].at = "hand" /\ calls[j].at = "hand" => i = j
  BY DEF StartsLeaf
<1>3. StartStep(t, calls, {})
  BY <1>1 DEF StartStep
<1>4. \A i \in DOMAIN calls, n \in Exec : calls[i] \in RunOf(n) => Top(todo, t, StartOf(n))
  BY <1>1 DEF RunOf, PastOf, DropOf
<1>5. \A i \in DOMAIN calls : calls[i].at = "hand" =>
       Top(todo, t, StartOf(calls[i].e)) /\ \A j \in DOMAIN calls : calls[j].at = "hand" => i = j
  BY <1>1, <1>2
<1>6. RunStep(t, calls, {})
  BY <1>4, <1>5 DEF RunStep, Changes
<1>7. TokStep(t, calls, {})
  BY <1>1 DEF TokStep, DropOf
<1> QED
  BY <1>3, <1>6, <1>7 DEF CoreStep, Changes

\* A look, as to one child
Sees(s, p, k) ==
  /\ s = "completed" => rec[k].status \in {"completed", "absent"}
  /\ s \in {"failed", "cancelled"} => rec[k].status \in {"failed", "cancelled", "absent"}
  /\ s = "absent" => rec[k].status = "absent"
  /\ p \in Seqs => s # "executing"
  /\ p \in Seqs /\ s = "pending" => Untouched(k)

\* What is read now is seen as it is
LEMMA SeesNow ==
  ASSUME SeTypes, CoreInv, NEW p \in Parents, NEW k \in KidsOf(p), ~NoneIn(todo, PastOf(p)),
         p \in Seqs => NoneIn(todo, StartOf(k))
  PROVE  Sees(rec[k].status, p, k)
<1> SUFFICES ASSUME p \in Seqs
             PROVE  rec[k].status # "executing" /\ (rec[k].status = "pending" => Untouched(k))
  BY DEF Sees
<1>1. p \in Exec /\ ~NoneIn(todo, TokOf(p))
  BY KindsOf, Fewer, Tree
<1>2. ~Active(k)
  BY <1>1 DEF CoreInv, SeqInv
<1>3. rec[k].status # "executing"
  BY <1>2 DEF Active, Live, Started, Kept, Ran
<1> QED
  BY <1>1, <1>3, PendingUntouched

\* While a sequence's look is the innermost call, none of its children is about to be started
LEMMA NoStarts ==
  ASSUME SeTypes, CoreInv, NEW t \in Thread, NEW p \in Seqs, NEW k \in KidsOf(p), Top(todo, t, PastOf(p))
  PROVE  NoneIn(todo, StartOf(k))
<1> SUFFICES ASSUME NEW u \in Thread, NEW i \in DOMAIN todo[u], todo[u][i] \in StartOf(k) PROVE FALSE
  BY DEF NoneIn
<1>1. p \in Exec /\ k \in Exec
  BY Tree DEF Seqs
<1>2. StartOf(k) \subseteq TokOf(p) /\ PastOf(p) \subseteq TokOf(p)
  BY <1>1, KindsOf
<1>3. 1 \in DOMAIN todo[t] /\ todo[t][1] \in PastOf(p)
  BY TopIs DEF SeTypes
<1>4. u = t /\ i = 1
  BY <1>2, <1>3 DEF CoreInv, SeqInv, OnceIn
<1>5. todo[t][1].at = "start" /\ todo[t][1].at \in {"childEnded", "look"}
  BY <1>3, <1>4 DEF StartOf, PastOf
<1> QED
  BY <1>5

\* All that a look has seen
LEMMA LookSaw ==
  ASSUME SeTypes, ShapeInv, CoreInv, NEW t \in Thread, Look(t),
         NEW saw, \A i \in DOMAIN saw : /\ i \in DOMAIN Kids[Now(t).e]
                                       /\ \/ i \in DOMAIN Now(t).saw /\ saw[i] = Now(t).saw[i]
                                          \/ saw[i] = rec[Kids[Now(t).e][i]].status
  PROVE  \A j \in DOMAIN saw : Sees(saw[j], Now(t).e, Kids[Now(t).e][j])
<1> DEFINE p == Now(t).e
<1>1. Now(t).at = "look" /\ Now(t).e \in Parents /\ Now(t) \in PastOf(Now(t).e)
  BY LookCalls
<1>2. /\ Top(todo, t, PastOf(p)) /\ todo[t][1] = Now(t) /\ 1 \in DOMAIN todo[t] /\ Now(t) \in EntryT
      /\ p \in Exec /\ p \in Parents
  BY <1>1, AtFacts DEF Look
<1>4. ~NoneIn(todo, PastOf(p))
  BY <1>2, TopIs DEF SeTypes
<1>8. \A j \in DOMAIN saw : Sees(saw[j], p, Kids[p][j])
  <2> SUFFICES ASSUME NEW j \in DOMAIN saw PROVE Sees(saw[j], p, Kids[p][j])
    OBVIOUS
  <2>1. j \in DOMAIN Kids[p] /\ Kids[p][j] \in KidsOf(p)
    BY <1>2, Tree
  <2>2. CASE saw[j] = rec[Kids[p][j]].status
    <3>1. p \in Seqs => NoneIn(todo, StartOf(Kids[p][j]))
      BY <1>2, <2>1, NoStarts
    <3> QED
      BY <1>2, <1>4, <2>1, <2>2, <3>1, SeesNow
  <2>3. CASE j \in DOMAIN Now(t).saw /\ saw[j] = Now(t).saw[j]
    <3>1. ~NoneIn(todo, {Now(t)})
      BY <1>2 DEF NoneIn
    <3>2. LookOk(Now(t))
      BY <1>1, <1>2, <3>1 DEF CoreInv, LookInv
    <3>3. LookSees(Now(t), j)
      BY <2>3, <3>2 DEF LookOk
    <3> QED
      BY <2>3, <3>3 DEF LookSees, Sees
  <2> QED
    BY <2>2, <2>3
<1> QED
  BY <1>8

Core(t) == \E calls, rest, N, C : CoreStep(t, calls, rest, N, C) /\ \A i \in DOMAIN calls : Fine(calls[i])

LEMMA LookCore ==
  ASSUME SeTypes, ShapeInv, CoreInv, RecInv, ToldInv, NEW t \in Thread, Look(t), Changes(t)
  PROVE  Core(t)
<1> DEFINE p == Now(t).e
<1>1. PICK calls \in Seq(EntryT), saw \in Seq(Status) :
           /\ Now(t).at = "look" /\ Now(t).e \in Parents /\ Now(t) \in PastOf(Now(t).e)
           /\ Moves(todo, todo', t, calls, Tail(todo[t])) /\ \A i \in DOMAIN calls : Shape(calls[i])
           /\ \A i \in DOMAIN saw : /\ i \in DOMAIN Kids[Now(t).e]
                                    /\ \/ i \in DOMAIN Now(t).saw /\ saw[i] = Now(t).saw[i]
                                       \/ saw[i] = rec[Kids[Now(t).e][i]].status
           /\ Looks(Now(t).e, saw, Now(t).copy, calls)
  BY LookCalls
<1>2. /\ Top(todo, t, PastOf(p)) /\ todo[t][1] = Now(t) /\ 1 \in DOMAIN todo[t] /\ Now(t) \in EntryT
      /\ p \in Exec /\ p \in Parents
  BY <1>1, AtFacts DEF Look
<1>3. rec' = rec /\ handed' = handed
  BY DEF Look
<1>4. ~NoneIn(todo, PastOf(p))
  BY <1>2, TopIs DEF SeTypes
<1>5. ToldOk(Now(t).copy)
  BY <1>2 DEF ToldInv
<1>6. PastOf(p) \subseteq RunOf(p)
  BY <1>2, KindsOf
<1>7. Top(todo, t, RunOf(p))
  BY <1>2, <1>6 DEF Top
<1>8. \A j \in DOMAIN saw : Sees(saw[j], p, Kids[p][j])
  BY <1>1, LookSaw
<1> HIDE DEF p
<1>9. Moves(todo, todo', t, calls, Tail(todo[t])) /\ Looks(p, saw, Now(t).copy, calls)
  BY <1>1 DEF p
<1> DEFINE rest == Tail(todo[t])
<1> HIDE DEF rest
<1>10. Moves(todo, todo', t, calls, rest)
  BY <1>9 DEF rest
<1>11. ASSUME calls = <<>>
       PROVE  Core(t)
  <2>1. \A i \in DOMAIN calls : FALSE
    BY <1>11, EmptyFacts
  <2>2. CoreStep(t, calls, rest, {}, {})
    BY <1>10, <2>1, PlainCore
  <2> QED
    BY <2>1, <2>2 DEF Core
<1>12. ASSUME NEW x \in EntryT, calls = <<x>>, x.at = "look", x.e = p, x.saw = saw, x.copy = Now(t).copy
       PROVE  Core(t)
  <2>1. DOMAIN calls = {1} /\ calls[1] = x /\ Len(calls) = 1
    BY <1>12, EmptyFacts
  <2>2. \A j \in DOMAIN saw : j \in DOMAIN Kids[p]
    BY <1>1 DEF p
  <2>3. LookOk(x)
    BY <1>8, <1>12, <2>2 DEF LookOk, LookSees, Sees
  <2>4. StartStep(t, calls, {})
    BY <2>1, <1>12 DEF StartStep
  <2>5. \A n \in Exec : x \in RunOf(n) => n = p
    BY <1>12 DEF RunOf, PastOf, DropOf
  <2>6. RunStep(t, calls, {})
    BY <1>7, <1>12, <2>1, <2>5 DEF RunStep, Changes
  <2>7. TokStep(t, calls, {})
    BY <1>2, <1>12, <2>1, <2>3 DEF TokStep, DropOf
  <2>8. CoreStep(t, calls, rest, {}, {})
    BY <1>10, <2>4, <2>6, <2>7 DEF CoreStep, Changes
  <2>9. Fine(x)
    BY <1>5, <1>12 DEF Fine
  <2> QED
    BY <2>1, <2>8, <2>9 DEF Core
<1>13. ASSUME NEW x \in EntryT, calls = <<x>>, x.at = "store", x.e = p, x.copy.status \in {"completed", "failed"}
       PROVE  Core(t)
  <2>1. DOMAIN calls = {1} /\ calls[1] = x
    BY <1>13, EmptyFacts
  <2>2. CoreStep(t, calls, rest, {}, {})
    BY <1>7, <1>10, <1>13, <2>1, PlainCore
  <2>3. Fine(x)
    BY <1>13 DEF Fine, ToldOk
  <2> QED
    BY <2>1, <2>2, <2>3 DEF Core
<1>14. ASSUME NEW x \in EntryT, x.at = "store", x.e = p, x.copy.status = "failed", Before("drop", p, x, calls)
       PROVE  Core(t)
  <2>1. \A k : Call("drop", k).at = "drop" /\ Call("drop", k).e = k /\ ~Call("drop", k).copy.told
    BY CallFields, BlankFacts
  <2>2. \A i \in DOMAIN calls : calls[i] = x \/ (calls[i].at = "drop" /\ calls[i].e \in KidsOf(p) /\ ~calls[i].copy.told)
    <3> SUFFICES ASSUME NEW i \in DOMAIN calls, calls[i] # x
                 PROVE  calls[i].at = "drop" /\ calls[i].e \in KidsOf(p) /\ ~calls[i].copy.told
      OBVIOUS
    <3>1. PICK k \in KidsOf(p) : calls[i] = Call("drop", k)
      BY <1>14 DEF Before
    <3> QED
      BY <2>1, <3>1
  <2>3. StartStep(t, calls, {})
    BY <1>14, <2>2 DEF StartStep
  <2>4. ASSUME NEW i \in DOMAIN calls, NEW n \in Exec, calls[i] \in RunOf(n)
        PROVE  n = p
    <3>1. CASE calls[i] = x
      BY <1>14, <2>4, <3>1 DEF RunOf, PastOf, DropOf
    <3>2. CASE calls[i].at = "drop" /\ calls[i].e \in KidsOf(p)
      <4>1. calls[i].e \in KidsOf(n)
        BY <2>4, <3>2 DEF RunOf, PastOf, DropOf
      <4> QED
        BY <1>2, <3>2, <4>1, Tree
    <3> QED
      BY <2>2, <3>1, <3>2
  <2>5. RunStep(t, calls, {})
    BY <1>7, <1>14, <2>2, <2>4 DEF RunStep, Changes
  <2>6. \A i \in DOMAIN calls, n \in Exec : calls[i] \in DropOf(n) => n = p
    BY <2>4 DEF RunOf
  <2>7. TokStep(t, calls, {})
    BY <1>2, <1>14, <2>2, <2>6 DEF TokStep
  <2>8. CoreStep(t, calls, rest, {}, {})
    BY <1>10, <2>3, <2>5, <2>7 DEF CoreStep, Changes
  <2>9. \A i \in DOMAIN calls : Fine(calls[i])
    BY <1>14, <2>2 DEF Fine, ToldOk
  <2> QED
    BY <2>8, <2>9 DEF Core
<1>15. ASSUME p \in Seqs, DOMAIN saw = DOMAIN Kids[p], NEW j \in DOMAIN Kids[p],
              calls = <<Call("start", Kids[p][j])>>, saw[j] = "pending",
              \A i \in DOMAIN Kids[p] : i < j => saw[i] \notin {"pending", "failed", "cancelled"}
       PROVE  Core(t)
  <2> DEFINE k == Kids[p][j]
             x == Call("start", k)
  <2>1. k \in Exec /\ k \in KidsOf(p)
    BY <1>2, Tree
  <2>2. x \in EntryT /\ x.at = "start" /\ x.e = k /\ ~x.copy.told
    <3>1. "start" \in Place
      BY DEF Place
    <3> QED
      BY <2>1, <3>1, CallFacts, CallFields, BlankFacts
  <2> HIDE DEF x
  <2>3. DOMAIN calls = {1} /\ calls[1] = x
    BY <1>15, <2>2, EmptyFacts DEF x
  <2>4. Untouched(k)
    BY <1>8, <1>15 DEF Sees
  <2>5. \A i \in DOMAIN Kids[p] : i < j => rec'[Kids[p][i]].status \in {"completed", "absent"}
    <3> SUFFICES ASSUME NEW i \in DOMAIN Kids[p], i < j PROVE rec[Kids[p][i]].status \in {"completed", "absent"}
      BY <1>3
    <3>1. saw[i] \in Status /\ Sees(saw[i], p, Kids[p][i])
      BY <1>8, <1>15, ElementOfSeq
    <3>2. saw[i] \in {"completed", "absent"}
      BY <1>15, <3>1 DEF Sees, Status
    <3> QED
      BY <3>1, <3>2 DEF Sees
  <2>6. k = Kids[p][j]
    OBVIOUS
  <2> HIDE DEF k
  <2>7. StartStep(t, calls, {k})
    <3>1. {k} \subseteq KidsOf(p) /\ {k} \subseteq Exec /\ (\A n \in {k} : Untouched(n))
      BY <2>1, <2>4
    <3>2. \E i \in DOMAIN Kids[p] : {k} = {Kids[p][i]} /\ \A h \in DOMAIN Kids[p] : h < i => rec'[Kids[p][h]].status \in {"completed", "absent"}
      BY <2>5, <2>6
    <3>3. \A i \in DOMAIN calls : i = 1 /\ calls[i].at = "start" /\ calls[i].e = k
      BY <2>2, <2>3
    <3>4. \A n \in {k} : \E i \in DOMAIN calls : calls[i].at = "start" /\ calls[i].e = n
      BY <2>2, <2>3
    <3>5. p \in Parents /\ Top(todo, t, PastOf(p)) /\ p \in Seqs
      BY <1>2, <1>15
    <3>6. \A i, h \in DOMAIN calls : i = h
      BY <2>3
    <3> DEFINE N == {k}
    <3>7. /\ N \subseteq Exec /\ N # {} /\ (\A n \in N : Untouched(n)) /\ N \subseteq KidsOf(p)
          /\ \E i \in DOMAIN Kids[p] : N = {Kids[p][i]} /\ \A h \in DOMAIN Kids[p] : h < i => rec'[Kids[p][h]].status \in {"completed", "absent"}
          /\ (\A i \in DOMAIN calls : calls[i].at = "start" => calls[i].e \in N)
          /\ \A n \in N : \E i \in DOMAIN calls : calls[i].at = "start" /\ calls[i].e = n
      BY <3>1, <3>2, <3>3, <3>4
    <3> HIDE DEF N
    <3>8. StartStep(t, calls, N)
      BY <3>5, <3>6, <3>7 DEF StartStep
    <3> QED
      BY <3>8 DEF N
  <2>8. RunStep(t, calls, {})
    BY <2>2, <2>3 DEF RunStep, Changes, RunOf, PastOf, DropOf
  <2>9. TokStep(t, calls, {})
    BY <2>2, <2>3 DEF TokStep, DropOf
  <2>10. CoreStep(t, calls, rest, {k}, {})
    BY <1>10, <2>7, <2>8, <2>9 DEF CoreStep, Changes
  <2>11. Fine(x)
    BY <2>2 DEF Fine, ToldOk
  <2> QED
    BY <2>3, <2>10, <2>11 DEF Core
<1> QED
  BY <1>9, <1>11, <1>12, <1>13, <1>14, <1>15 DEF Looks

LEMMA StartNodeCore ==
  ASSUME SeTypes, ShapeInv, CoreInv, RecInv, ToldInv, NEW t \in Thread, StartNode(t), Changes(t)
  PROVE  Core(t)
<1> DEFINE e == Now(t).e
<1>1. PICK calls \in Seq(EntryT) :
           /\ Now(t) \in StartOf(Now(t).e)
           /\ Moves(todo, todo', t, calls, Tail(todo[t]))
           /\ calls = <<>> \/ StartsLeaf(Now(t).e, calls) \/ StartsParent(Now(t).e, calls)
  BY StartNodeCalls
<1>2. e \in Exec /\ Top(todo, t, StartOf(e)) /\ rec' = rec /\ handed' = handed
  BY <1>1, AtFacts DEF StartNode
<1>3. ToldOk(rec[e]) /\ (rec[e].status = "cancelled" => ~rec[e].told)
  BY <1>2 DEF ToldInv, ToldOk
<1> DEFINE rest == Tail(todo[t])
<1> HIDE DEF e
<1>4. Moves(todo, todo', t, calls, rest) /\ (calls = <<>> \/ StartsLeaf(e, calls) \/ StartsParent(e, calls))
  BY <1>1 DEF e
<1> HIDE DEF rest
<1>5. CASE calls = <<>>
  <2>1. \A i \in DOMAIN calls : FALSE
    BY <1>5, EmptyFacts
  <2>2. CoreStep(t, calls, rest, {}, {})
    BY <1>4, <2>1, PlainCore
  <2> QED
    BY <2>1, <2>2 DEF Core
<1>6. CASE StartsLeaf(e, calls)
  <2>1. CoreStep(t, calls, rest, {}, {})
    BY <1>2, <1>4, <1>6, StartsLeafCore
  <2>2. ASSUME NEW i \in DOMAIN calls PROVE Fine(calls[i])
    <3>1. (calls[i].at = "hand" \/ calls[i].at = "store") /\ (calls[i].copy.told <=> rec[e].told)
          /\ (calls[i].copy.status \in {rec[e].status, "executing"})
      BY <1>6 DEF StartsLeaf, BeginOf
    <3> QED
      BY <1>3, <3>1 DEF Fine, ToldOk
  <2> QED
    BY <2>1, <2>2 DEF Core
<1>7. CASE StartsParent(e, calls)
  <2>1. PICK N : CoreStep(t, calls, rest, N, {})
    BY <1>2, <1>4, <1>7, StartsParentCore
  <2>2. ASSUME NEW i \in DOMAIN calls PROVE Fine(calls[i])
    <3>1. CASE i = 1
      <4>1. calls[i].at = "store" /\ calls[i].copy.status = "executing"
        BY <1>7, <3>1 DEF StartsParent, BeginOf
      <4> QED
        BY <4>1 DEF Fine, ToldOk
    <3>2. CASE i # 1
      <4>1. PICK k \in KidsOf(e) : calls[i] = Call("start", k)
        BY <1>7, <3>2 DEF StartsParent
      <4> QED
        BY <4>1, CallFields, BlankFacts DEF Fine, ToldOk
    <3> QED
      BY <3>1, <3>2
  <2> QED
    BY <2>1, <2>2 DEF Core
<1> QED
  BY <1>4, <1>5, <1>6, <1>7

LEMMA HandOverCore ==
  ASSUME SeTypes, ShapeInv, CoreInv, RecInv, ToldInv, NEW t \in Thread, HandOver(t), Changes(t)
  PROVE  Core(t)
<1> DEFINE e == Now(t).e
<1>1. PICK calls \in Seq(EntryT) :
           /\ Now(t) \in HandOf(Now(t).e) /\ Now(t).e \in Leaves
           /\ Moves(todo, todo', t, calls, Tail(todo[t]))
           /\ calls = <<>> \/ calls = <<Entry("answer", Now(t).e, Now(t).copy)>>
  BY HandOverCalls
<1>2. /\ e \in Exec /\ Top(todo, t, HandOf(e)) /\ 1 \in DOMAIN todo[t] /\ Now(t) = todo[t][1] /\ Now(t).copy \in Record
      /\ HandOf(e) \subseteq RunOf(e)
  BY <1>1, AtFacts, KindsOf DEF HandOver
<1>3. Top(todo, t, RunOf(e)) /\ ToldOk(Now(t).copy)
  BY <1>2 DEF ToldInv, Top
<1> DEFINE rest == Tail(todo[t])
           x == Entry("answer", e, Now(t).copy)
<1>4. Moves(todo, todo', t, calls, rest) /\ (calls = <<>> \/ calls = <<x>>)
  BY <1>1
<1>5. x \in EntryT /\ x.at = "answer" /\ x.e = e /\ x.copy = Now(t).copy
  <2>1. "answer" \in Place
    BY DEF Place
  <2> QED
    BY <1>2, <2>1, EntryFacts, EntryFields
<1> HIDE DEF rest, x
<1>6. CASE calls = <<>>
  <2>1. \A i \in DOMAIN calls : FALSE
    BY <1>6, EmptyFacts
  <2>2. CoreStep(t, calls, rest, {}, {})
    BY <1>4, <2>1, PlainCore
  <2> QED
    BY <2>1, <2>2 DEF Core
<1>7. CASE calls = <<x>>
  <2>1. DOMAIN calls = {1} /\ calls[1] = x
    BY <1>5, <1>7, EmptyFacts
  <2>2. CoreStep(t, calls, rest, {}, {})
    BY <1>3, <1>4, <1>5, <2>1, PlainCore
  <2>3. handed'[e] > 0
    <3>1. handed' = [handed EXCEPT ![e] = @ + 1]
      BY DEF HandOver
    <3>2. handed \in [Leaves -> Nat] /\ e \in Leaves
      BY <1>1 DEF SeTypes
    <3> HIDE DEF e
    <3> QED
      BY <3>1, <3>2
  <2>4. Fine(x)
    BY <1>3, <1>5, <2>3 DEF Fine
  <2> QED
    BY <2>1, <2>2, <2>4 DEF Core
<1> QED
  BY <1>4, <1>6, <1>7

LEMMA EndCore ==
  ASSUME SeTypes, ShapeInv, CoreInv, RecInv, ToldInv, NEW t \in Thread, HandOverFails(t) \/ Answer(t), Changes(t)
  PROVE  Core(t)
<1> DEFINE e == Now(t).e
           rest == Tail(todo[t])
<1>1. PICK x \in EntryT :
           /\ Now(t) \in RunOf(e) /\ e \in Leaves
           /\ Moves(todo, todo', t, <<x>>, rest)
           /\ x.at = "store" /\ x.e = e /\ x.copy.status \in {"completed", "failed"}
  BY EndCalls
<1>2. Top(todo, t, RunOf(e))
  BY <1>1, AtFacts DEF HandOverFails, Answer
<1> HIDE DEF rest, e
<1> DEFINE calls == <<x>>
<1>3. DOMAIN calls = {1} /\ calls[1] = x
  BY <1>1, EmptyFacts
<1>4. Moves(todo, todo', t, calls, rest)
  BY <1>1
<1> HIDE DEF calls
<1>5. CoreStep(t, calls, rest, {}, {})
  BY <1>1, <1>2, <1>3, <1>4, PlainCore
<1>6. Fine(x)
  BY <1>1 DEF Fine, ToldOk
<1> QED
  BY <1>3, <1>5, <1>6 DEF Core

LEMMA StoreCore ==
  ASSUME SeTypes, ShapeInv, CoreInv, RecInv, ToldInv, NEW t \in Thread, Store(t), Changes(t)
  PROVE  Core(t)
<1>0. PICK e, copy : e = Now(t).e /\ copy = Now(t).copy
  OBVIOUS
<1>1. PICK calls \in Seq(EntryT) : \E rest :
           /\ Now(t).at = "store" /\ Now(t).e \in Exec /\ Now(t) \in EntryT
           /\ Moves(todo, todo', t, calls, rest)
           /\ calls = <<>> \/ \E p \in Parents :
                /\ calls = <<Call("childEnded", p)>> /\ Now(t).e \in KidsOf(p)
                /\ Live(Now(t).e) /\ Now(t).copy.told /\ Terminal(Now(t).copy.status)
  BY StoreCalls
<1>2. PICK rest : Moves(todo, todo', t, calls, rest)
  BY <1>1
<1>3. CASE calls = <<>>
  <2>1. \A i \in DOMAIN calls : FALSE
    BY <1>3, EmptyFacts
  <2>2. CoreStep(t, calls, rest, {}, {})
    BY <1>2, <2>1, PlainCore
  <2> QED
    BY <2>1, <2>2 DEF Core
<1>4. ASSUME NEW p \in Parents, calls = <<Call("childEnded", p)>>, e \in KidsOf(p), Live(e), copy.told, Terminal(copy.status)
      PROVE  Core(t)
  <2>1. e \in Exec /\ Now(t).at = "store" /\ Now(t) \in EntryT /\ todo[t][1] = Now(t) /\ 1 \in DOMAIN todo[t]
        /\ Top(todo, t, {Now(t)})
    BY <1>0, <1>1, AtFacts DEF Store
  <2>2. ToldOk(copy)
    BY <1>0, <2>1 DEF ToldInv
  <2>3. Now(t) \in RunOf(e)
    BY <1>0, <1>4, <2>1, <2>2 DEF ToldOk, RunOf
  <2>4. Top(todo, t, RunOf(e)) /\ ~NoneIn(todo, RunOf(e))
    BY <2>1, <2>3 DEF Top, NoneIn
  <2>5. Active(e)
    BY <1>4, <2>4 DEF Active, Started
  <2>6. ~Live(e)'
    <3>1. rec' = [rec EXCEPT ![e] = copy] /\ rec \in [Exec -> Record]
      BY <1>0, <1>4 DEF Store, SeTypes
    <3>2. rec'[e] = copy
      BY <2>1, <3>1, WriteAt
    <3> QED
      BY <1>4, <3>2 DEF Live, Terminal
  <2> DEFINE x == Call("childEnded", p)
  <2>7. p \in Exec
    BY Tree
  <2>8. x \in EntryT /\ x.at = "childEnded" /\ x.e = p /\ ~x.copy.told
    <3>1. "childEnded" \in Place
      BY DEF Place
    <3> QED
      BY <2>7, <3>1, CallFacts, CallFields, BlankFacts
  <2>9. DOMAIN calls = {1} /\ calls[1] = x /\ Len(calls) = 1
    BY <1>4, <2>8, EmptyFacts
  <2> HIDE DEF x
  <2>10. StartStep(t, calls, {})
    BY <2>8, <2>9 DEF StartStep
  <2>11. \A n \in Exec : x \in RunOf(n) => n = p
    BY <2>8 DEF RunOf, PastOf, DropOf
  <2>12. \A n \in {p} : \E k \in KidsOf(n) : Active(k) /\ ~Live(k)' /\ Top(todo, t, RunOf(k))
    BY <1>4, <2>4, <2>5, <2>6
  <2>13. RunStep(t, calls, {p})
    BY <2>7, <2>8, <2>9, <2>11, <2>12 DEF RunStep, Changes
  <2>14. TokStep(t, calls, {p})
    BY <2>8, <2>9 DEF TokStep, DropOf
  <2>15. CoreStep(t, calls, rest, {}, {p})
    BY <1>2, <2>10, <2>13, <2>14 DEF CoreStep, Changes
  <2>16. Fine(x)
    BY <2>8 DEF Fine, ToldOk
  <2> QED
    BY <2>9, <2>15, <2>16 DEF Core
<1> QED
  BY <1>0, <1>1, <1>3, <1>4

LEMMA ChildEndedCore ==
  ASSUME SeTypes, ShapeInv, CoreInv, RecInv, ToldInv, NEW t \in Thread, ChildEnded(t), Changes(t)
  PROVE  Core(t)
<1> DEFINE p == Now(t).e
           rest == Tail(todo[t])
           x == Entry("look", p, rec[p])
<1>1. PICK calls \in Seq(EntryT) :
           /\ p \in Parents /\ Now(t) \in PastOf(p)
           /\ Moves(todo, todo', t, calls, rest)
           /\ calls = <<>> \/ calls = <<x>>
  BY ChildEndedCalls
<1>2. Top(todo, t, PastOf(p)) /\ p \in Exec
  BY <1>1, AtFacts DEF ChildEnded
<1>3. Top(todo, t, RunOf(p))
  BY <1>2, KindsOf DEF Top
<1>4. x \in EntryT /\ x.at = "look" /\ x.e = p /\ x.copy = rec[p] /\ DOMAIN x.saw = {} /\ ToldOk(rec[p])
  <2>1. "look" \in Place
    BY DEF Place
  <2>2. rec[p] \in Record /\ ToldOk(rec[p])
    BY <1>2 DEF SeTypes, ToldInv
  <2>3. x.saw = <<>>
    BY EntryFields
  <2>4. DOMAIN x.saw = {}
    BY <2>3, EmptyFacts
  <2> QED
    BY <1>2, <2>1, <2>2, <2>4, EntryFacts, EntryFields
<1> HIDE DEF p, rest, x
<1>6. CASE calls = <<>>
  <2>1. \A i \in DOMAIN calls : FALSE
    BY <1>6, EmptyFacts
  <2>2. CoreStep(t, calls, rest, {}, {})
    BY <1>1, <2>1, PlainCore
  <2> QED
    BY <2>1, <2>2 DEF Core
<1>7. CASE calls = <<x>>
  <2>1. DOMAIN calls = {1} /\ calls[1] = x /\ Len(calls) = 1
    BY <1>4, <1>7, EmptyFacts
  <2>3. LookOk(x)
    BY <1>4 DEF LookOk
  <2>4. StartStep(t, calls, {})
    BY <2>1, <1>4 DEF StartStep
  <2>5. \A n \in Exec : x \in RunOf(n) => n = p
    BY <1>4 DEF RunOf, PastOf, DropOf
  <2>6. RunStep(t, calls, {})
    BY <1>3, <1>4, <2>1, <2>5 DEF RunStep, Changes
  <2>7. TokStep(t, calls, {})
    BY <1>2, <1>4, <2>1, <2>3 DEF TokStep, DropOf
  <2>8. CoreStep(t, calls, rest, {}, {})
    BY <1>1, <2>4, <2>6, <2>7 DEF CoreStep, Changes
  <2>9. Fine(x)
    BY <1>4 DEF Fine
  <2> QED
    BY <2>1, <2>8, <2>9 DEF Core
<1> QED
  BY <1>1, <1>6, <1>7

LEMMA DropCore ==
  ASSUME SeTypes, ShapeInv, CoreInv, RecInv, ToldInv, NEW t \in Thread, Drop(t), Changes(t)
  PROVE  Core(t)
<1> DEFINE k == Now(t).e
           rest == Tail(todo[t])
<1>1. PICK calls \in Seq(EntryT) :
           /\ Now(t).at = "drop" /\ k \in Exec /\ Now(t) \in EntryT
           /\ \E p \in Seqs : k \in KidsOf(p)
           /\ Moves(todo, todo', t, calls, rest)
           /\ \/ calls = <<>> /\ rec[k].status # "pending"
              \/ /\ rec[k].status = "pending"
                 /\ \E x \in EntryT : calls = <<x>> /\ x.at = "replace" /\ x.e = k
                                      /\ x.copy.status = "cancelled" /\ ~x.copy.told
  BY DropCalls
<1>2. PICK p \in Seqs : k \in KidsOf(p)
  BY <1>1
<1>3. p \in Exec
  BY Tree DEF Seqs
<1>4. Now(t) \in DropOf(p)
  BY <1>1, <1>2 DEF DropOf
<1>5. Top(todo, t, DropOf(p)) /\ 1 \in DOMAIN todo[t] /\ todo[t][1] = Now(t)
  BY <1>4, AtFacts DEF Drop
<1>6. Top(todo, t, RunOf(p)) /\ ~NoneIn(todo, DropOf(p))
  BY <1>3, <1>4, <1>5, KindsOf DEF Top, NoneIn
<1> HIDE DEF k, rest
<1>7. CASE calls = <<>>
  <2>1. \A i \in DOMAIN calls : FALSE
    BY <1>7, EmptyFacts
  <2>2. CoreStep(t, calls, rest, {}, {})
    BY <1>1, <2>1, PlainCore
  <2> QED
    BY <2>1, <2>2 DEF Core
<1>8. ASSUME rec[k].status = "pending", NEW x \in EntryT, calls = <<x>>, x.at = "replace", x.e = k, ~x.copy.told
      PROVE  Core(t)
  <2>1. DOMAIN calls = {1} /\ calls[1] = x
    BY <1>8, EmptyFacts
  <2>2. NoneIn(todo, StartOf(k))
    <3>1. NoneIn(todo, TokOf(p))
      BY <1>6 DEF CoreInv, SeqInv
    <3>2. StartOf(k) \subseteq TokOf(p)
      BY <1>2, <1>3, KindsOf
    <3> QED
      BY <3>1, <3>2, Fewer
  <2>3. Untouched(k)
    BY <1>2, <1>6, <1>8, <2>2, PendingUntouched
  <2>4. StartStep(t, calls, {})
    BY <1>8, <2>1 DEF StartStep
  <2>5. ASSUME NEW n \in Exec, x \in RunOf(n) PROVE n = p
    <3>1. k \in KidsOf(n)
      BY <1>8, <2>5 DEF RunOf, PastOf, DropOf
    <3> QED
      BY <1>2, <1>3, <3>1, Tree
  <2>6. RunStep(t, calls, {})
    BY <1>6, <1>8, <2>1, <2>5 DEF RunStep, Changes
  <2>7. \A n \in Exec : x \in DropOf(n) => n = p
    BY <2>5 DEF RunOf
  <2>8. TokStep(t, calls, {})
    BY <1>5, <1>8, <2>1, <2>3, <2>7 DEF TokStep
  <2>9. CoreStep(t, calls, rest, {}, {})
    BY <1>1, <2>4, <2>6, <2>8 DEF CoreStep, Changes
  <2>10. Fine(x)
    BY <1>8 DEF Fine, ToldOk
  <2> QED
    BY <2>1, <2>9, <2>10 DEF Core
<1> QED
  BY <1>1, <1>7, <1>8

\* The steps of a cancel or a removal start nothing and look at nothing
LEMMA NeutralCore ==
  ASSUME NEW t \in Thread, NEW calls, NEW rest, Moves(todo, todo', t, calls, rest), Changes(t),
         \A i \in DOMAIN calls : Neutral(calls[i]) /\ ToldOk(calls[i].copy)
  PROVE  Core(t)
<1>1. CoreStep(t, calls, rest, {}, {})
  BY PlainCore
<1>2. \A i \in DOMAIN calls : Fine(calls[i])
  BY DEF Fine, Neutral
<1> QED
  BY <1>1, <1>2 DEF Core

LEMMA CancelsNeutral ==
  ASSUME NEW e \in Exec, NEW calls, Cancels(e, calls)
  PROVE  \A i \in DOMAIN calls : Neutral(calls[i])
<1>1. PICK x \in EntryT :
       /\ x.e = e /\ x.copy.status = "cancelled"
       /\ \/ e \in Leaves /\ calls = <<x>> /\ x.at \in {"cancelCall", "store"}
          \/ e \in Parents /\ x.at = "cancelEnd" /\ Before("cancelKid", e, x, calls)
  BY DEF Cancels
<1>2. Neutral(x)
  BY <1>1 DEF Neutral
<1>3. CASE calls = <<x>>
  BY <1>2, <1>3, EmptyFacts
<1>4. CASE Before("cancelKid", e, x, calls)
  <2>1. \A k : Neutral(Call("cancelKid", k))
    BY CallFields DEF Neutral
  <2> QED
    BY <1>2, <1>4, <2>1 DEF Before
<1> QED
  BY <1>1, <1>3, <1>4

LEMMA OtherCore ==
  ASSUME SeTypes, ShapeInv, CoreInv, RecInv, ToldInv, NEW t \in Thread, Changes(t),
         Replace(t) \/ CancelKid(t) \/ CancelCall(t) \/ CancelRefused(t) \/ CancelEnd(t) \/ DeleteTree(t) \/ Remove(t)
  PROVE  Core(t)
<1>1. CASE Replace(t) \/ Remove(t)
  <2>1. Moves(todo, todo', t, <<>>, Tail(todo[t]))
    BY <1>1, NoCall DEF Replace, Remove
  <2> QED
    BY <2>1, EmptyFacts, NeutralCore
<1>2. CASE CancelKid(t)
  <2>1. PICK calls \in Seq(EntryT) :
           /\ Now(t).e \in Exec
           /\ Moves(todo, todo', t, calls, Tail(todo[t]))
           /\ calls = <<>> \/ Cancels(Now(t).e, calls)
           /\ \A i \in DOMAIN calls : ~calls[i].copy.told
    BY <1>2, CancelKidCalls
  <2>2. \A i \in DOMAIN calls : Neutral(calls[i])
    BY <2>1, CancelsNeutral, EmptyFacts
  <2> QED
    BY <2>1, <2>2, NeutralCore DEF ToldOk
<1>3. CASE CancelCall(t) \/ CancelRefused(t) \/ CancelEnd(t)
  <2>1. PICK calls \in Seq(EntryT) : \E rest :
           /\ Moves(todo, todo', t, calls, rest)
           /\ calls = <<>> \/ \E x \in EntryT : calls = <<x>> /\ x.at = "store" /\ x.copy = Now(t).copy /\ x.copy.status = "cancelled"
    BY <1>3, CancelStoreCalls
  <2>2. ToldOk(Now(t).copy)
    BY <1>3, AtFacts DEF CancelCall, CancelRefused, CancelEnd, ToldInv
  <2>3. \A i \in DOMAIN calls : Neutral(calls[i]) /\ ToldOk(calls[i].copy)
    BY <2>1, <2>2, EmptyFacts DEF Neutral
  <2> QED
    BY <2>1, <2>3, NeutralCore
<1>4. CASE DeleteTree(t)
  <2>1. PICK calls \in Seq(EntryT) :
           /\ Moves(todo, todo', t, calls, Tail(todo[t]))
           /\ \A i \in DOMAIN calls : calls[i].at \in {"deleteTree", "remove"} /\ ~calls[i].copy.told
    BY <1>4, DeleteTreeCalls
  <2> QED
    BY <2>1, NeutralCore DEF Neutral, ToldOk
<1> QED
  BY <1>1, <1>2, <1>3, <1>4

LEMMA StepCore ==
  ASSUME SeTypes, ShapeInv, CoreInv, RecInv, ToldInv, NEW t \in Thread, Step(t)
  PROVE  Core(t)
BY StepChanges, StartNodeCore, HandOverCore, EndCore, StoreCore, ChildEndedCore, LookCore, DropCore, OtherCore DEF Step

-----------------------------------------------------------------------------
(* The invariant: initially, and over each step *)

ExecInv == SeInv /\ CoreInv /\ RecInv /\ ToldInv

\* The uppermost execution is below no other
LEMMA RootAbove ==
  ASSUME NEW p \in Exec, p # Root
  PROVE  Root \notin Under[p]
<1> DEFINE S == Exec \ {Root}
<1>1. \A x \in Exec : Under[x] = {y \in Exec : \A Z \in SUBSET Exec : x \in Z /\ Closed(Z) => y \in Z}
  BY DEF Under
<1>2. S \in SUBSET Exec /\ p \in S
  OBVIOUS
<1>3. \A q \in Exec : Range(Kids[q]) \subseteq Exec /\ Root \notin Range(Kids[q])
  BY Tree DEF KidsOf
<1>4. Closed(S)
  BY <1>3 DEF Closed
<1>5. Root \notin S
  OBVIOUS
<1> HIDE DEF S
<1> QED
  BY <1>1, <1>2, <1>4, <1>5

LEMMA InitInv == ASSUME Init PROVE ExecInv
<1>1. SeInv
  BY InitTypes
<1>2. rec = [e \in Exec |-> [status |-> "pending", told |-> e # Root, started |-> FALSE]]
      /\ handed = [e \in Leaves |-> 0] /\ work = [e \in Leaves |-> "none"]
  BY DEF Init
<1>3. \A e \in Exec : rec[e].status = "pending" /\ ~rec[e].started /\ ~Kept(e)
  BY <1>2 DEF Kept, Ran
<1> DEFINE x == Call("start", Root)
<1>4. x.at = "start" /\ x.e = Root /\ ~x.copy.told
  BY CallFields, BlankFacts
<1> HIDE DEF x
<1>5. todo = [t \in Thread |-> IF t = Creator THEN <<x>> ELSE <<>>]
  BY DEF Init, x
<1>6. x \in EntryT
  <2>1. "start" \in Place
    BY DEF Place
  <2> QED
    BY <2>1, Tree, CallFacts DEF x
<1>7. DOMAIN <<x>> = {1} /\ <<x>>[1] = x /\ \A i \in DOMAIN <<>> : FALSE
  BY <1>6, EmptyFacts
<1>8. \A t \in Thread : \A i \in DOMAIN todo[t] : t = Creator /\ i = 1 /\ todo[t][i] = x
  BY <1>5, <1>7
<1>9. \A T : OnceIn(todo, T)
  BY <1>8 DEF OnceIn
<1>10. \A T : x \notin T => NoneIn(todo, T)
  BY <1>8 DEF NoneIn
<1>11. \A n \in Exec : x \notin RunOf(n) /\ x \notin HandOf(n) /\ x \notin DropOf(n) /\ x \notin PastOf(n) /\ (n # Root => x \notin StartOf(n))
  BY <1>4 DEF RunOf, HandOf, DropOf, PastOf, StartOf
<1>12. \A n \in Exec : ~Started(n) /\ (Reached(n) => n = Root)
  BY <1>3, <1>10, <1>11 DEF Started, Reached
<1>13. \A p \in Exec : Root \notin Below(p) /\ Below(p) \subseteq Exec
  BY RootAbove, Unders DEF Below
<1>14. OnceInv
  BY <1>2, <1>9, <1>10, <1>11, Tree DEF OnceInv
<1>15. StartInv
  BY <1>12, <1>13 DEF StartInv
<1>16. AboveInv
  BY <1>3, <1>8, <1>11, <1>13 DEF AboveInv
<1>17. PastInv
  BY <1>4, <1>8 DEF PastInv
<1>18. SeqInv
  <2>1. \A p \in Seqs : NoneIn(todo, DropOf(p)) /\ \A k \in KidsOf(p) : ~Active(k)
    BY <1>10, <1>11, <1>12, Tree DEF Seqs, Active
  <2> QED
    BY <1>9, <2>1 DEF SeqInv
<1>19. LookInv /\ ReplaceInv
  <2>1. \A y \in EntryT : y.at \in {"look", "replace"} => NoneIn(todo, {y})
    BY <1>4, <1>10
  <2> QED
    BY <2>1 DEF LookInv, ReplaceInv
<1>20. \A k \in Exec : k # Root => Untouched(k)
  BY <1>12, RootAbove, Unders DEF Untouched
<1>21. BeforeInv
  BY <1>20, Tree DEF BeforeInv, Seqs
<1>22. RecInv
  BY <1>2, <1>3, <1>4, <1>8 DEF RecInv
<1>23. ToldInv
  BY <1>3, <1>4, <1>8 DEF ToldInv, ToldOk
<1> QED
  BY <1>1, <1>14, <1>15, <1>16, <1>17, <1>18, <1>19, <1>21, <1>22, <1>23 DEF ExecInv, CoreInv

LEMMA CoreToInv ==
  ASSUME ExecInv, NEW t \in Thread, Core(t), SeInv', Works, \A e \in Exec : RecordOk(rec'[e])
  PROVE  ExecInv'
<1>1. PICK calls, rest, N, C : CoreStep(t, calls, rest, N, C) /\ \A i \in DOMAIN calls : Fine(calls[i])
  BY DEF Core
<1>2. CoreInv'
  BY <1>1, CoreKeeps DEF ExecInv, SeInv
<1>3. RecInv' /\ ToldInv'
  BY <1>1, EntriesStep DEF ExecInv, SeInv, CoreStep
<1> QED
  BY <1>2, <1>3 DEF ExecInv

LEMMA StepInv ==
  ASSUME ExecInv, NEW t \in Thread, Step(t)
  PROVE  ExecInv'
<1>1. SeTypes /\ ShapeInv /\ CoreInv /\ RecInv /\ ToldInv
  BY DEF ExecInv, SeInv
<1> QED
  BY <1>1, StepCore, StepKeepsTypes, StepWorks, StepRecords, CoreToInv

LEMMA SameRecords == ASSUME RecInv, ToldInv, rec' = rec PROVE \A e \in Exec : RecordOk(rec'[e])
BY DEF RecInv, ToldInv, RecordOk

LEMMA ReportInv ==
  ASSUME ExecInv, NEW t \in Thread, NEW e \in Leaves, Report(t, e) \/ (t = Loop /\ SweepTimeout(e))
  PROVE  ExecInv'
<1>1. SeTypes /\ ShapeInv /\ CoreInv /\ RecInv /\ ToldInv
  BY DEF ExecInv, SeInv
<1>2. rec' = rec /\ handed' = handed /\ method' = method
  BY DEF Report, SweepTimeout
<1>3. Kept(e) /\ e \in Exec
  <2>1. ASSUME Report(t, e) PROVE handed[e] > 0
    BY <1>1, <2>1 DEF Report, RecInv
  <2>2. ASSUME SweepTimeout(e) PROVE rec[e].status = "executing"
    BY <1>1, <2>2, Tree DEF SweepTimeout, RecInv, Live
  <2> QED
    BY <2>1, <2>2, Tree DEF Kept, Ran
<1>4. Works
  <2>1. work' = [work EXCEPT ![e] = @] \/ work' = [work EXCEPT ![e] = "over"] \/ work' = work
    BY DEF Report, SweepTimeout
  <2>2. Report(t, e) => handed[e] > 0
    BY <1>1 DEF Report, RecInv
  <2>3. SweepTimeout(e) => work' = work
    BY DEF SweepTimeout
  <2> QED
    BY <1>1, <1>2, <2>1, <2>2, <2>3 DEF Works, RecInv, SeTypes
<1>5. PICK calls \in Seq(EntryT) :
           /\ Moves(todo, todo', t, calls, <<>>) /\ todo[t] = <<>>
           /\ \A i \in DOMAIN calls : Shape(calls[i])
           /\ \A i \in DOMAIN calls :
                calls[i].at = "store" /\ calls[i].e = e /\ calls[i].copy.status \in {"completed", "failed"}
                /\ (calls[i].copy.told => rec[e].told)
  BY <1>1, ReportCalls, ZenonT(60)
<1>6. Changes(t)
  BY <1>1, <1>2, <1>5, StillChanges
<1>7. CoreStep(t, calls, <<>>, {}, {})
  BY <1>3, <1>5, <1>6, PlainCore
<1>8. Core(t)
  BY <1>5, <1>7 DEF Core, Fine, ToldOk
<1>9. SeInv'
  BY <1>1, ReportTypes
<1> QED
  BY <1>1, <1>2, <1>4, <1>8, <1>9, SameRecords, CoreToInv

LEMMA DeleteInv ==
  ASSUME ExecInv, NEW t \in Thread, Delete(t, Root)
  PROVE  ExecInv'
<1>1. SeTypes /\ ShapeInv /\ CoreInv /\ RecInv /\ ToldInv /\ Root \in Exec
  BY Tree DEF ExecInv, SeInv
<1>2. rec' = rec /\ handed' = handed /\ method' = method /\ work' = work
  BY DEF Delete
<1>3. ~rec[Root].told
  BY <1>1 DEF SeTypes
<1>4. PICK calls \in Seq(EntryT) :
           /\ Moves(todo, todo', t, calls, <<>>) /\ todo[t] = <<>>
           /\ \/ \A i \in DOMAIN calls : calls[i].at \in {"deleteTree", "remove"} /\ ~calls[i].copy.told
              \/ Cancels(Root, calls) /\ \A i \in DOMAIN calls : calls[i].copy.told => rec[Root].told
  BY <1>1, DeleteCalls
<1>5. Changes(t)
  BY <1>1, <1>2, <1>4, StillChanges
<1>6. \A i \in DOMAIN calls : Neutral(calls[i]) /\ ToldOk(calls[i].copy)
  <2>1. CASE \A i \in DOMAIN calls : calls[i].at \in {"deleteTree", "remove"} /\ ~calls[i].copy.told
    BY <2>1 DEF Neutral, ToldOk
  <2>2. CASE Cancels(Root, calls) /\ \A i \in DOMAIN calls : calls[i].copy.told => rec[Root].told
    BY <1>1, <1>3, <2>2, CancelsNeutral DEF ToldOk
  <2> QED
    BY <1>4, <2>1, <2>2
<1>7. Core(t)
  BY <1>4, <1>5, <1>6, NeutralCore
<1>8. SeInv'
  BY <1>1, DeleteTypes
<1>9. Works
  BY <1>1, <1>2, SameWorks
<1> QED
  BY <1>1, <1>2, <1>7, <1>8, <1>9, SameRecords, CoreToInv

LEMMA ExpiredInv ==
  ASSUME ExecInv, NEW e \in Exec, SweepExpired(e)
  PROVE  ExecInv'
<1>1. SeTypes /\ ShapeInv /\ CoreInv /\ RecInv /\ ToldInv /\ Loop \in Thread
  BY Tree DEF ExecInv, SeInv
<1>2. rec' = [rec EXCEPT ![e] = Blank] /\ todo' = todo /\ todo[Loop] = <<>> /\ handed' = handed /\ method' = method /\ work' = work
  BY DEF SweepExpired, Gone, Idle
<1>3. rec'[e] = Blank /\ \A d \in Exec : d # e => rec'[d] = rec[d]
  BY <1>1, <1>2, WriteAt DEF SeTypes
<1>4. RecStep
  BY <1>3, BlankFacts DEF RecStep, Live
<1>5. \A n \in Exec : Kept(n)' => Kept(n)
  BY <1>2, <1>3, BlankFacts DEF Kept, Ran
<1>6. Changes(Loop)
  BY <1>2, <1>4, <1>5 DEF Changes, Top
<1>7. Moves(todo, todo', Loop, <<>>, <<>>)
  <2>1. todo' = [todo EXCEPT ![Loop] = <<>>]
    BY <1>1, <1>2 DEF SeTypes, Lists
  <2> QED
    BY <1>1, <1>2, <2>1, FreshMoves, EmptyFacts DEF Idle
<1>8. Core(Loop)
  BY <1>1, <1>6, <1>7, EmptyFacts, NeutralCore
<1>9. \A d \in Exec : RecordOk(rec'[d])
  BY <1>1, <1>3, BlankFacts, RecordOks DEF RecInv, ToldInv, RecordOk, ToldOk
<1>10. SeInv'
  BY <1>1, ExpiredTypes
<1>11. Works
  BY <1>1, <1>2, SameWorks
<1> QED
  BY <1>1, <1>8, <1>9, <1>10, <1>11, CoreToInv

\* A restart: what was stored stays, the rest is gone
LEMMA CrashInv ==
  ASSUME ExecInv, Crash
  PROVE  ExecInv'
<1>1. SeTypes /\ ShapeInv /\ CoreInv /\ RecInv /\ ToldInv
  BY DEF ExecInv, SeInv
<1>2. rec' = rec /\ handed' = handed /\ method' = method /\ work' = work /\ todo' = [t \in Thread |-> <<>>]
  BY DEF Crash
<1>3. \A t \in Thread : \A i \in DOMAIN todo'[t] : FALSE
  BY <1>2, EmptyFacts
<1>4. \A T : NoneIn(todo', T) /\ OnceIn(todo', T)
  BY <1>3 DEF NoneIn, OnceIn
<1>5. \A n \in Exec : (Kept(n)' <=> Kept(n)) /\ (Started(n)' <=> Kept(n)) /\ (Reached(n)' <=> Kept(n))
  BY <1>2, <1>4 DEF Kept, Started, Reached
<1>6. \A n \in Exec : (Reached(n)' => Reached(n)) /\ (Active(n)' => Active(n))
  BY <1>2, <1>5 DEF Started, Reached, Active, Live
<1>7. \A n \in Exec : ~Untouched(n)' => ~Untouched(n)
  BY <1>6, Unders DEF Untouched
<1>8. Seqs' = Seqs
  BY <1>2 DEF Seqs
<1>9. OnceInv' /\ StartInv'
  BY <1>4 DEF OnceInv, StartInv
<1>10. AboveInv'
  <2> SUFFICES ASSUME NEW p \in Exec, rec'[p].status = "pending", NEW d \in Below(p) PROVE ~Kept(d)'
    BY <1>3 DEF AboveInv
  <2>1. ~Kept(d) /\ d \in Exec
    BY <1>1, <1>2, Unders DEF CoreInv, AboveInv, Below
  <2> QED
    BY <1>5, <2>1
<1>11. PastInv'
  BY <1>3 DEF PastInv
<1>12. SeqInv'
  <2> SUFFICES ASSUME NEW p \in Seqs, NEW k \in KidsOf(p), NEW l \in KidsOf(p), Active(k)', Active(l)' PROVE k = l
    BY <1>4, <1>8 DEF SeqInv
  <2>1. Active(k) /\ Active(l)
    BY <1>6, Tree DEF Seqs
  <2> QED
    BY <1>1, <2>1 DEF CoreInv, SeqInv
<1>13. LookInv' /\ ReplaceInv'
  BY <1>4 DEF LookInv, ReplaceInv
<1>14. BeforeInv'
  <2> SUFFICES ASSUME NEW p \in Seqs, NEW i \in DOMAIN Kids[p], NEW j \in DOMAIN Kids[p], i < j, ~Untouched(Kids[p][j])'
               PROVE  rec'[Kids[p][i]].status \in {"completed", "absent"}
    BY <1>8 DEF BeforeInv
  <2>1. ~Untouched(Kids[p][j])
    BY <1>7, Tree DEF Seqs
  <2> QED
    BY <1>1, <1>2, <2>1 DEF CoreInv, BeforeInv
<1>15. RecInv'
  BY <1>1, <1>2, <1>3 DEF RecInv
<1>16. ToldInv'
  BY <1>1, <1>2, <1>3 DEF ToldInv, ToldOk
<1>17. SeInv'
  BY <1>1, CrashTypes
<1> QED
  BY <1>9, <1>10, <1>11, <1>12, <1>13, <1>14, <1>15, <1>16, <1>17 DEF ExecInv, CoreInv

LEMMA SameInv ==
  ASSUME ExecInv, UNCHANGED vars
  PROVE  ExecInv'
<1>1. SeTypes /\ ShapeInv /\ CoreInv /\ RecInv /\ ToldInv
  BY DEF ExecInv, SeInv
<1>2. method' = method /\ rec' = rec /\ todo' = todo /\ handed' = handed /\ work' = work
  BY DEF vars
<1>3. \A n : Kept(n)' <=> Kept(n)
  BY <1>2 DEF Kept
<1>4. \A n : (Started(n)' <=> Started(n)) /\ (Reached(n)' <=> Reached(n)) /\ (Active(n)' <=> Active(n))
  BY <1>2, <1>3 DEF Started, Reached, Active, Live
<1>5. \A n : Untouched(n)' <=> Untouched(n)
  BY <1>4 DEF Untouched
<1>6. Seqs' = Seqs
  BY <1>2 DEF Seqs
<1>7. OnceInv'
  BY <1>1, <1>2 DEF CoreInv, OnceInv
<1>8. StartInv'
  BY <1>1, <1>2, <1>4 DEF CoreInv, StartInv
<1>9. AboveInv'
  BY <1>1, <1>2, <1>3 DEF CoreInv, AboveInv
<1>10. PastInv'
  BY <1>1, <1>2 DEF CoreInv, PastInv
<1>11. SeqInv'
  BY <1>1, <1>2, <1>4, <1>6 DEF CoreInv, SeqInv
<1>12. \A x : LookOk(x) => LookOk(x)'
  BY <1>2, <1>5, <1>6 DEF LookOk, LookSees
<1>13. LookInv'
  BY <1>1, <1>2, <1>12 DEF CoreInv, LookInv
<1>14. ReplaceInv'
  BY <1>1, <1>2, <1>5 DEF CoreInv, ReplaceInv
<1>15. BeforeInv'
  BY <1>1, <1>2, <1>5, <1>6 DEF CoreInv, BeforeInv
<1>16. RecInv'
  BY <1>1, <1>2 DEF RecInv
<1>17. ToldInv'
  BY <1>1, <1>2 DEF ToldInv, ToldOk
<1>18. SeInv'
  BY <1>1, SameKeepsTypes
<1> QED
  BY <1>7, <1>8, <1>9, <1>10, <1>11, <1>13, <1>14, <1>15, <1>16, <1>17, <1>18 DEF ExecInv, CoreInv

LEMMA NextInv ==
  ASSUME Target \subseteq {Root}, ExecInv, [Next]_vars
  PROVE  ExecInv'
<1>1. CASE \E t \in Thread : Step(t) BY <1>1, StepInv
<1>2. CASE \E t \in Thread, e \in Leaves : Report(t, e) BY <1>2, ReportInv
<1>3. CASE \E t \in Thread, e \in Target : Delete(t, e) BY <1>3, DeleteInv
<1>4. CASE \E e \in Leaves : SweepTimeout(e) BY <1>4, ReportInv, Tree
<1>5. CASE \E e \in Exec : SweepExpired(e) BY <1>5, ExpiredInv
<1>6. CASE Crash BY <1>6, CrashInv
<1>7. CASE UNCHANGED vars BY <1>7, SameInv
<1> QED
  BY <1>1, <1>2, <1>3, <1>4, <1>5, <1>6, <1>7 DEF Next

\* However many children end at once, and on however many threads that is found (storeMutex,
\* seCombinedChildEnded), no execution is given to its executor twice
THEOREM HandedOverOnce ==
  ASSUME Target \subseteq {Root}
  PROVE  Spec => []HandedOnce
<1>1. ExecInv => HandedOnce
  BY DEF ExecInv, RecInv, HandedOnce
<1> QED
  BY <1>1, InitInv, NextInv, PTL DEF Spec

\* In a sequence, of any length and with anything below it, nothing is given to an executor before
\* all that comes ahead of it has completed
THEOREM SequencesInOrder ==
  ASSUME Target \subseteq {Root}
  PROVE  Spec => []InSequence
<1>1. ExecInv => InSequence
  <2> SUFFICES ASSUME ExecInv, NEW p \in Parents, method[p] = "sequential", NEW i \in DOMAIN Kids[p], NEW j \in DOMAIN Kids[p], i < j,
                      NEW e \in Under[Kids[p][j]], e \in Leaves, handed[e] > 0
               PROVE  rec[Kids[p][i]].status \in {"completed", "absent"}
    BY DEF InSequence
  <2>1. p \in Seqs
    BY DEF Seqs
  <2>2. Reached(e)
    BY DEF Reached, Started, Kept
  <2>3. ~Untouched(Kids[p][j])
    BY <2>2 DEF Untouched
  <2> QED
    BY <2>1, <2>3 DEF ExecInv, CoreInv, BeforeInv
<1> QED
  BY <1>1, InitInv, NextInv, PTL DEF Spec

\* A store looks at the record again; a replacement is of a child that nothing has touched
LEMMA EndedStep ==
  ASSUME Target \subseteq {Root}, ExecInv, Next
  PROVE  \A d \in Exec : Ended(d) => rec'[d].status \in {rec[d].status, "absent"}
<1>1. SeTypes /\ ShapeInv /\ CoreInv /\ rec \in [Exec -> Record]
  BY DEF ExecInv, SeInv, SeTypes
<1>2. CASE rec' = rec
  BY <1>2
<1>3. ASSUME NEW t \in Thread, Step(t)
      PROVE  \A d \in Exec : Ended(d) => rec'[d].status \in {rec[d].status, "absent"}
  <2>1. PICK e, copy : e = Now(t).e /\ copy = Now(t).copy
    OBVIOUS
  <2>2. CASE Store(t) /\ Live(e) /\ rec' = [rec EXCEPT ![e] = copy]
    <3>1. ~Ended(e)
      BY <2>2 DEF Live, Ended, Terminal
    <3> QED
      BY <1>1, <2>2, <3>1
  <2>3. CASE Replace(t) /\ rec[e].status # "absent" /\ rec' = [rec EXCEPT ![e] = copy]
    <3>1. e \in Exec /\ Now(t).at = "replace" /\ Now(t) \in EntryT /\ 1 \in DOMAIN todo[t] /\ Now(t) = todo[t][1] /\ copy.status = "cancelled"
      BY <1>1, <2>1, <2>3, AtFacts DEF Replace, Shape
    <3>2. ~NoneIn(todo, {Now(t)})
      BY <3>1 DEF NoneIn
    <3>3. Untouched(e)
      BY <1>1, <2>1, <3>1, <3>2 DEF CoreInv, ReplaceInv
    <3>4. rec[e].status \notin Ran
      BY <3>1, <3>3, Unders DEF Untouched, Reached, Started, Kept
    <3>5. Ended(e) => rec[e].status = copy.status
      BY <3>1, <3>4 DEF Ended, Terminal, Ran
    <3> QED
      BY <1>1, <2>3, <3>1, <3>5, WriteAt
  <2>4. CASE Remove(t) /\ rec' = [rec EXCEPT ![e] = Blank]
    <3>1. e \in Exec
      BY <1>1, <2>1, <2>4, AtFacts DEF Remove
    <3> QED
      BY <1>1, <2>4, <3>1, WriteAt, BlankFacts
  <2> QED
    BY <1>1, <1>2, <1>3, <2>1, <2>2, <2>3, <2>4, StepWrites
<1>4. ASSUME NEW e \in Exec, SweepExpired(e)
      PROVE  \A d \in Exec : Ended(d) => rec'[d].status \in {rec[d].status, "absent"}
  <2>1. rec' = [rec EXCEPT ![e] = Blank]
    BY <1>4 DEF SweepExpired, Gone
  <2> QED
    BY <1>1, <2>1, WriteAt, BlankFacts
<1>5. ASSUME ~\E t \in Thread : Step(t), ~\E e \in Exec : SweepExpired(e)
      PROVE  rec' = rec
  BY <1>5 DEF Next, Report, Delete, SweepTimeout, Crash
<1> QED
  BY <1>2, <1>3, <1>4, <1>5

\* An execution that ended changes no more, whatever copies read before that are stored back
THEOREM EndsStay ==
  ASSUME Target \subseteq {Root}
  PROVE  Spec => EndedStays
<1>1. ExecInv /\ [Next]_vars => [\A e \in Exec : Ended(e) => rec'[e].status \in {rec[e].status, "absent"}]_vars
  BY EndedStep
<1> QED
  BY <1>1, InitInv, NextInv, PTL DEF Spec, EndedStays

-----------------------------------------------------------------------------
(* The ends of parents *)

\* Entries that will end a child: those of a sequence that went wrong, those of a cancel
Drops(y, k)  == y.at \in {"drop", "replace"} /\ y.e = k
Clears(y, k) == /\ y.at \in {"cancelKid", "cancelCall", "cancelEnd", "store"} /\ y.e = k
                /\ (y.at = "store" => y.copy.status = "cancelled")

\* Before an entry of a list there is one that will end a child
Dropped(s, i, k) == \E j \in DOMAIN s : j < i /\ Drops(s[j], k)
Cleared(s, i, k) == \E j \in DOMAIN s : j < i /\ Clears(s[j], k) /\ \A m \in DOMAIN s : j < m /\ m < i => s[m].at # "cancelEnd"

\* What is known of a parent's children when its end is about to be stored, by what is to be done
\* before that
EndStore(y) ==
  y.at = "store" /\ y.e \in Parents =>
    /\ y.copy.status = "completed" => \A k \in KidsOf(y.e) : rec[k].status \in {"completed", "absent"}
    /\ y.copy.status = "failed" => \E k \in KidsOf(y.e) : rec[k].status \in {"failed", "cancelled", "absent"}
    /\ y.copy.status = "cancelled" => \A k \in KidsOf(y.e) : ~Live(k)
EndDrop(s, i) ==
  s[i].at = "store" /\ s[i].e \in Parents /\ s[i].copy.status = "failed" =>
    \A k \in KidsOf(s[i].e) : Live(k) => Dropped(s, i, k)
EndClear(s, i) ==
  s[i].at = "cancelEnd" /\ s[i].all => \A k \in KidsOf(s[i].e) : Live(k) => Cleared(s, i, k)

EndAt(s, i) == EndStore(s[i]) /\ EndDrop(s, i) /\ EndClear(s, i)
EndInv == \A t \in Thread : \A i \in DOMAIN todo[t] : EndAt(todo[t], i)

\* A step of a thread that keeps all that
EndStep(t, calls, rest) ==
  /\ Moves(todo, todo', t, calls, rest)
  /\ RecStep
  /\ \A i \in DOMAIN calls : EndAt(calls, i)'
  /\ todo[t] # <<>> =>
       /\ \A k \in Exec : Drops(todo[t][1], k) /\ Live(k)' => \E j \in DOMAIN calls : Drops(calls[j], k)
       /\ \A k \in Exec : Clears(todo[t][1], k) /\ Live(k)' =>
            \/ rest = NotAll(Tail(todo[t]))
            \/ \E j \in DOMAIN calls : Clears(calls[j], k) /\ \A m \in DOMAIN calls : j < m => calls[m].at # "cancelEnd"

\* The first end of a cancelTree is the one that is told
LEMMA NotAllFirst ==
  ASSUME NEW s \in Seq(EntryT), NEW i \in DOMAIN s, s[i].at = "cancelEnd",
         \A m \in DOMAIN s : m < i => s[m].at # "cancelEnd"
  PROVE  ~NotAll(s)[i].all
<1> DEFINE ends == {j \in DOMAIN s : s[j].at = "cancelEnd"}
           m == CHOOSE j \in ends : \A h \in ends : j <= h
<1>1. PICK n \in Nat : n = Len(s) /\ DOMAIN s = 1..n
  BY LenProperties
<1>2. i \in ends /\ \A h \in ends : i <= h
  BY <1>1
<1>3. m \in ends /\ \A h \in ends : m <= h
  BY <1>2
<1>4. m = i
  <2> HIDE DEF m
  <2>1. m <= i /\ i <= m /\ m \in Nat /\ i \in Nat
    BY <1>1, <1>2, <1>3
  <2> QED
    BY <2>1
<1>5. NotAll(s) = [s EXCEPT ![m].all = FALSE]
  BY <1>2 DEF NotAll
<1>6. NotAll(s) = [s EXCEPT ![i].all = FALSE]
  BY <1>4, <1>5
<1>7. s[i] \in EntryT /\ s \in [1..n -> EntryT]
  BY <1>1, ElementOfSeq
<1>8. NotAll(s)[i] = [s[i] EXCEPT !.all = FALSE]
  BY <1>6, <1>1
<1>9. [s[i] EXCEPT !.all = FALSE].all = FALSE
  BY <1>7 DEF EntryT
<1> QED
  BY <1>8, <1>9

LEMMA EndKeeps ==
  ASSUME SeTypes, EndInv, NEW t \in Thread, NEW calls, NEW rest, EndStep(t, calls, rest)
  PROVE  EndInv'
<1>1. todo \in Lists /\ Moves(todo, todo', t, calls, rest) /\ RecStep
  BY DEF SeTypes, EndStep
<1>2. \A u \in Thread : todo[u] \in Seq(EntryT) /\ \A i \in DOMAIN todo[u] : todo[u][i] \in EntryT
  BY <1>1 DEF Lists
<1>3. \A k \in Exec : Live(k)' => Live(k)
  BY <1>1 DEF RecStep
<1>4. \A y : y \in EntryT => KidsOf(y.e) \subseteq Exec
  BY Tree DEF EntryT
<1>5. \A y \in EntryT : EndStore(y) => EndStore(y)'
  <2> SUFFICES ASSUME NEW y \in EntryT, EndStore(y), y.at = "store", y.e \in Parents
               PROVE  EndStore(y)'
    BY DEF EndStore
  <2>1. KidsOf(y.e) \subseteq Exec
    BY <1>4
  <2>2. y.copy.status = "completed" => \A k \in KidsOf(y.e) : rec'[k].status \in {"completed", "absent"}
    BY <1>1, <2>1 DEF EndStore, RecStep
  <2>3. y.copy.status = "failed" => \E k \in KidsOf(y.e) : rec'[k].status \in {"failed", "cancelled", "absent"}
    BY <1>1, <2>1 DEF EndStore, RecStep
  <2>4. y.copy.status = "cancelled" => \A k \in KidsOf(y.e) : ~Live(k)'
    BY <1>3, <2>1 DEF EndStore
  <2> QED
    BY <2>2, <2>3, <2>4 DEF EndStore
<1>6. ASSUME NEW s \in Seq(EntryT), NEW i \in DOMAIN s, EndAt(s, i)
      PROVE  EndAt(s, i)'
  <2>1. s[i] \in EntryT
    BY ElementOfSeq
  <2>2. EndStore(s[i])'
    BY <1>5, <1>6, <2>1 DEF EndAt
  <2>3. KidsOf(s[i].e) \subseteq Exec
    BY <1>4, <2>1
  <2>4. EndDrop(s, i)'
    BY <1>3, <1>6, <2>3 DEF EndAt, EndDrop
  <2>5. EndClear(s, i)'
    BY <1>3, <1>6, <2>3 DEF EndAt, EndClear
  <2> QED
    BY <2>2, <2>4, <2>5 DEF EndAt
<1> SUFFICES ASSUME NEW u \in Thread, NEW i \in DOMAIN todo'[u] PROVE EndAt(todo[u], i)'
  BY DEF EndInv
<1>7. CASE u # t
  <2>1. todo'[u] = todo[u]
    BY <1>1, <1>7 DEF Moves, Lists
  <2>2. PICK s \in Seq(EntryT) : s = todo[u]
    BY <1>2
  <2>3. EndAt(s, i)
    BY <2>1, <2>2 DEF EndInv
  <2>4. EndAt(s, i)'
    BY <1>6, <2>1, <2>2, <2>3
  <2> QED
    BY <2>1, <2>2, <2>4
<1>8. CASE u = t
  <2>1. PICK n \in Nat : n = Len(calls) /\ DOMAIN calls = 1..n
    BY <1>1, MovesAt
  <2>2. PICK old \in Seq(EntryT) : old = todo[t]
    BY <1>2
  <2>3. PICK new : new = todo'[t]
    OBVIOUS
  <2>4. /\ \A j \in DOMAIN calls : j \in DOMAIN new /\ new[j] = calls[j] /\ calls[j] \in EntryT
        /\ \A j \in DOMAIN new : j \in Nat /\ j > 0 /\ (j <= n => j \in DOMAIN calls /\ new[j] = calls[j])
        /\ \A j \in DOMAIN new : j > n => old # <<>> /\ j - n + 1 \in DOMAIN old /\ j - n + 1 > 1 /\ LikeEntry(new[j], old[j - n + 1])
        /\ \A j \in DOMAIN old : j \in Nat /\ j > 0 /\ (j > 1 => j - 1 + n \in DOMAIN new /\ LikeEntry(new[j - 1 + n], old[j]))
    BY <1>1, <2>1, <2>2, <2>3, MovesAt
  <2>5. \A y : \A z \in EntryT : LikeEntry(y, z) => y.at = z.at /\ y.e = z.e /\ y.copy = z.copy /\ (y.all => z.all)
    BY DEF LikeEntry, EntryT
  <2>6. \A j \in DOMAIN old : old[j] \in EntryT
    BY <1>2, <2>2
  <2> SUFFICES EndAt(new, i)'
    BY <1>8, <2>3
  <2>7. i \in DOMAIN new /\ i \in Nat
    BY <1>8, <2>3, <2>4
  <2>8. CASE i <= n
    <3>1. i \in DOMAIN calls /\ new[i] = calls[i]
      BY <2>4, <2>7, <2>8
    <3>2. EndAt(calls, i)'
      BY <3>1 DEF EndStep
    <3>3. \A j \in DOMAIN calls : j \in DOMAIN new /\ new[j] = calls[j]
      BY <2>4
    <3>4. \A j \in DOMAIN new : j < i => j \in DOMAIN calls
      BY <2>1, <2>4, <2>7, <2>8
    <3>5. EndStore(new[i])'
      BY <3>1, <3>2 DEF EndAt
    <3>6. EndDrop(new, i)'
      BY <3>1, <3>2, <3>3 DEF EndAt, EndDrop, Dropped
    <3>7. EndClear(new, i)'
      BY <3>1, <3>2, <3>3, <3>4 DEF EndAt, EndClear, Cleared
    <3> QED
      BY <3>5, <3>6, <3>7 DEF EndAt
  <2>9. CASE i > n
    <3> DEFINE h == i - n + 1
    <3>1. old # <<>> /\ h \in DOMAIN old /\ h > 1 /\ h \in Nat /\ h - 1 + n = i
      BY <2>1, <2>4, <2>7, <2>9
    <3>2. LikeEntry(new[i], old[h]) /\ old[h] \in EntryT
      BY <2>4, <2>6, <2>7, <2>9, <3>1
    <3>3. new[i].at = old[h].at /\ new[i].e = old[h].e /\ new[i].copy = old[h].copy /\ (new[i].all => old[h].all)
      BY <2>5, <3>2
    <3> HIDE DEF h
    <3>4. EndAt(old, h)
      BY <2>2, <3>1 DEF EndInv
    <3>5. EndStore(new[i])'
      <4>1. EndStore(old[h])'
        BY <1>5, <3>2, <3>4 DEF EndAt
      <4> QED
        BY <3>3, <4>1 DEF EndStore
    <3>6. KidsOf(old[h].e) \subseteq Exec
      BY <1>4, <3>2
    <3>7. \A j \in DOMAIN old : j > 1 => j - 1 + n \in DOMAIN new /\ new[j - 1 + n].at = old[j].at /\ new[j - 1 + n].e = old[j].e
                                      /\ new[j - 1 + n].copy = old[j].copy
      BY <2>4, <2>5, <2>6
    <3>8. 1 \in DOMAIN old => todo[t] # <<>> /\ old[1] = todo[t][1]
      BY <2>2, <3>1
    <3>9. EndDrop(new, i)'
      <4> SUFFICES ASSUME new[i].at = "store", new[i].e \in Parents, new[i].copy.status = "failed",
                          NEW k \in KidsOf(new[i].e), Live(k)'
                   PROVE  Dropped(new, i, k)
        BY DEF EndDrop, Dropped, Drops
      <4>1. k \in Exec /\ Live(k) /\ Dropped(old, h, k)
        BY <1>3, <3>3, <3>4, <3>6 DEF EndAt, EndDrop
      <4>2. PICK j \in DOMAIN old : j < h /\ Drops(old[j], k)
        BY <4>1 DEF Dropped
      <4>3. CASE j > 1
        <5>1. j - 1 + n < i /\ j - 1 + n \in DOMAIN new /\ Drops(new[j - 1 + n], k)
          BY <2>4, <3>1, <3>7, <4>2, <4>3 DEF Drops
        <5> QED
          BY <5>1 DEF Dropped
      <4>4. CASE ~(j > 1)
        <5>1. j = 1
          BY <2>4, <4>4
        <5>2. PICK c \in DOMAIN calls : Drops(calls[c], k)
          BY <3>1, <3>8, <4>1, <4>2, <5>1 DEF EndStep
        <5>3. c \in DOMAIN new /\ Drops(new[c], k) /\ c < i
          BY <2>1, <2>4, <2>7, <2>9, <5>2
        <5> QED
          BY <5>3 DEF Dropped
      <4> QED
        BY <4>3, <4>4
    <3>10. EndClear(new, i)'
      <4> SUFFICES ASSUME new[i].at = "cancelEnd", new[i].all, NEW k \in KidsOf(new[i].e), Live(k)'
                   PROVE  Cleared(new, i, k)
        BY DEF EndClear, Cleared, Clears
      <4>1. k \in Exec /\ Live(k) /\ Cleared(old, h, k) /\ old[h].at = "cancelEnd"
        BY <1>3, <3>3, <3>4, <3>6 DEF EndAt, EndClear
      <4>2. PICK j \in DOMAIN old : j < h /\ Clears(old[j], k) /\ \A m \in DOMAIN old : j < m /\ m < h => old[m].at # "cancelEnd"
        BY <4>1 DEF Cleared
      <4>3. ASSUME NEW m \in DOMAIN new, m > n, m < i
            PROVE  m - n + 1 \in DOMAIN old /\ m - n + 1 > 1 /\ m - n + 1 < h /\ new[m].at = old[m - n + 1].at
        <5>1. m \in Nat /\ m - n + 1 \in DOMAIN old /\ m - n + 1 > 1 /\ LikeEntry(new[m], old[m - n + 1])
          BY <2>4, <4>3
        <5>2. new[m].at = old[m - n + 1].at
          BY <2>5, <2>6, <5>1
        <5> QED
          BY <3>1, <4>3, <5>1, <5>2
      <4>4. CASE j > 1
        <5>1. j - 1 + n < i /\ j - 1 + n \in DOMAIN new /\ Clears(new[j - 1 + n], k)
          BY <2>4, <3>1, <3>7, <4>2, <4>4 DEF Clears
        <5>2. ASSUME NEW m \in DOMAIN new, j - 1 + n < m, m < i PROVE new[m].at # "cancelEnd"
          <6>1. m > n /\ j < m - n + 1
            BY <2>4, <4>4, <5>2
          <6> QED
            BY <4>2, <4>3, <5>2, <6>1
        <5> QED
          BY <5>1, <5>2 DEF Cleared
      <4>5. CASE ~(j > 1)
        <5>1. j = 1
          BY <2>4, <4>5
        <5>2. \/ rest = NotAll(Tail(todo[t]))
              \/ \E c \in DOMAIN calls : Clears(calls[c], k) /\ \A m \in DOMAIN calls : c < m => calls[m].at # "cancelEnd"
          BY <3>1, <3>8, <4>1, <4>2, <5>1 DEF EndStep
        <5>3. CASE rest = NotAll(Tail(todo[t]))
          <6> DEFINE b == Tail(old)
          <6>1. PICK l \in Nat : l = Len(old) /\ DOMAIN old = 1..l
            BY LenProperties
          <6>2. b \in Seq(EntryT) /\ Len(b) = l - 1 /\ DOMAIN b = 1..(l - 1) /\ \A m \in 1..(l - 1) : b[m] = old[m + 1]
            <7>1. l > 0
              BY <3>1, <6>1
            <7>2. b \in Seq(EntryT) /\ Len(b) = l - 1 /\ \A m \in 1..(l - 1) : b[m] = old[m + 1]
              BY <3>1, <6>1, HeadTailProperties
            <7> HIDE DEF b
            <7> QED
              BY <7>1, <7>2, LenProperties
          <6> HIDE DEF b
          <6>3. h - 1 \in DOMAIN b /\ b[h - 1] = old[h] /\ h - 1 \in Nat
            BY <3>1, <6>1, <6>2
          <6>4. \A m \in DOMAIN b : m < h - 1 => b[m].at # "cancelEnd"
            <7> SUFFICES ASSUME NEW m \in DOMAIN b, m < h - 1 PROVE b[m].at # "cancelEnd"
              OBVIOUS
            <7>1. m + 1 \in DOMAIN old /\ 1 < m + 1 /\ m + 1 < h /\ b[m] = old[m + 1]
              BY <3>1, <6>1, <6>2
            <7> QED
              BY <4>2, <5>1, <7>1
          <6>5. ~NotAll(b)[h - 1].all
            BY <4>1, <6>2, <6>3, <6>4, NotAllFirst
          <6>6. rest = NotAll(b)
            BY <2>2, <5>3 DEF b
          <6>7. new[i] = rest[h - 1]
            <7>1. new = calls \o rest /\ calls \in Seq(EntryT) /\ rest \in Seq(EntryT)
              BY <1>1, <2>3 DEF Moves, Lists
            <7>2. PICK r \in Nat : r = Len(rest) /\ DOMAIN rest = 1..r
              BY <7>1, LenProperties
            <7>3. Len(new) = n + r /\ \A m \in 1..(n + r) : new[m] = IF m <= n THEN calls[m] ELSE rest[m - n]
              BY <2>1, <7>1, <7>2, ConcatProperties
            <7>4. new \in Seq(EntryT)
              BY <7>1, ConcatProperties
            <7>5. DOMAIN new = 1..(n + r)
              BY <2>1, <7>2, <7>3, <7>4, LenProperties
            <7>6. i - n = h - 1
              BY <2>1, <2>7, <3>1
            <7> QED
              BY <2>7, <2>9, <7>3, <7>5, <7>6
          <6> QED
            BY <6>5, <6>6, <6>7
        <5>4. ASSUME NEW c \in DOMAIN calls, Clears(calls[c], k), \A m \in DOMAIN calls : c < m => calls[m].at # "cancelEnd"
              PROVE  Cleared(new, i, k)
          <6>1. c \in DOMAIN new /\ Clears(new[c], k) /\ c < i
            BY <2>1, <2>4, <2>7, <2>9, <5>4
          <6>2. ASSUME NEW m \in DOMAIN new, c < m, m < i PROVE new[m].at # "cancelEnd"
            <7>1. CASE m <= n
              BY <2>4, <5>4, <6>2, <7>1
            <7>2. CASE ~(m <= n)
              <8>1. m > n
                BY <2>4, <7>2
              <8>2. m - n + 1 \in DOMAIN old /\ m - n + 1 > 1 /\ m - n + 1 < h /\ new[m].at = old[m - n + 1].at
                BY <4>3, <6>2, <8>1
              <8> QED
                BY <4>2, <5>1, <8>2
            <7> QED
              BY <7>1, <7>2
          <6> QED
            BY <6>1, <6>2 DEF Cleared
        <5> QED
          BY <5>2, <5>3, <5>4
      <4> QED
        BY <4>4, <4>5
    <3> QED
      BY <3>5, <3>9, <3>10 DEF EndAt
  <2> QED
    BY <2>1, <2>7, <2>8, <2>9
<1> QED
  BY <1>7, <1>8

Ends(t) == \E calls, rest : EndStep(t, calls, rest)

\* Entries that end no parent
Endless(y) == y.at # "cancelEnd" /\ (y.at = "store" => y.e \notin Parents \/ y.copy.status = "executing")

LEMMA PlainEnds ==
  ASSUME NEW calls, NEW i \in DOMAIN calls, Endless(calls[i])
  PROVE  EndAt(calls, i)'
BY DEF Endless, EndAt, EndStore, EndDrop, EndClear

\* A step of a call that ends no child
LEMMA PlainEndStep ==
  ASSUME NEW t \in Thread, NEW calls, NEW rest, Moves(todo, todo', t, calls, rest), RecStep,
         \A i \in DOMAIN calls : EndAt(calls, i)',
         todo[t] # <<>> => /\ todo[t][1].at \notin {"drop", "replace", "cancelKid", "cancelCall", "cancelEnd"}
                           /\ todo[t][1].at = "store" => \A k : k = todo[t][1].e /\ todo[t][1].copy.status = "cancelled" => rec'[k].status \notin {"pending", "executing"}
  PROVE  Ends(t)
<1>1. \A k : Live(k)' <=> rec'[k].status \in {"pending", "executing"}
  BY DEF Live
<1>2. EndStep(t, calls, rest)
  BY <1>1 DEF EndStep, Drops, Clears
<1> QED
  BY <1>2 DEF Ends

LEMMA LeafEnds ==
  ASSUME NEW e \in Leaves
  PROVE  e \notin Parents
BY Tree

LEMMA StartNodeEnds ==
  ASSUME SeTypes, ShapeInv, NEW t \in Thread, StartNode(t), RecStep
  PROVE  Ends(t)
<1> DEFINE e == Now(t).e
           rest == Tail(todo[t])
<1>1. PICK calls \in Seq(EntryT) :
           /\ Now(t) \in StartOf(e)
           /\ Moves(todo, todo', t, calls, rest)
           /\ calls = <<>> \/ StartsLeaf(e, calls) \/ StartsParent(e, calls)
  BY StartNodeCalls
<1>2. todo[t][1].at = "start"
  BY AtFacts DEF StartNode
<1> HIDE DEF e, rest
<1>3. ASSUME NEW i \in DOMAIN calls PROVE Endless(calls[i])
  <2>1. CASE calls = <<>>
    BY <2>1, EmptyFacts
  <2>2. CASE StartsLeaf(e, calls)
    <3>1. calls[i].e = e /\ e \in Leaves /\ (calls[i].at = "hand" \/ calls[i].at = "store")
      BY <2>2 DEF StartsLeaf, BeginOf
    <3> QED
      BY <3>1, LeafEnds DEF Endless
  <2>3. CASE StartsParent(e, calls)
    <3>1. CASE i = 1
      BY <2>3, <3>1 DEF StartsParent, BeginOf, Endless
    <3>2. CASE i # 1
      <4>1. PICK k \in KidsOf(e) : calls[i] = Call("start", k)
        BY <2>3, <3>2 DEF StartsParent
      <4> QED
        BY <4>1, CallFields DEF Endless
    <3> QED
      BY <3>1, <3>2
  <2> QED
    BY <1>1, <2>1, <2>2, <2>3
<1>4. \A i \in DOMAIN calls : EndAt(calls, i)'
  BY <1>3, PlainEnds
<1> QED
  BY <1>1, <1>2, <1>4, PlainEndStep

LEMMA HandEnds ==
  ASSUME SeTypes, ShapeInv, NEW t \in Thread, HandOver(t) \/ HandOverFails(t) \/ Answer(t), RecStep
  PROVE  Ends(t)
<1>1. CASE HandOver(t)
  <2>1. PICK calls \in Seq(EntryT) :
           /\ Moves(todo, todo', t, calls, Tail(todo[t]))
           /\ calls = <<>> \/ calls = <<Entry("answer", Now(t).e, Now(t).copy)>>
    BY <1>1, HandOverCalls
  <2>2. todo[t][1].at = "hand"
    BY <1>1, AtFacts DEF HandOver
  <2>3. \A i \in DOMAIN calls : Endless(calls[i])
    <3>1. DOMAIN <<Entry("answer", Now(t).e, Now(t).copy)>> = {1}
      OBVIOUS
    <3>2. Endless(Entry("answer", Now(t).e, Now(t).copy))
      BY EntryFields DEF Endless
    <3> QED
      BY <2>1, <3>1, <3>2, EmptyFacts
  <2>4. \A i \in DOMAIN calls : EndAt(calls, i)'
    BY <2>3, PlainEnds
  <2> QED
    BY <2>1, <2>2, <2>4, PlainEndStep
<1>2. CASE HandOverFails(t) \/ Answer(t)
  <2>1. PICK x \in EntryT :
           /\ Now(t).at \in {"hand", "answer"} /\ Now(t).e \in Leaves
           /\ Moves(todo, todo', t, <<x>>, Tail(todo[t]))
           /\ x.at = "store" /\ x.e = Now(t).e
    BY <1>2, EndCalls
  <2>2. todo[t][1].at \in {"hand", "answer"}
    BY <1>2, AtFacts DEF HandOverFails, Answer
  <2> DEFINE calls == <<x>>
  <2>3. DOMAIN calls = {1} /\ calls[1] = x
    BY EmptyFacts
  <2>4. Moves(todo, todo', t, calls, Tail(todo[t]))
    BY <2>1
  <2>5. Endless(x)
    BY <2>1, LeafEnds DEF Endless
  <2> HIDE DEF calls
  <2>6. \A i \in DOMAIN calls : EndAt(calls, i)'
    BY <2>3, <2>5, PlainEnds
  <2> QED
    BY <2>2, <2>4, <2>6, PlainEndStep
<1> QED
  BY <1>1, <1>2

LEMMA StoreEnds ==
  ASSUME SeTypes, ShapeInv, NEW t \in Thread, Store(t), RecStep
  PROVE  Ends(t)
<1>1. PICK calls \in Seq(EntryT) : \E rest :
           /\ Now(t).at = "store" /\ Now(t).e \in Exec /\ Now(t) \in EntryT
           /\ Moves(todo, todo', t, calls, rest)
           /\ calls = <<>> \/ \E p \in Parents : calls = <<Call("childEnded", p)>>
  BY StoreCalls
<1>2. PICK rest : Moves(todo, todo', t, calls, rest)
  BY <1>1
<1>3. \A i \in DOMAIN calls : Endless(calls[i])
  <2>1. CASE calls = <<>>
    BY <2>1, EmptyFacts
  <2>2. ASSUME NEW p \in Parents, calls = <<Call("childEnded", p)>> PROVE \A i \in DOMAIN calls : Endless(calls[i])
    <3>1. DOMAIN calls = {1} /\ calls[1] = Call("childEnded", p)
      BY <2>2
    <3> QED
      BY <3>1, CallFields DEF Endless
  <2> QED
    BY <1>1, <2>1, <2>2
<1>4. \A i \in DOMAIN calls : EndAt(calls, i)'
  BY <1>3, PlainEnds
<1>5. PICK e, copy : e = Now(t).e /\ copy = Now(t).copy /\ e \in Exec /\ todo[t][1] = Now(t)
  BY <1>1, AtFacts DEF Store
<1>6. copy.status = "cancelled" => rec'[e].status \notin {"pending", "executing"}
  <2>1. CASE Live(e)
    <3>1. rec' = [rec EXCEPT ![e] = copy] /\ rec \in [Exec -> Record]
      BY <1>5, <2>1 DEF Store, SeTypes
    <3> QED
      BY <1>5, <3>1, WriteAt
  <2>2. CASE ~Live(e)
    <3>1. rec' = rec
      BY <1>5, <2>2 DEF Store
    <3> QED
      BY <2>2, <3>1 DEF Live
  <2> QED
    BY <2>1, <2>2
<1>7. \A k : k = todo[t][1].e /\ todo[t][1].copy.status = "cancelled" => rec'[k].status \notin {"pending", "executing"}
  BY <1>5, <1>6
<1>8. todo[t][1].at = "store"
  BY <1>1, <1>5
<1> QED
  BY <1>2, <1>4, <1>7, <1>8, PlainEndStep

LEMMA ChildEndedEnds ==
  ASSUME SeTypes, ShapeInv, NEW t \in Thread, ChildEnded(t), RecStep
  PROVE  Ends(t)
<1> DEFINE x == Entry("look", Now(t).e, rec[Now(t).e])
<1>1. PICK calls \in Seq(EntryT) :
           /\ Moves(todo, todo', t, calls, Tail(todo[t]))
           /\ calls = <<>> \/ calls = <<x>>
  BY ChildEndedCalls
<1>2. todo[t][1].at = "childEnded"
  BY AtFacts DEF ChildEnded
<1>3. Endless(x)
  BY EntryFields DEF Endless
<1> HIDE DEF x
<1>4. \A i \in DOMAIN calls : Endless(calls[i])
  <2>1. DOMAIN <<x>> = {1} /\ <<x>>[1] = x
    OBVIOUS
  <2> QED
    BY <1>1, <1>3, <2>1, EmptyFacts
<1>5. \A i \in DOMAIN calls : EndAt(calls, i)'
  BY <1>4, PlainEnds
<1> QED
  BY <1>1, <1>2, <1>5, PlainEndStep

LEMMA LookEnds ==
  ASSUME SeTypes, ShapeInv, CoreInv, NEW t \in Thread, Look(t), RecStep
  PROVE  Ends(t)
<1>1. PICK calls \in Seq(EntryT), saw \in Seq(Status) :
           /\ Now(t).at = "look" /\ Now(t).e \in Parents /\ Now(t) \in PastOf(Now(t).e)
           /\ Moves(todo, todo', t, calls, Tail(todo[t])) /\ \A i \in DOMAIN calls : Shape(calls[i])
           /\ \A i \in DOMAIN saw : /\ i \in DOMAIN Kids[Now(t).e]
                                    /\ \/ i \in DOMAIN Now(t).saw /\ saw[i] = Now(t).saw[i]
                                       \/ saw[i] = rec[Kids[Now(t).e][i]].status
           /\ Looks(Now(t).e, saw, Now(t).copy, calls)
  BY LookCalls
<1>2. PICK p, copy : p = Now(t).e /\ copy = Now(t).copy
  OBVIOUS
<1>3. \A j \in DOMAIN saw : Sees(saw[j], p, Kids[p][j])
  BY <1>1, <1>2, LookSaw
<1>4. p \in Exec /\ p \in Parents /\ todo[t][1].at = "look" /\ rec' = rec /\ KidsOf(p) \subseteq Exec
  BY <1>1, <1>2, AtFacts, Tree DEF Look
<1>5. Looks(p, saw, copy, calls)
  BY <1>1, <1>2
<1>6. \A k \in KidsOf(p) : \E j \in DOMAIN Kids[p] : k = Kids[p][j]
  BY <1>4, Tree
<1>7. \A j \in DOMAIN Kids[p] : Kids[p][j] \in KidsOf(p)
  BY <1>4, Tree
<1> SUFFICES \A i \in DOMAIN calls : EndAt(calls, i)'
  BY <1>1, <1>4, PlainEndStep
<1>8. CASE calls = <<>>
  BY <1>8, EmptyFacts
<1>9. ASSUME NEW x \in EntryT, calls = <<x>>, x.at = "look"
      PROVE  \A i \in DOMAIN calls : EndAt(calls, i)'
  <2>1. DOMAIN calls = {1} /\ calls[1] = x
    BY <1>9, EmptyFacts
  <2> QED
    BY <1>9, <2>1, PlainEnds DEF Endless
<1>10. ASSUME DOMAIN saw = DOMAIN Kids[p], NEW x \in EntryT, calls = <<x>>, x.at = "store", x.e = p, x.copy.status \in {"completed", "failed"},
              x.copy.status = "completed" => \A i \in DOMAIN saw : saw[i] = "completed",
              x.copy.status = "failed" => (\E i \in DOMAIN saw : saw[i] \in {"failed", "cancelled"}) /\ \A i \in DOMAIN saw : Terminal(saw[i])
       PROVE  \A i \in DOMAIN calls : EndAt(calls, i)'
  <2>1. DOMAIN calls = {1} /\ calls[1] = x
    BY <1>10, EmptyFacts
  <2>2. x.copy.status = "completed" => \A k \in KidsOf(p) : rec[k].status \in {"completed", "absent"}
    BY <1>3, <1>6, <1>10 DEF Sees
  <2>3. x.copy.status = "failed" => \E k \in KidsOf(p) : rec[k].status \in {"failed", "cancelled", "absent"}
    BY <1>3, <1>7, <1>10 DEF Sees
  <2>4. x.copy.status = "failed" => \A k \in KidsOf(p) : rec[k].status \notin {"pending", "executing"}
    <3> SUFFICES ASSUME x.copy.status = "failed", NEW k \in KidsOf(p)
                 PROVE  rec[k].status \notin {"pending", "executing"}
      OBVIOUS
    <3>1. PICK j \in DOMAIN Kids[p] : k = Kids[p][j]
      BY <1>6
    <3>2. saw[j] \in {"completed", "failed", "cancelled"} /\ Sees(saw[j], p, k)
      BY <1>3, <1>10, <3>1 DEF Terminal
    <3> QED
      BY <3>2 DEF Sees
  <2>5. EndStore(x)'
    BY <1>4, <1>10, <2>2, <2>3 DEF EndStore
  <2>6. EndDrop(calls, 1)'
    BY <1>4, <1>10, <2>1, <2>4 DEF EndDrop, Live
  <2>7. EndClear(calls, 1)'
    BY <1>10, <2>1 DEF EndClear
  <2> QED
    BY <2>1, <2>5, <2>6, <2>7 DEF EndAt
<1>11. ASSUME DOMAIN saw = DOMAIN Kids[p], \E i \in DOMAIN saw : saw[i] \in {"failed", "cancelled"},
              NEW x \in EntryT, x.at = "store", x.e = p, x.copy.status = "failed", Before("drop", p, x, calls)
       PROVE  \A i \in DOMAIN calls : EndAt(calls, i)'
  <2>1. PICK n \in Nat : n = Len(calls) /\ n \in DOMAIN calls /\ calls[n] = x
    BY <1>11 DEF Before
  <2>2. \A k \in KidsOf(p) : \E i \in DOMAIN calls : i < n /\ calls[i] = Call("drop", k)
    BY <1>11, <2>1 DEF Before
  <2>3. \A k : Call("drop", k).at = "drop" /\ Call("drop", k).e = k
    BY CallFields
  <2>4. ASSUME NEW i \in DOMAIN calls, i # n PROVE EndAt(calls, i)'
    <3>1. PICK k \in KidsOf(p) : calls[i] = Call("drop", k)
      BY <1>11, <2>1, <2>4 DEF Before
    <3>2. Endless(calls[i])
      BY <2>3, <3>1 DEF Endless
    <3> QED
      BY <3>2, PlainEnds
  <2>5. \E k \in KidsOf(p) : rec[k].status \in {"failed", "cancelled", "absent"}
    BY <1>3, <1>7, <1>11 DEF Sees
  <2>6. EndStore(x)'
    BY <1>4, <1>11, <2>5 DEF EndStore
  <2>7. EndDrop(calls, n)'
    BY <1>11, <2>1, <2>2, <2>3 DEF EndDrop, Dropped, Drops
  <2>8. EndClear(calls, n)'
    BY <1>11, <2>1 DEF EndClear
  <2>9. EndAt(calls, n)'
    BY <2>1, <2>6, <2>7, <2>8 DEF EndAt
  <2> QED
    BY <2>4, <2>9
<1>12. ASSUME NEW k, calls = <<Call("start", k)>>
       PROVE  \A i \in DOMAIN calls : EndAt(calls, i)'
  <2>1. DOMAIN calls = {1} /\ calls[1] = Call("start", k)
    BY <1>12
  <2>2. Endless(Call("start", k))
    BY CallFields DEF Endless
  <2> QED
    BY <2>1, <2>2, PlainEnds
<1> QED
  BY <1>5, <1>8, <1>9, <1>10, <1>11, <1>12 DEF Looks

LEMMA DropEnds ==
  ASSUME SeTypes, ShapeInv, CoreInv, NEW t \in Thread, Drop(t), RecStep
  PROVE  Ends(t)
<1>1. PICK calls \in Seq(EntryT) :
           /\ Now(t).at = "drop" /\ Now(t).e \in Exec /\ Now(t) \in EntryT
           /\ \E p \in Seqs : Now(t).e \in KidsOf(p)
           /\ Moves(todo, todo', t, calls, Tail(todo[t]))
           /\ \/ calls = <<>> /\ rec[Now(t).e].status # "pending"
              \/ \E x \in EntryT : calls = <<x>> /\ x.at = "replace" /\ x.e = Now(t).e
  BY DropCalls
<1>2. PICK k \in Exec : k = Now(t).e
  BY <1>1
<1>3. PICK p \in Seqs : k \in KidsOf(p)
  BY <1>1, <1>2
<1>4. todo[t][1] = Now(t) /\ 1 \in DOMAIN todo[t] /\ rec' = rec
  BY AtFacts DEF Drop
<1>5. ~NoneIn(todo, DropOf(p))
  BY <1>1, <1>2, <1>3, <1>4 DEF DropOf, NoneIn
<1>6. rec[k].status # "executing"
  <2>1. ~Active(k)
    BY <1>3, <1>5 DEF CoreInv, SeqInv
  <2> QED
    BY <2>1 DEF Active, Live, Started, Kept, Ran
<1>7. calls = <<>> => ~Live(k)'
  BY <1>1, <1>2, <1>4, <1>6 DEF Live
<1>8. \A i \in DOMAIN calls : Endless(calls[i])
  BY <1>1, EmptyFacts DEF Endless
<1>9. \A i \in DOMAIN calls : EndAt(calls, i)'
  BY <1>8, PlainEnds
<1>10. calls # <<>> => \E j \in DOMAIN calls : Drops(calls[j], k)
  BY <1>1, <1>2, EmptyFacts DEF Drops
<1>11. EndStep(t, calls, Tail(todo[t]))
  BY <1>1, <1>2, <1>4, <1>7, <1>9, <1>10 DEF EndStep, Drops, Clears
<1> QED
  BY <1>11 DEF Ends

LEMMA ReplaceEnds ==
  ASSUME SeTypes, ShapeInv, NEW t \in Thread, Replace(t), RecStep
  PROVE  Ends(t)
<1>1. PICK k, copy : k = Now(t).e /\ copy = Now(t).copy
  OBVIOUS
<1>2. Now(t).at = "replace" /\ k \in Exec /\ todo[t][1] = Now(t) /\ copy.status = "cancelled"
  BY <1>1, AtFacts DEF Replace, Shape
<1>3. Moves(todo, todo', t, <<>>, Tail(todo[t]))
  BY NoCall DEF Replace
<1>4. ~Live(k)'
  <2>1. rec' = IF rec[k].status = "absent" THEN rec ELSE [rec EXCEPT ![k] = copy]
    BY <1>1 DEF Replace
  <2> QED
    BY <1>2, <2>1, WriteAt DEF Live, SeTypes
<1>5. \A i \in DOMAIN <<>> : EndAt(<<>>, i)'
  BY EmptyFacts
<1>6. EndStep(t, <<>>, Tail(todo[t]))
  BY <1>1, <1>2, <1>3, <1>4, <1>5 DEF EndStep, Drops, Clears
<1> QED
  BY <1>6 DEF Ends

\* A cancel's entries end the execution it is of
LEMMA CancelsEnd ==
  ASSUME NEW e \in Exec, NEW calls, Cancels(e, calls)
  PROVE  /\ \A i \in DOMAIN calls : EndAt(calls, i)'
         /\ \E j \in DOMAIN calls : Clears(calls[j], e) /\ \A m \in DOMAIN calls : j < m => calls[m].at # "cancelEnd"
<1>1. PICK x \in EntryT :
       /\ x.e = e /\ x.copy.status = "cancelled"
       /\ \/ e \in Leaves /\ calls = <<x>> /\ x.at \in {"cancelCall", "store"}
          \/ e \in Parents /\ x.at = "cancelEnd" /\ Before("cancelKid", e, x, calls)
  BY DEF Cancels
<1>2. CASE e \in Leaves /\ calls = <<x>> /\ x.at \in {"cancelCall", "store"}
  <2>1. DOMAIN calls = {1} /\ calls[1] = x
    BY <1>2, EmptyFacts
  <2>2. Endless(x) /\ Clears(x, e)
    BY <1>1, <1>2, LeafEnds DEF Endless, Clears
  <2> QED
    BY <2>1, <2>2, PlainEnds
<1>3. CASE e \in Parents /\ x.at = "cancelEnd" /\ Before("cancelKid", e, x, calls)
  <2>1. PICK n \in Nat : n = Len(calls) /\ n \in DOMAIN calls /\ calls[n] = x /\ DOMAIN calls = 1..n
    BY <1>3 DEF Before
  <2>2. \A k \in KidsOf(e) : \E i \in DOMAIN calls : i < n /\ calls[i] = Call("cancelKid", k)
    BY <1>3, <2>1 DEF Before
  <2>3. \A k : Call("cancelKid", k).at = "cancelKid" /\ Call("cancelKid", k).e = k
    BY CallFields
  <2>4. \A i \in DOMAIN calls : i # n => calls[i].at = "cancelKid"
    <3> SUFFICES ASSUME NEW i \in DOMAIN calls, i # n PROVE calls[i].at = "cancelKid"
      OBVIOUS
    <3>1. PICK k \in KidsOf(e) : calls[i] = Call("cancelKid", k)
      BY <1>3, <2>1 DEF Before
    <3> QED
      BY <2>3, <3>1
  <2>5. \A i \in DOMAIN calls : i # n => EndAt(calls, i)'
    BY <2>4, PlainEnds DEF Endless
  <2>6. \A k \in KidsOf(e) : Cleared(calls, n, k)
    <3> SUFFICES ASSUME NEW k \in KidsOf(e) PROVE Cleared(calls, n, k)
      OBVIOUS
    <3>1. PICK i \in DOMAIN calls : i < n /\ calls[i] = Call("cancelKid", k)
      BY <2>2
    <3>2. Clears(calls[i], k)
      BY <2>3, <3>1 DEF Clears
    <3>3. \A m \in DOMAIN calls : i < m /\ m < n => calls[m].at # "cancelEnd"
      BY <2>1, <2>4
    <3> QED
      BY <3>1, <3>2, <3>3 DEF Cleared
  <2>7. EndAt(calls, n)'
    BY <1>1, <1>3, <2>1, <2>6 DEF EndAt, EndStore, EndDrop, EndClear
  <2>8. Clears(calls[n], e) /\ \A m \in DOMAIN calls : n < m => calls[m].at # "cancelEnd"
    BY <1>1, <1>3, <2>1 DEF Clears
  <2> QED
    BY <2>1, <2>5, <2>7, <2>8
<1> QED
  BY <1>1, <1>2, <1>3

LEMMA CancelKidEnds ==
  ASSUME SeTypes, ShapeInv, NEW t \in Thread, CancelKid(t), RecStep
  PROVE  Ends(t)
<1>1. PICK calls \in Seq(EntryT) :
           /\ Now(t).at = "cancelKid" /\ Now(t).e \in Exec /\ Now(t) \in EntryT
           /\ Moves(todo, todo', t, calls, Tail(todo[t]))
           /\ (calls = <<>> /\ ~Live(Now(t).e)) \/ Cancels(Now(t).e, calls)
  BY CancelKidCalls
<1>2. PICK k \in Exec : k = Now(t).e
  BY <1>1
<1>3. todo[t][1] = Now(t) /\ rec' = rec
  BY AtFacts DEF CancelKid
<1>4. (calls = <<>> /\ ~Live(k)') \/ Cancels(k, calls)
  BY <1>1, <1>2, <1>3 DEF Live
<1>5. \A i \in DOMAIN calls : EndAt(calls, i)'
  BY <1>4, CancelsEnd, EmptyFacts
<1>6. Live(k)' => \E j \in DOMAIN calls : Clears(calls[j], k) /\ \A m \in DOMAIN calls : j < m => calls[m].at # "cancelEnd"
  BY <1>4, CancelsEnd
<1>7. EndStep(t, calls, Tail(todo[t]))
  BY <1>1, <1>2, <1>3, <1>5, <1>6 DEF EndStep, Drops, Clears
<1> QED
  BY <1>7 DEF Ends

LEMMA CancelStoreEnds ==
  ASSUME SeTypes, ShapeInv, EndInv, NEW t \in Thread, CancelCall(t) \/ CancelRefused(t) \/ CancelEnd(t), RecStep
  PROVE  Ends(t)
<1>1. PICK calls \in Seq(EntryT) : \E rest :
           /\ Now(t).at \in {"cancelCall", "cancelEnd"} /\ Now(t).e \in Exec /\ Now(t) \in EntryT
           /\ Now(t).at = "cancelEnd" => Now(t).e \in Parents
           /\ Now(t).at = "cancelCall" => Now(t).e \in Leaves
           /\ Moves(todo, todo', t, calls, rest) /\ \A i \in DOMAIN calls : Shape(calls[i])
           /\ \/ calls = <<>> /\ rest = NotAll(Tail(todo[t]))
              \/ /\ rest = Tail(todo[t]) /\ (Now(t).at = "cancelEnd" => Now(t).all)
                 /\ \E x \in EntryT : calls = <<x>> /\ x.at = "store" /\ x.e = Now(t).e /\ x.copy = Now(t).copy /\ x.copy.status = "cancelled"
  BY CancelStoreCalls
<1>2. PICK rest :
           /\ Moves(todo, todo', t, calls, rest)
           /\ \/ calls = <<>> /\ rest = NotAll(Tail(todo[t]))
              \/ /\ rest = Tail(todo[t]) /\ (Now(t).at = "cancelEnd" => Now(t).all)
                 /\ \E x \in EntryT : calls = <<x>> /\ x.at = "store" /\ x.e = Now(t).e /\ x.copy = Now(t).copy /\ x.copy.status = "cancelled"
  BY <1>1
<1>3. PICK k \in Exec : k = Now(t).e
  BY <1>1
<1>4. todo[t][1] = Now(t) /\ 1 \in DOMAIN todo[t] /\ rec' = rec /\ todo[t] \in Seq(EntryT)
  BY AtFacts DEF CancelCall, CancelRefused, CancelEnd
<1>5. CASE calls = <<>> /\ rest = NotAll(Tail(todo[t]))
  <2>1. \A i \in DOMAIN calls : EndAt(calls, i)'
    BY <1>5, EmptyFacts
  <2>2. EndStep(t, calls, rest)
    BY <1>1, <1>2, <1>4, <1>5, <2>1 DEF EndStep, Drops
  <2> QED
    BY <2>2 DEF Ends
<1>6. ASSUME NEW x \in EntryT, calls = <<x>>, x.at = "store", x.e = k, x.copy.status = "cancelled",
             Now(t).at = "cancelEnd" => Now(t).all
      PROVE  Ends(t)
  <2>1. DOMAIN calls = {1} /\ calls[1] = x
    BY <1>6, EmptyFacts
  <2>2. EndStore(x)'
    <3>1. CASE Now(t).at = "cancelCall"
      <4>1. x.e \notin Parents
        BY <1>1, <1>3, <1>6, <3>1, LeafEnds
      <4> QED
        BY <4>1 DEF EndStore
    <3>2. CASE Now(t).at = "cancelEnd"
      <4>1. EndClear(todo[t], 1)
        BY <1>4 DEF EndInv, EndAt
      <4>2. \A j \in DOMAIN todo[t] : ~(j < 1)
        <5>1. PICK n \in Nat : n = Len(todo[t]) /\ DOMAIN todo[t] = 1..n
          BY <1>4, LenProperties
        <5> QED
          BY <5>1
      <4>3. \A h \in KidsOf(k) : ~Live(h)
        BY <1>3, <1>4, <1>6, <3>2, <4>1, <4>2 DEF EndClear, Cleared
      <4>4. \A h \in KidsOf(k) : rec'[h].status \notin {"pending", "executing"}
        BY <1>4, <4>3 DEF Live
      <4> QED
        BY <1>6, <4>4 DEF EndStore, Live
    <3> QED
      BY <1>1, <3>1, <3>2
  <2>3. EndAt(calls, 1)'
    BY <1>6, <2>1, <2>2 DEF EndAt, EndDrop, EndClear
  <2>4. Clears(x, k)
    BY <1>6 DEF Clears
  <2>5. \A h : Clears(todo[t][1], h) => h = k
    BY <1>3, <1>4 DEF Clears
  <2>6. \A h : ~Drops(todo[t][1], h)
    BY <1>1, <1>4 DEF Drops
  <2>7. \E j \in DOMAIN calls : Clears(calls[j], k) /\ \A m \in DOMAIN calls : j < m => calls[m].at # "cancelEnd"
    BY <1>6, <2>1, <2>4
  <2>8. \A i \in DOMAIN calls : EndAt(calls, i)'
    BY <2>1, <2>3
  <2>9. EndStep(t, calls, rest)
    BY <1>2, <2>5, <2>6, <2>7, <2>8 DEF EndStep
  <2> QED
    BY <2>9 DEF Ends
<1> QED
  BY <1>2, <1>3, <1>5, <1>6

LEMMA DeleteTreeEnds ==
  ASSUME SeTypes, ShapeInv, NEW t \in Thread, DeleteTree(t) \/ Remove(t), RecStep
  PROVE  Ends(t)
<1>1. CASE DeleteTree(t)
  <2>1. PICK calls \in Seq(EntryT) :
           /\ Moves(todo, todo', t, calls, Tail(todo[t]))
           /\ \A i \in DOMAIN calls : calls[i].at \in {"deleteTree", "remove"} /\ ~calls[i].copy.told
    BY <1>1, DeleteTreeCalls
  <2>2. todo[t][1].at = "deleteTree"
    BY <1>1, AtFacts DEF DeleteTree
  <2>3. \A i \in DOMAIN calls : EndAt(calls, i)'
    BY <2>1, PlainEnds DEF Endless
  <2> QED
    BY <2>1, <2>2, <2>3, PlainEndStep
<1>2. CASE Remove(t)
  <2>1. Moves(todo, todo', t, <<>>, Tail(todo[t]))
    BY <1>2, NoCall DEF Remove
  <2>2. todo[t][1].at = "remove"
    BY <1>2, AtFacts DEF Remove
  <2>3. \A i \in DOMAIN <<>> : EndAt(<<>>, i)'
    BY EmptyFacts
  <2> QED
    BY <2>1, <2>2, <2>3, PlainEndStep
<1> QED
  BY <1>1, <1>2

LEMMA StepEnds ==
  ASSUME SeTypes, ShapeInv, CoreInv, EndInv, NEW t \in Thread, Step(t)
  PROVE  EndInv'
<1>1. RecStep
  BY StepRec
<1>2. Ends(t)
  BY <1>1, StartNodeEnds, HandEnds, StoreEnds, ChildEndedEnds, LookEnds, DropEnds, ReplaceEnds, CancelKidEnds, CancelStoreEnds,
     DeleteTreeEnds DEF Step
<1> QED
  BY <1>2, EndKeeps DEF Ends

LEMMA ReportEnds ==
  ASSUME SeTypes, ShapeInv, EndInv, NEW t \in Thread, NEW e \in Leaves, Report(t, e) \/ (t = Loop /\ SweepTimeout(e))
  PROVE  EndInv'
<1>1. PICK calls \in Seq(EntryT) :
           /\ Moves(todo, todo', t, calls, <<>>) /\ todo[t] = <<>>
           /\ \A i \in DOMAIN calls : Shape(calls[i])
           /\ \A i \in DOMAIN calls :
                calls[i].at = "store" /\ calls[i].e = e /\ calls[i].copy.status \in {"completed", "failed"}
                /\ (calls[i].copy.told => rec[e].told)
  BY ReportCalls, ZenonT(60)
<1>2. RecStep
  BY RecSame DEF Report, SweepTimeout
<1>3. \A i \in DOMAIN calls : EndAt(calls, i)'
  BY <1>1, LeafEnds, PlainEnds DEF Endless
<1>4. Ends(t)
  BY <1>1, <1>2, <1>3, PlainEndStep
<1> QED
  BY <1>4, EndKeeps DEF Ends

LEMMA DeleteEnds ==
  ASSUME SeTypes, ShapeInv, EndInv, NEW t \in Thread, NEW e \in Exec, Delete(t, e)
  PROVE  EndInv'
<1>1. PICK calls \in Seq(EntryT) :
           /\ Moves(todo, todo', t, calls, <<>>) /\ todo[t] = <<>>
           /\ \/ \A i \in DOMAIN calls : calls[i].at \in {"deleteTree", "remove"} /\ ~calls[i].copy.told
              \/ Cancels(e, calls) /\ \A i \in DOMAIN calls : calls[i].copy.told => rec[e].told
  BY DeleteCalls
<1>2. RecStep
  BY RecSame DEF Delete
<1>3. \A i \in DOMAIN calls : EndAt(calls, i)'
  <2>1. CASE Cancels(e, calls)
    BY <2>1, CancelsEnd
  <2>2. CASE \A i \in DOMAIN calls : calls[i].at \in {"deleteTree", "remove"}
    BY <2>2, PlainEnds DEF Endless
  <2> QED
    BY <1>1, <2>1, <2>2
<1>4. Ends(t)
  BY <1>1, <1>2, <1>3, PlainEndStep
<1> QED
  BY <1>4, EndKeeps DEF Ends

LEMMA ExpiredEnds ==
  ASSUME SeTypes, ShapeInv, EndInv, NEW e \in Exec, SweepExpired(e)
  PROVE  EndInv'
<1>1. rec' = [rec EXCEPT ![e] = Blank] /\ todo' = todo /\ todo[Loop] = <<>> /\ Loop \in Thread
  BY Tree DEF SweepExpired, Gone, Idle
<1>2. RecStep
  <2>1. rec'[e] = Blank /\ \A d \in Exec : d # e => rec'[d] = rec[d]
    BY <1>1, WriteAt DEF SeTypes
  <2> QED
    BY <2>1, BlankFacts DEF RecStep, Live
<1>3. Moves(todo, todo', Loop, <<>>, <<>>)
  <2>1. todo' = [todo EXCEPT ![Loop] = <<>>]
    BY <1>1 DEF SeTypes, Lists
  <2> QED
    BY <1>1, <2>1, FreshMoves, EmptyFacts DEF Idle
<1>4. \A i \in DOMAIN <<>> : EndAt(<<>>, i)'
  BY EmptyFacts
<1>5. Ends(Loop)
  BY <1>1, <1>2, <1>3, <1>4, PlainEndStep
<1> QED
  BY <1>1, <1>5, EndKeeps DEF Ends

EndsInv == ExecInv /\ EndInv /\ ParentTrue /\ RootEndsAll

LEMMA NextRec ==
  ASSUME ExecInv, [Next]_vars
  PROVE  RecStep
<1>1. SeTypes /\ ShapeInv /\ CoreInv /\ rec \in [Exec -> Record]
  BY DEF ExecInv, SeInv, SeTypes
<1>2. CASE \E t \in Thread : Step(t)
  BY <1>1, <1>2, StepRec
<1>3. CASE \E e \in Exec : SweepExpired(e)
  <2>1. PICK e \in Exec : rec' = [rec EXCEPT ![e] = Blank]
    BY <1>3 DEF SweepExpired, Gone
  <2>2. rec'[e] = Blank /\ \A d \in Exec : d # e => rec'[d] = rec[d]
    BY <1>1, <2>1, WriteAt
  <2> QED
    BY <2>2, BlankFacts DEF RecStep, Live
<1>4. CASE ~(\E t \in Thread : Step(t)) /\ ~(\E e \in Exec : SweepExpired(e))
  <2>1. rec' = rec
    BY <1>4 DEF Next, Report, Delete, SweepTimeout, Crash, vars
  <2> QED
    BY <2>1, RecSame
<1> QED
  BY <1>2, <1>3, <1>4

LEMMA NextEnds ==
  ASSUME Target \subseteq {Root}, ExecInv, EndInv, [Next]_vars
  PROVE  EndInv'
<1>1. SeTypes /\ ShapeInv /\ CoreInv
  BY DEF ExecInv, SeInv
<1>2. CASE \E t \in Thread : Step(t) BY <1>1, <1>2, StepEnds
<1>3. CASE \E t \in Thread, e \in Leaves : Report(t, e) BY <1>1, <1>3, ReportEnds
<1>4. CASE \E t \in Thread, e \in Target : Delete(t, e) BY <1>1, <1>4, DeleteEnds, TreeAssumption
<1>5. CASE \E e \in Leaves : SweepTimeout(e) BY <1>1, <1>5, ReportEnds, Tree
<1>6. CASE \E e \in Exec : SweepExpired(e) BY <1>1, <1>6, ExpiredEnds
<1>7. CASE Crash
  <2>1. \A t \in Thread : todo'[t] = <<>>
    BY <1>7 DEF Crash
  <2> QED
    BY <2>1, EmptyFacts DEF EndInv
<1>8. CASE UNCHANGED vars
  BY <1>8 DEF vars, EndInv, EndAt, EndStore, EndDrop, EndClear, Live
<1> QED
  BY <1>2, <1>3, <1>4, <1>5, <1>6, <1>7, <1>8 DEF Next

\* How an execution comes to its end: by a store, or as a child that is dropped
LEMMA EndsBy ==
  ASSUME ExecInv, [Next]_vars, NEW p \in Exec, rec'[p].status # rec[p].status, rec'[p].status # "absent"
  PROVE  \/ p # Root /\ rec'[p].status = "cancelled"
         \/ \E t \in Thread : /\ 1 \in DOMAIN todo[t] /\ todo[t][1].at = "store" /\ todo[t][1].e = p
                              /\ todo[t][1].copy.status = rec'[p].status
<1>1. SeTypes /\ ShapeInv /\ rec \in [Exec -> Record]
  BY DEF ExecInv, SeInv, SeTypes
<1>2. CASE \E t \in Thread : Step(t)
  <2>1. PICK t \in Thread : Step(t)
    BY <1>2
  <2>2. PICK e, copy : e = Now(t).e /\ copy = Now(t).copy
    OBVIOUS
  <2>3. CASE Store(t) /\ rec' = [rec EXCEPT ![e] = copy]
    <3>1. e \in Exec /\ 1 \in DOMAIN todo[t] /\ Now(t) = todo[t][1] /\ Now(t).at = "store"
      BY <1>1, <2>2, <2>3, AtFacts DEF Store
    <3>2. e = p /\ rec'[p] = copy
      BY <1>1, <2>3, <3>1, WriteAt
    <3> QED
      BY <2>2, <3>1, <3>2
  <2>4. CASE Replace(t) /\ rec' = [rec EXCEPT ![e] = copy]
    <3>1. e \in Exec /\ copy.status = "cancelled" /\ \E q \in Seqs : e \in KidsOf(q)
      BY <1>1, <2>2, <2>4, AtFacts DEF Replace, Shape
    <3>2. e = p /\ rec'[p] = copy
      BY <1>1, <2>4, <3>1, WriteAt
    <3> QED
      BY <3>1, <3>2, Tree DEF Seqs
  <2>5. CASE Remove(t) /\ rec' = [rec EXCEPT ![e] = Blank]
    <3>1. e \in Exec
      BY <1>1, <2>2, <2>5, AtFacts DEF Remove
    <3> QED
      BY <1>1, <2>5, <3>1, WriteAt, BlankFacts
  <2> QED
    BY <1>1, <2>1, <2>2, <2>3, <2>4, <2>5, StepWrites
<1>3. CASE \E e \in Exec : SweepExpired(e)
  <2>1. PICK e \in Exec : rec' = [rec EXCEPT ![e] = Blank]
    BY <1>3 DEF SweepExpired, Gone
  <2> QED
    BY <1>1, <2>1, WriteAt, BlankFacts
<1>4. CASE ~(\E t \in Thread : Step(t)) /\ ~(\E e \in Exec : SweepExpired(e))
  BY <1>4 DEF Next, Report, Delete, SweepTimeout, Crash, vars
<1> QED
  BY <1>2, <1>3, <1>4

\* What the ends of parents say, without the sets
LEMMA ParentTrues ==
  ParentTrue <=>
    \A p \in Parents :
      /\ rec[p].status = "completed" => \A k \in KidsOf(p) : rec[k].status \in {"completed", "absent"}
      /\ rec[p].status = "failed" => \E k \in KidsOf(p) : rec[k].status \in {"failed", "cancelled", "absent"}
BY DEF ParentTrue, KidsOf

LEMMA ParentStep ==
  ASSUME ExecInv, EndInv, ParentTrue, [Next]_vars
  PROVE  ParentTrue'
<1> SUFFICES ASSUME NEW p \in Parents
             PROVE  /\ rec'[p].status = "completed" => \A k \in KidsOf(p) : rec'[k].status \in {"completed", "absent"}
                    /\ rec'[p].status = "failed" => \E k \in KidsOf(p) : rec'[k].status \in {"failed", "cancelled", "absent"}
  BY DEF ParentTrue, KidsOf
<1>1. RecStep /\ p \in Exec /\ KidsOf(p) \subseteq Exec
  BY NextRec, Tree
<1>2. CASE rec'[p].status = rec[p].status
  <2>1. /\ rec[p].status = "completed" => \A k \in KidsOf(p) : rec[k].status \in {"completed", "absent"}
        /\ rec[p].status = "failed" => \E k \in KidsOf(p) : rec[k].status \in {"failed", "cancelled", "absent"}
    BY ParentTrues
  <2> QED
    BY <1>1, <1>2, <2>1 DEF RecStep
<1>3. CASE rec'[p].status # rec[p].status /\ rec'[p].status \in {"completed", "failed"}
  <2>1. PICK t \in Thread : 1 \in DOMAIN todo[t] /\ todo[t][1].at = "store" /\ todo[t][1].e = p
                            /\ todo[t][1].copy.status = rec'[p].status
    BY <1>1, <1>3, EndsBy
  <2>2. EndStore(todo[t][1])
    BY <2>1 DEF EndInv, EndAt
  <2>3. /\ rec'[p].status = "completed" => \A k \in KidsOf(p) : rec[k].status \in {"completed", "absent"}
        /\ rec'[p].status = "failed" => \E k \in KidsOf(p) : rec[k].status \in {"failed", "cancelled", "absent"}
    BY <2>1, <2>2 DEF EndStore
  <2> QED
    BY <1>1, <2>3 DEF RecStep
<1> QED
  BY <1>2, <1>3

LEMMA RootStep ==
  ASSUME ExecInv, EndInv, RootEndsAll, [Next]_vars
  PROVE  RootEndsAll'
<1> SUFFICES ASSUME Ended(Root)', NEW k \in KidsOf(Root) PROVE ~Live(k)'
  BY DEF RootEndsAll, KidsOf
<1>1. RecStep /\ Root \in Exec /\ k \in Exec /\ Root \in Parents
  BY NextRec, Tree
<1>2. CASE Ended(Root)
  BY <1>1, <1>2 DEF RootEndsAll, KidsOf, RecStep
<1>3. CASE ~Ended(Root)
  <2>1. rec'[Root].status # rec[Root].status /\ rec'[Root].status \in {"completed", "failed", "cancelled"}
    BY <1>3 DEF Ended, Terminal
  <2>2. PICK t \in Thread : 1 \in DOMAIN todo[t] /\ todo[t][1].at = "store" /\ todo[t][1].e = Root
                            /\ todo[t][1].copy.status = rec'[Root].status
    BY <1>1, <2>1, EndsBy
  <2>3. EndStore(todo[t][1]) /\ EndDrop(todo[t], 1)
    BY <2>2 DEF EndInv, EndAt
  <2>4. ~Dropped(todo[t], 1, k)
    <3>1. todo[t] \in Seq(EntryT)
      BY DEF ExecInv, SeInv, SeTypes, Lists
    <3>2. PICK n \in Nat : n = Len(todo[t]) /\ DOMAIN todo[t] = 1..n
      BY <3>1, LenProperties
    <3> QED
      BY <3>2 DEF Dropped
  <2>5. ~Live(k)
    <3>1. CASE rec'[Root].status = "completed"
      BY <1>1, <2>2, <2>3, <3>1 DEF EndStore, Live
    <3>2. CASE rec'[Root].status = "cancelled"
      BY <1>1, <2>2, <2>3, <3>2 DEF EndStore
    <3>3. CASE rec'[Root].status = "failed"
      BY <1>1, <2>2, <2>3, <2>4, <3>3 DEF EndDrop
    <3> QED
      BY <2>1, <3>1, <3>2, <3>3
  <2> QED
    BY <1>1, <2>5 DEF RecStep
<1> QED
  BY <1>2, <1>3

LEMMA InitEnds == ASSUME Init PROVE EndsInv
<1>1. ExecInv
  BY InitInv
<1>2. rec = [e \in Exec |-> [status |-> "pending", told |-> e # Root, started |-> FALSE]]
  BY DEF Init
<1>3. \A e \in Exec : rec[e].status = "pending"
  BY <1>2
<1>4. ParentTrue
  BY <1>3, ParentTrues, Tree
<1>5. RootEndsAll
  BY <1>3, Tree DEF RootEndsAll, Ended, Terminal
<1> DEFINE x == Call("start", Root)
<1>6. Endless(x) /\ x.at = "start"
  BY CallFields DEF Endless
<1> HIDE DEF x
<1>7. todo = [t \in Thread |-> IF t = Creator THEN <<x>> ELSE <<>>]
  BY DEF Init, x
<1>8. \A t \in Thread : \A i \in DOMAIN todo[t] : todo[t][i] = x
  <2>1. DOMAIN <<x>> = {1} /\ <<x>>[1] = x
    OBVIOUS
  <2> QED
    BY <1>7, <2>1, EmptyFacts
<1>9. EndInv
  BY <1>6, <1>8 DEF EndInv, EndAt, EndStore, EndDrop, EndClear
<1> QED
  BY <1>1, <1>4, <1>5, <1>9 DEF EndsInv

LEMMA EndsNext ==
  ASSUME Target \subseteq {Root}, EndsInv, [Next]_vars
  PROVE  EndsInv'
BY NextInv, NextEnds, ParentStep, RootStep DEF EndsInv

\* A parent's end is its children's: completed when they all completed, failed only if one failed or
\* was cancelled, whatever else stored and looked meanwhile
THEOREM ParentsTrue ==
  ASSUME Target \subseteq {Root}
  PROVE  Spec => []ParentTrue
<1>1. EndsInv => ParentTrue
  BY DEF EndsInv
<1> QED
  BY <1>1, InitEnds, EndsNext, PTL DEF Spec

\* Once the request's execution has ended, by its children or by a DELETE, none of its children is
\* left pending or executing
THEOREM RootEndsWithAll ==
  ASSUME Target \subseteq {Root}
  PROVE  Spec => []RootEndsAll
<1>1. EndsInv => RootEndsAll
  BY DEF EndsInv
<1> QED
  BY <1>1, InitEnds, EndsNext, PTL DEF Spec

=============================================================================
