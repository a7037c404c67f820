------------------------------ MODULE HaProofs ------------------------------
(***************************************************************************)
(* Proofs about the caches of subscriptions and registrations of brokers   *)
(* on one database (HaSync).                                               *)
(*                                                                         *)
(* PatchInv, with the kinds the records had at the start as its witness: a *)
(* document - stored, read, cached or about to be - was made by one        *)
(* request or was there from the start, and that says its kind; where a    *)
(* request is says which lock it holds; of two requests on a record one    *)
(* found the other there; a PATCH that is stored is in the record and in   *)
(* each document read since. A request that goes on is GoKeeps, one that   *)
(* begins BeginKeeps, a broker's own thread HaThreadKeeps.                 *)
(*                                                                         *)
(* CacheInv, for what the caches hold: of each broker and record a view    *)
(* (View) - the record, the events of it that are still to come and how    *)
(* many say it was deleted, what the broker's thread has still to do about *)
(* it, its lists of items, the broker's own requests on it that have an    *)
(* item to add, swap or drop - and what is true of a view as long as no    *)
(* event was lost (ViewOK): no list has more items than deletions to come  *)
(* take out and the record is one; what is in work brings the record as it *)
(* is, or an event is still to come; with none to come the lists are where *)
(* the record belongs. How a view may change is proved of views alone      *)
(* (ViewWritten, ViewAdded, ...); the actions are then shown to change the *)
(* views of one record, at one broker or at all, in one of those ways.     *)
(***************************************************************************)
EXTENDS HaSync, SeqFacts

-----------------------------------------------------------------------------
(* Caches: the invariant *)

Doc == [kind : Kind, has : SUBSET Nat]
ReqOp == {"post", "patch", "delete", "patchCsr", "deleteCsr"}
ReqPc == {"cache", "lock", "lockPernot", "replace", "replacePernot", "swap", "swapPernot", "drop", "dropPernot", "update", "swapCsr",
          "delete", "cacheReg", "updateReg", "swapReg", "dropReg", "done", "refused", "lost"}
ReqRec == [op : ReqOp, id : Id, at : Broker, pc : ReqPc, doc : Doc \cup {NoDoc}, kind : Kind \cup {"none"}, beside : SUBSET Nat]
HoldRec == [do : {"remove", "swap", "add"}, cache : CacheName, doc : Doc \cup {NoDoc}]
ApplyRec == [pc : {"idle", "read", "todo"}, id : Id \cup {"none"}, todo : Seq(HoldRec)]
EventRec == [id : Id, op : {"upsert", "delete"}]

HaTypes ==
  /\ db \in [Id -> Doc \cup {NoDoc}] /\ cache \in [Broker -> [CacheName -> [Id -> Seq(Doc)]]]
  /\ lock \in [Broker -> [CacheName -> Nat]] /\ req \in Seq(ReqRec) /\ Len(req) <= MaxReq
  /\ stream \in [Broker -> Seq(EventRec)] /\ apply \in [Broker -> ApplyRec]
  /\ open \in [Broker -> BOOLEAN] /\ missed \in [Broker -> BOOLEAN] /\ phase \in [Broker -> {"start", "subs", "regs", "up"}]
  /\ \A b \in Broker, c \in CacheName : lock[b][c] <= Len(req)

\* Where a request is says what it is ...
ReqShape(r) ==
  /\ req[r].pc \in {"lock", "lockPernot", "replace", "replacePernot", "swap", "swapPernot"} => req[r].op = "patch" /\ req[r].id \in SubId
  /\ req[r].pc \in {"updateReg", "swapReg"} => req[r].op = "patch" /\ req[r].id \in RegId
  /\ req[r].pc \in {"update", "swapCsr"} => req[r].op = "patchCsr"
  /\ req[r].pc \in {"cacheReg", "dropReg"} => req[r].op \in {"post", "delete"}
  /\ req[r].pc \in {"replace", "replacePernot", "swap", "swapPernot", "updateReg", "swapReg"} => req[r].doc # NoDoc /\ r \in req[r].doc.has
  /\ req[r].pc \in {"cache", "cacheReg", "update", "swapCsr"} => req[r].doc # NoDoc
  /\ req[r].op = "patch" /\ req[r].pc = "done" => req[r].doc # NoDoc
  /\ req[r].op = "patchCsr" => req[r].doc.kind = "csr"

\* ... and which lock it holds
ReqLock(r) ==
  /\ req[r].pc \in {"replace", "replacePernot", "swap"} => lock[req[r].at]["sub"] = r
  /\ req[r].pc \in {"update", "swapCsr"} => lock[req[r].at]["regSub"] = r
  /\ req[r].pc \in {"cacheReg", "updateReg", "swapReg"} => lock[req[r].at]["reg"] = r

\* Two requests on a record that go on at once: one found the other there
Besides ==
  \A r, q \in DOMAIN req : r # q /\ req[r].id = req[q].id /\ req[r].pc \notin Ended /\ req[q].pc \notin Ended
                             => r \in req[q].beside \/ q \in req[r].beside

\* The request that made a document is one that it holds the effect of: a POST, or none - it was there from the start -
\* and says of which kind the document is
Maker(p) == p = 0 \/ req[p].op = "post"
KindOf(k0, i, p) == IF p = 0 THEN k0[i] ELSE req[p].kind
DocOf(k0, i, d) ==
  /\ d \in Doc /\ \A x \in d.has : x <= Len(req)
  /\ \E p \in d.has : Maker(p) /\ d.kind = KindOf(k0, i, p) /\ \A x \in d.has : Maker(x) => x = p

Docs(k0) ==
  /\ \A i \in Id : db[i] # NoDoc => DocOf(k0, i, db[i])
  /\ \A r \in DOMAIN req : req[r].doc # NoDoc => DocOf(k0, req[r].id, req[r].doc)

\* So do those that a cache has, or is about to have; the cache of csr subscriptions has nothing else
CacheDocs(k0, b) ==
  \A c \in CacheName, i \in Id : \A d \in Range(cache[b][c][i]) : DocOf(k0, i, d) /\ (c = "regSub" => d.kind = "csr")
ApplyDocs(k0, b) ==
  /\ apply[b].pc = "todo" => apply[b].id \in Id /\ apply[b].todo # <<>>
  /\ \A h \in Range(apply[b].todo) : h.do # "remove" =>
       apply[b].id \in Id /\ DocOf(k0, apply[b].id, h.doc) /\ (h.cache = "regSub" => h.doc.kind = "csr")

\* A PATCH whose document is stored
Stored(r) == req[r].op = "patch" /\ req[r].pc \in {"swap", "swapPernot", "swapReg", "done"} /\ req[r].doc.kind # "csr"
AtStore(r) == req[r].op = "patch" /\ req[r].pc \in {"replace", "replacePernot", "updateReg"}
OneBroker(r) == \A q \in DOMAIN req : q \in req[r].beside \/ r \in req[q].beside => req[q].at = req[r].at
SameRecord(d, e) == \E p \in d.has \cap e.has : Maker(p)

\* It is in the record, and in every document read of the record since, that has not been stored yet
PatchStands(r) ==
  /\ db[req[r].id] # NoDoc /\ SameRecord(db[req[r].id], req[r].doc) => r \in db[req[r].id].has
  /\ \A q \in DOMAIN req : req[q].id = req[r].id /\ AtStore(q) /\ SameRecord(req[q].doc, req[r].doc) => r \in req[q].doc.has

PatchInv(k0) ==
  /\ HaTypes /\ (\A r \in DOMAIN req : ReqShape(r) /\ ReqLock(r)) /\ Besides
  /\ Docs(k0) /\ (\A b \in Broker : CacheDocs(k0, b) /\ ApplyDocs(k0, b))
  /\ \A r \in DOMAIN req : Stored(r) /\ OneBroker(r) => PatchStands(r)

-----------------------------------------------------------------------------
(* Caches: what a document, a list of documents and the requests so far can be told by *)

LEMMA NoDocFacts == NoDoc \notin Doc /\ NoDoc.kind = "none" /\ NoDoc.has = {} /\ \A d \in Doc : d # NoDoc
<1>1. NoDoc.kind = "none" /\ NoDoc.has = {}
  BY DEF NoDoc
<1>2. \A d \in Doc : d.kind # "none"
  BY DEF Doc, Kind
<1> QED BY <1>1, <1>2

\* Requests keep what they are, and more come
ReqGrows ==
  /\ Len(req) \in Nat /\ Len(req') \in Nat /\ Len(req) <= Len(req')
  /\ DOMAIN req = 1..Len(req) /\ DOMAIN req' = 1..Len(req')
  /\ \A r \in DOMAIN req : /\ req'[r].op = req[r].op /\ req'[r].kind = req[r].kind /\ req'[r].id = req[r].id
                           /\ req'[r].at = req[r].at /\ req'[r].beside = req[r].beside

LEMMA MakerStays ==
  ASSUME ReqGrows, NEW p \in Nat, p <= Len(req), NEW k0, NEW i
  PROVE  (Maker(p)' <=> Maker(p)) /\ (Maker(p) => KindOf(k0, i, p)' = KindOf(k0, i, p))
<1>1. p = 0 \/ p \in DOMAIN req
  BY DEF ReqGrows
<1> QED BY <1>1 DEF Maker, KindOf, ReqGrows

LEMMA DocStays ==
  ASSUME ReqGrows, NEW k0, NEW i, NEW d, DocOf(k0, i, d)
  PROVE  DocOf(k0, i, d)'
<1>1. d \in Doc /\ d.has \subseteq Nat /\ \A x \in d.has : x <= Len(req)
  BY DEF DocOf, Doc
<1>2. \A x \in d.has : x <= Len(req')
  BY <1>1 DEF ReqGrows
<1>3. PICK p \in d.has : Maker(p) /\ d.kind = KindOf(k0, i, p) /\ \A x \in d.has : Maker(x) => x = p
  BY DEF DocOf
<1>4. \A x \in d.has : Maker(x)' <=> Maker(x)
  BY <1>1, MakerStays
<1>5. KindOf(k0, i, p)' = KindOf(k0, i, p)
  BY <1>1, <1>3, MakerStays
<1>6. \E pp \in d.has : Maker(pp)' /\ d.kind = KindOf(k0, i, pp)' /\ \A x \in d.has : Maker(x)' => x = pp
  BY <1>3, <1>4, <1>5
<1> QED BY <1>1, <1>2, <1>6 DEF DocOf

LEMMA SameStays ==
  ASSUME ReqGrows, NEW k0, NEW i, NEW d, NEW e, DocOf(k0, i, d)
  PROVE  SameRecord(d, e)' <=> SameRecord(d, e)
<1>1. d.has \subseteq Nat /\ \A x \in d.has : x <= Len(req)
  BY DEF DocOf, Doc
<1>2. \A x \in d.has : Maker(x)' <=> Maker(x)
  BY <1>1, MakerStays
<1> QED BY <1>2 DEF SameRecord

\* A document read and merged by a request that makes none
LEMMA DocPatched ==
  ASSUME ReqGrows, NEW k0, NEW i, NEW d, DocOf(k0, i, d), NEW r \in 1..Len(req'), req'[r].op # "post"
  PROVE  /\ [d EXCEPT !.has = @ \cup {r}] \in Doc
         /\ [d EXCEPT !.has = @ \cup {r}].has = d.has \cup {r} /\ [d EXCEPT !.has = @ \cup {r}].kind = d.kind
         /\ DocOf(k0, i, [d EXCEPT !.has = @ \cup {r}])'
<1> DEFINE e == [d EXCEPT !.has = @ \cup {r}]
<1>1. d \in Doc /\ DocOf(k0, i, d)'
  BY DocStays DEF DocOf
<1>2. e \in Doc /\ e.has = d.has \cup {r} /\ e.kind = d.kind
  BY <1>1 DEF Doc
<1> HIDE DEF e
<1>3. r \in Nat /\ r # 0 /\ r <= Len(req')
  BY DEF ReqGrows
<1>4. ~Maker(r)'
  BY <1>3 DEF Maker
<1>5. \A x \in d.has : x <= Len(req')
  BY <1>1 DEF DocOf
<1>6. PICK p \in d.has : Maker(p)' /\ d.kind = KindOf(k0, i, p)' /\ \A x \in d.has : Maker(x)' => x = p
  BY <1>1 DEF DocOf
<1>7. \A x \in e.has : x <= Len(req')
  BY <1>2, <1>3, <1>5
<1>8. \A x \in e.has : Maker(x)' => x = p
  BY <1>2, <1>4, <1>6
<1>9. DocOf(k0, i, e)'
  BY <1>2, <1>6, <1>7, <1>8 DEF DocOf
<1> QED BY <1>2, <1>9 DEF e

\* Two documents made by the same request are of one kind
LEMMA SameKind ==
  ASSUME NEW k0, NEW i, NEW d, NEW e, DocOf(k0, i, d), DocOf(k0, i, e), SameRecord(d, e)
  PROVE  d.kind = e.kind
<1>1. PICK m \in d.has \cap e.has : Maker(m)
  BY DEF SameRecord
<1>2. d.kind = KindOf(k0, i, m)
  <2>1. PICK p \in d.has : Maker(p) /\ d.kind = KindOf(k0, i, p) /\ \A x \in d.has : Maker(x) => x = p
    BY DEF DocOf
  <2> QED BY <1>1, <2>1
<1>3. e.kind = KindOf(k0, i, m)
  <2>1. PICK p \in e.has : Maker(p) /\ e.kind = KindOf(k0, i, p) /\ \A x \in e.has : Maker(x) => x = p
    BY DEF DocOf
  <2> QED BY <1>1, <2>1
<1> QED BY <1>2, <1>3

LEMMA TailSub ==
  ASSUME NEW S, NEW s \in Seq(S), s # <<>>
  PROVE  Tail(s) \in Seq(S) /\ Range(Tail(s)) \subseteq Range(s) /\ Head(s) \in Range(s) /\ Head(s) \in S
<1>1. Tail(s) \in Seq(S) /\ Len(Tail(s)) = Len(s) - 1 /\ \A n \in 1..Len(Tail(s)) : Tail(s)[n] = s[n + 1]
  BY HeadTailProperties
<1>2. Head(s) = s[1] /\ Head(s) \in S /\ 1 \in DOMAIN s /\ Len(s) \in Nat /\ DOMAIN s = 1..Len(s)
  OBVIOUS
<1>3. \A n \in DOMAIN Tail(s) : n \in 1..Len(Tail(s)) /\ n + 1 \in DOMAIN s
  BY <1>1, <1>2
<1>4. Range(Tail(s)) \subseteq Range(s)
  BY <1>1, <1>3 DEF Range
<1> QED BY <1>1, <1>2, <1>4 DEF Range

CacheType == [Broker -> [CacheName -> [Id -> Seq(Doc)]]]

LEMMA OneList ==
  ASSUME NEW S, NEW f \in [Broker -> [CacheName -> [Id -> S]]], NEW b \in Broker, NEW c \in CacheName, NEW i \in Id, NEW n \in S
  PROVE  /\ [f EXCEPT ![b][c][i] = n] \in [Broker -> [CacheName -> [Id -> S]]]
         /\ \A y \in Broker, x \in CacheName, j \in Id :
              [f EXCEPT ![b][c][i] = n][y][x][j] = IF y = b /\ x = c /\ j = i THEN n ELSE f[y][x][j]
OBVIOUS

\* What each operation of a cache leaves in its lists
LEMMA Removed ==
  ASSUME cache \in CacheType, NEW b \in Broker, NEW c \in CacheName, NEW i \in Id, ItemRemove(b, c, i)
  PROVE  cache' \in CacheType
         /\ \A y \in Broker, x \in CacheName, j \in Id : Range(cache'[y][x][j]) \subseteq Range(cache[y][x][j])
<1> DEFINE s == cache[b][c][i]
           n == IF s = <<>> THEN s ELSE Tail(s)
<1>1. s \in Seq(Doc)
  BY DEF CacheType
<1>2. n \in Seq(Doc) /\ Range(n) \subseteq Range(s)
  BY <1>1, TailSub
<1>3. cache' = [cache EXCEPT ![b][c][i] = n]
  BY DEF ItemRemove
<1>4. cache \in [Broker -> [CacheName -> [Id -> Seq(Doc)]]]
  BY DEF CacheType
<1> HIDE DEF n
<1>5. cache' \in [Broker -> [CacheName -> [Id -> Seq(Doc)]]]
      /\ \A y \in Broker, x \in CacheName, j \in Id : cache'[y][x][j] = IF y = b /\ x = c /\ j = i THEN n ELSE cache[y][x][j]
  BY <1>2, <1>3, <1>4, OneList
<1>6. ASSUME NEW y \in Broker, NEW x \in CacheName, NEW j \in Id
      PROVE  Range(cache'[y][x][j]) \subseteq Range(cache[y][x][j])
  BY <1>2, <1>5
<1> QED BY <1>5, <1>6 DEF CacheType

LEMMA Added ==
  ASSUME cache \in CacheType, NEW b \in Broker, NEW c \in CacheName, NEW i \in Id, NEW d \in Doc, ItemAdd(b, c, i, d)
  PROVE  cache' \in CacheType
         /\ \A y \in Broker, x \in CacheName, j \in Id : \A e \in Range(cache'[y][x][j]) :
              e \in Range(cache[y][x][j]) \/ (y = b /\ x = c /\ j = i /\ e = d)
<1> DEFINE s == cache[b][c][i]
           n == Append(s, d)
<1>1. s \in Seq(Doc)
  BY DEF CacheType
<1>2. n \in Seq(Doc) /\ Range(n) = Range(s) \cup {d}
  BY <1>1, AppendFacts
<1>3. cache' = [cache EXCEPT ![b][c][i] = n]
  BY DEF ItemAdd
<1>4. cache \in [Broker -> [CacheName -> [Id -> Seq(Doc)]]]
  BY DEF CacheType
<1> HIDE DEF n
<1>5. cache' \in [Broker -> [CacheName -> [Id -> Seq(Doc)]]]
      /\ \A y \in Broker, x \in CacheName, j \in Id : cache'[y][x][j] = IF y = b /\ x = c /\ j = i THEN n ELSE cache[y][x][j]
  BY <1>2, <1>3, <1>4, OneList
<1>6. ASSUME NEW y \in Broker, NEW x \in CacheName, NEW j \in Id, NEW e \in Range(cache'[y][x][j])
      PROVE  e \in Range(cache[y][x][j]) \/ (y = b /\ x = c /\ j = i /\ e = d)
  BY <1>2, <1>5
<1> QED BY <1>5, <1>6 DEF CacheType

LEMMA Swapped ==
  ASSUME cache \in CacheType, NEW b \in Broker, NEW c \in CacheName, NEW i \in Id, NEW d \in Doc, ItemSwap(b, c, i, d)
  PROVE  cache' \in CacheType
         /\ \A y \in Broker, x \in CacheName, j \in Id : \A e \in Range(cache'[y][x][j]) :
              e \in Range(cache[y][x][j]) \/ (y = b /\ x = c /\ j = i /\ e = d)
<1> DEFINE s == cache[b][c][i]
           t == IF s = <<>> THEN s ELSE Tail(s)
           n == Append(t, d)
<1>1. s \in Seq(Doc)
  BY DEF CacheType
<1>2. t \in Seq(Doc) /\ Range(t) \subseteq Range(s)
  BY <1>1, TailSub
<1> HIDE DEF t
<1>3. n \in Seq(Doc) /\ Range(n) = Range(t) \cup {d}
  BY <1>2, AppendFacts
<1>4. cache' = [cache EXCEPT ![b][c][i] = n]
  BY DEF ItemSwap, t
<1>5. cache \in [Broker -> [CacheName -> [Id -> Seq(Doc)]]]
  BY DEF CacheType
<1> HIDE DEF n
<1>6. cache' \in [Broker -> [CacheName -> [Id -> Seq(Doc)]]]
      /\ \A y \in Broker, x \in CacheName, j \in Id : cache'[y][x][j] = IF y = b /\ x = c /\ j = i THEN n ELSE cache[y][x][j]
  BY <1>3, <1>4, <1>5, OneList
<1>7. ASSUME NEW y \in Broker, NEW x \in CacheName, NEW j \in Id, NEW e \in Range(cache'[y][x][j])
      PROVE  e \in Range(cache[y][x][j]) \/ (y = b /\ x = c /\ j = i /\ e = d)
  BY <1>2, <1>3, <1>6
<1> QED BY <1>6, <1>7 DEF CacheType

\* A write's event
LEMMA Published ==
  ASSUME HaTypes, NEW i \in Id, NEW op \in {"upsert", "delete"}, Publish(i, op)
  PROVE  stream' \in [Broker -> Seq(EventRec)] /\ missed' \in [Broker -> BOOLEAN]
<1> DEFINE e == [id |-> i, op |-> op]
<1>1. e \in EventRec
  BY DEF EventRec
<1>2. \A b \in Broker : stream[b] \in Seq(EventRec)
  BY DEF HaTypes
<1>4. stream' = [b \in Broker |-> IF Ha /\ open[b] THEN Append(stream[b], e) ELSE stream[b]]
  BY DEF Publish
<1> HIDE DEF e
<1>3. \A b \in Broker : Append(stream[b], e) \in Seq(EventRec)
  BY <1>1, <1>2, AppendProperties
<1>5. stream' \in [Broker -> Seq(EventRec)]
  BY <1>2, <1>3, <1>4
<1>6. missed' \in [Broker -> BOOLEAN]
  BY DEF Publish
<1> QED BY <1>5, <1>6

-----------------------------------------------------------------------------
(* Caches: the steps, by what they do *)

\* What a step may leave in the caches
CacheStep(k0) ==
  \A y \in Broker, x \in CacheName, j \in Id : \A e \in Range(cache'[y][x][j]) :
    e \in Range(cache[y][x][j]) \/ (DocOf(k0, j, e)' /\ (x = "regSub" => e.kind = "csr"))

LEMMA CachesKeep ==
  ASSUME NEW k0, ReqGrows, \A b \in Broker : CacheDocs(k0, b), CacheStep(k0)
  PROVE  \A b \in Broker : CacheDocs(k0, b)'
<1> SUFFICES ASSUME NEW b \in Broker, NEW c \in CacheName, NEW i \in Id, NEW d \in Range(cache'[b][c][i])
             PROVE  DocOf(k0, i, d)' /\ (c = "regSub" => d.kind = "csr")
  BY DEF CacheDocs
<1>1. CASE d \in Range(cache[b][c][i])
  BY <1>1, DocStays DEF CacheDocs
<1>2. CASE d \notin Range(cache[b][c][i])
  BY <1>2 DEF CacheStep
<1> QED BY <1>1, <1>2

LEMMA ApplyStays ==
  ASSUME NEW k0, ReqGrows, NEW b \in Broker, ApplyDocs(k0, b), apply'[b] = apply[b]
  PROVE  ApplyDocs(k0, b)'
<1> SUFFICES ASSUME NEW h \in Range(apply[b].todo), h.do # "remove"
             PROVE  apply[b].id \in Id /\ DocOf(k0, apply[b].id, h.doc)' /\ (h.cache = "regSub" => h.doc.kind = "csr")
  BY DEF ApplyDocs
<1>1. apply[b].id \in Id /\ DocOf(k0, apply[b].id, h.doc) /\ (h.cache = "regSub" => h.doc.kind = "csr")
  BY DEF ApplyDocs
<1> DEFINE i == apply[b].id
           d == h.doc
<1>2. DocOf(k0, i, d)
  BY <1>1
<1> HIDE DEF d, i
<1>3. PICK dd : dd = d
  OBVIOUS
<1>4. PICK ii : ii = i
  OBVIOUS
<1>5. DocOf(k0, ii, dd)'
  BY <1>2, <1>3, <1>4, DocStays
<1> QED BY <1>1, <1>3, <1>4, <1>5 DEF d, i

\* The database's documents stay what they were, are gone, or there is another one of which the same holds
LEMMA DocsKeep ==
  ASSUME NEW k0, ReqGrows, Docs(k0),
         \A i \in Id : db'[i] = db[i] \/ db'[i] = NoDoc \/ DocOf(k0, i, db[i])',
         \A r \in DOMAIN req' : \/ r \in DOMAIN req /\ req'[r].doc = req[r].doc
                                \/ (req[r].doc # NoDoc => DocOf(k0, req[r].id, req[r].doc))'
  PROVE  Docs(k0)'
<1>1. ASSUME NEW i \in Id, db'[i] # NoDoc PROVE DocOf(k0, i, db[i])'
  <2>1. CASE db'[i] = db[i]
    <3>1. PICK d : d = db[i]
      OBVIOUS
    <3>2. DocOf(k0, i, d)'
      BY <1>1, <2>1, <3>1, DocStays DEF Docs
    <3> QED BY <2>1, <3>1, <3>2
  <2> QED BY <1>1, <2>1
<1>2. ASSUME NEW r \in DOMAIN req', req'[r].doc # NoDoc PROVE DocOf(k0, req[r].id, req[r].doc)'
  <2>1. CASE r \in DOMAIN req /\ req'[r].doc = req[r].doc
    <3>1. PICK d, i : d = req[r].doc /\ i = req[r].id
      OBVIOUS
    <3>2. DocOf(k0, i, d)'
      BY <1>2, <2>1, <3>1, DocStays DEF Docs
    <3> QED BY <2>1, <3>1, <3>2 DEF ReqGrows
  <2> QED BY <1>2, <2>1
<1> QED BY <1>1, <1>2 DEF Docs

\* Request r goes on as n
GoStep(r, n) ==
  /\ r \in DOMAIN req /\ req' = [req EXCEPT ![r] = n] /\ n \in ReqRec
  /\ n.op = req[r].op /\ n.kind = req[r].kind /\ n.id = req[r].id /\ n.at = req[r].at /\ n.beside = req[r].beside
  /\ req[r].pc \notin Ended

LEMMA GoGrows ==
  ASSUME req \in Seq(ReqRec), NEW r, NEW n, GoStep(r, n)
  PROVE  /\ ReqGrows /\ req' \in Seq(ReqRec) /\ Len(req') = Len(req) /\ DOMAIN req' = DOMAIN req
         /\ req'[r] = n /\ \A q \in DOMAIN req : q # r => req'[q] = req[q]
<1>1. Len(req) \in Nat /\ DOMAIN req = 1..Len(req) /\ r \in DOMAIN req /\ n \in ReqRec /\ req' = [req EXCEPT ![r] = n]
  BY DEF GoStep
<1>2. req' \in Seq(ReqRec) /\ Len(req') = Len(req) /\ DOMAIN req' = DOMAIN req
  BY <1>1, ExceptSeq
<1>3. req'[r] = n /\ \A q \in DOMAIN req : q # r => req'[q] = req[q]
  BY <1>1
<1> QED BY <1>1, <1>2, <1>3 DEF ReqGrows, GoStep

\* What a request that goes on does to the record
GoDb(r) ==
  \/ db' = db
  \/ db' = [db EXCEPT ![req[r].id] = NoDoc]
  \/ db' = [db EXCEPT ![req[r].id] = req[r].doc] /\ req[r].doc # NoDoc /\ (AtStore(r) \/ req[r].doc.kind = "csr")
GoDoc(r, n) ==
  /\ n.doc = req[r].doc \/ AtStore(r)'
  /\ AtStore(r)' => db' = db /\ db[req[r].id] # NoDoc /\ n.doc = [db[req[r].id] EXCEPT !.has = @ \cup {r}]
  /\ Stored(r)' => /\ n.doc = req[r].doc
                   /\ Stored(r) \/ (AtStore(r) /\ db' = [db EXCEPT ![req[r].id] = req[r].doc] /\ r \in req[r].doc.has)

\* Two requests that store a merged record do not go on at once on one broker
LEMMA OneStoring ==
  ASSUME NEW k0, PatchInv(k0), NEW r \in DOMAIN req, NEW q \in DOMAIN req, AtStore(r), AtStore(q), req[r].id = req[q].id,
         OneBroker(r)
  PROVE  q = r
<1> SUFFICES ASSUME q # r PROVE FALSE
  OBVIOUS
<1>1. req[r].pc \notin Ended /\ req[q].pc \notin Ended
  BY DEF AtStore, Ended
<1>2. req[q].at = req[r].at
  BY <1>1 DEF PatchInv, Besides, OneBroker
<1>3. ReqShape(r) /\ ReqShape(q) /\ ReqLock(r) /\ ReqLock(q)
  BY DEF PatchInv
<1>4. SubId \cap RegId = {}
  BY HaAssumption
<1>5. CASE req[r].id \in SubId
  BY <1>2, <1>3, <1>4, <1>5 DEF AtStore, ReqShape, ReqLock
<1>6. CASE req[r].id \notin SubId
  BY <1>2, <1>3, <1>4, <1>6 DEF AtStore, ReqShape, ReqLock
<1> QED BY <1>5, <1>6

LEMMA KeptGoes ==
  ASSUME NEW k0, PatchInv(k0), NEW r, NEW n, GoStep(r, n), GoDb(r), GoDoc(r, n),
         NEW p \in DOMAIN req', Stored(p)', OneBroker(p)'
  PROVE  PatchStands(p)'
<1>1. req \in Seq(ReqRec) /\ db \in [Id -> Doc \cup {NoDoc}]
  BY DEF PatchInv, HaTypes
<1>2. ReqGrows /\ DOMAIN req' = DOMAIN req /\ Len(req') = Len(req) /\ req'[r] = n /\ (\A q \in DOMAIN req : q # r => req'[q] = req[q])
  BY <1>1, GoGrows
<1>3. r \in DOMAIN req /\ p \in DOMAIN req /\ req[r] \in ReqRec /\ req[p] \in ReqRec /\ n.id = req[r].id
  BY <1>1, <1>2 DEF GoStep
<1>4. req[r].id \in Id /\ req[p].id \in Id /\ req'[p].id = req[p].id
  BY <1>2, <1>3 DEF ReqRec, ReqGrows
<1>5. OneBroker(p)
  BY <1>2, <1>3 DEF OneBroker, ReqGrows
<1>6. req'[p].doc = req[p].doc /\ req[p].doc # NoDoc /\ req[p].doc.kind # "csr"
  <2>1. req'[p].doc = req[p].doc
    BY <1>2, <1>3 DEF GoDoc
  <2>2. req'[p].doc.kind # "csr" /\ (Stored(p) \/ AtStore(p))
    BY <1>2, <1>3 DEF GoDoc, Stored
  <2>3. ReqShape(p)
    BY <1>3 DEF PatchInv
  <2>4. req[p].doc # NoDoc
    BY <2>2, <2>3 DEF ReqShape, Stored, AtStore
  <2> QED BY <2>1, <2>2, <2>4
<1>7. PICK e, i : e = req[p].doc /\ i = req[p].id
  OBVIOUS
<1>8. DocOf(k0, i, e) /\ i \in Id
  BY <1>3, <1>4, <1>6, <1>7 DEF PatchInv, Docs
\* either it was in the record before, or it is the one stored now
<1>9. \/ Stored(p) /\ PatchStands(p)
      \/ p = r /\ AtStore(r) /\ db' = [db EXCEPT ![i] = e] /\ r \in e.has
  <2>1. CASE p = r
    BY <2>1, <1>3, <1>5, <1>7 DEF GoDoc, PatchInv
  <2>2. CASE p # r
    BY <2>2, <1>2, <1>3, <1>5 DEF PatchInv, Stored
  <2> QED BY <2>1, <2>2
<1>10. ASSUME NEW d, SameRecord(d, e)' PROVE SameRecord(d, e)
  <2>1. SameRecord(e, d)'
    BY <1>10 DEF SameRecord
  <2>2. SameRecord(e, d)
    BY <2>1, <1>2, <1>8, SameStays
  <2> QED BY <2>2 DEF SameRecord
<1>11. ASSUME db'[i] # NoDoc, SameRecord(db[i], e)' PROVE p \in db'[i].has
  <2>1. PICK d : d = db'[i]
    OBVIOUS
  <2>2. SameRecord(d, e)
    BY <1>10, <1>11, <2>1
  <2>3. CASE ~(Stored(p) /\ PatchStands(p))
    BY <2>3, <1>1, <1>8, <1>9
  <2>4. CASE (Stored(p) /\ PatchStands(p)) /\ db'[i] = db[i]
    BY <2>4, <2>1, <2>2, <1>7, <1>11 DEF PatchStands
  <2>5. CASE (Stored(p) /\ PatchStands(p)) /\ db'[i] # db[i]
    <3>1. req[r].id = i /\ d = req[r].doc /\ req[r].doc # NoDoc /\ (AtStore(r) \/ req[r].doc.kind = "csr")
      BY <2>1, <2>5, <1>1, <1>3, <1>4, <1>8, <1>11 DEF GoDb
    <3>2. CASE AtStore(r)
      BY <3>1, <3>2, <2>1, <2>2, <2>5, <1>3, <1>7 DEF PatchStands
    <3>3. CASE req[r].doc.kind = "csr"
      <4>1. DocOf(k0, i, d)
        BY <3>1, <1>3 DEF PatchInv, Docs
      <4>2. d.kind = e.kind
        BY <4>1, <1>8, <2>2, SameKind
      <4> QED BY <4>2, <3>1, <3>3, <1>6, <1>7
    <3> QED BY <3>1, <3>2, <3>3
  <2> QED BY <2>3, <2>4, <2>5
<1>12. ASSUME NEW q \in DOMAIN req, req'[q].id = i, AtStore(q)', SameRecord(req[q].doc, e)' PROVE p \in req'[q].doc.has
  <2>1. PICK d : d = req'[q].doc
    OBVIOUS
  <2>2. SameRecord(d, e)
    BY <1>10, <1>12, <2>1
  <2>3. CASE q = r
    <3>1. i = req[r].id /\ db' = db /\ db[i] # NoDoc /\ d = [db[i] EXCEPT !.has = @ \cup {r}] /\ req'[r].op = "patch" /\ ~Stored(r)' /\ ~(r = p)
      BY <2>1, <2>3, <1>2, <1>3, <1>12 DEF GoDoc, AtStore, Stored
    <3>2. Stored(p) /\ PatchStands(p)
      BY <3>1, <1>9
    <3>3. PICK g : g = db[i]
      OBVIOUS
    <3>4. DocOf(k0, i, g)
      BY <3>1, <3>3, <1>8 DEF PatchInv, Docs
    <3>5. r \in 1..Len(req')
      BY <1>2, <1>3 DEF ReqGrows
    <3>6. d.has = g.has \cup {r}
      BY <3>1, <3>3, <3>4, <3>5, <1>2, DocPatched
    <3>7. ~Maker(r)
      BY <3>1, <3>5, <1>2, <1>3 DEF Maker, ReqGrows
    <3>8. SameRecord(g, e)
      BY <2>2, <3>6, <3>7 DEF SameRecord
    <3> QED BY <2>1, <3>1, <3>2, <3>3, <3>6, <3>8, <1>7 DEF PatchStands
  <2>4. CASE q # r
    <3>1. req'[q] = req[q] /\ AtStore(q) /\ req[q].id = i
      BY <2>4, <1>2, <1>12 DEF AtStore
    <3>2. CASE Stored(p) /\ PatchStands(p)
      BY <3>1, <3>2, <2>1, <2>2, <1>7 DEF PatchStands
    <3>3. CASE p = r /\ AtStore(r)
      BY <3>1, <3>3, <2>4, <1>3, <1>5, <1>7, OneStoring
    <3> QED BY <3>2, <3>3, <1>9
  <2> QED BY <2>3, <2>4
<1> QED BY <1>2, <1>4, <1>6, <1>7, <1>11, <1>12 DEF PatchStands

\* A request goes on
LEMMA GoKeeps ==
  ASSUME NEW k0, PatchInv(k0), NEW r, NEW n, GoStep(r, n), GoDb(r), GoDoc(r, n), CacheStep(k0), cache' \in CacheType,
         UNCHANGED <<apply, phase, open>>, (ReqShape(r) /\ ReqLock(r))',
         lock' \in [Broker -> [CacheName -> Nat]],
         \A b \in Broker, c \in CacheName : lock'[b][c] = lock[b][c] \/ (lock[b][c] \in {Free, r} /\ lock'[b][c] \in {Free, r}),
         stream' \in [Broker -> Seq(EventRec)], missed' \in [Broker -> BOOLEAN]
  PROVE  PatchInv(k0)'
<1>1. req \in Seq(ReqRec) /\ db \in [Id -> Doc \cup {NoDoc}]
  BY DEF PatchInv, HaTypes
<1>2. ReqGrows /\ req' \in Seq(ReqRec) /\ DOMAIN req' = DOMAIN req /\ Len(req') = Len(req) /\ req'[r] = n
      /\ (\A q \in DOMAIN req : q # r => req'[q] = req[q])
  BY <1>1, GoGrows
<1>3. r \in DOMAIN req /\ req[r] \in ReqRec /\ n \in ReqRec /\ n.id = req[r].id /\ n.op = req[r].op /\ r \in Nat /\ r <= Len(req) /\ r # 0
  BY <1>1, <1>2 DEF GoStep, ReqGrows
<1>4. req[r].id \in Id /\ req[r].doc \in Doc \cup {NoDoc}
  BY <1>3 DEF ReqRec
<1>5. HaTypes'
  <2>1. db' \in [Id -> Doc \cup {NoDoc}]
    BY <1>1, <1>4 DEF GoDb
  <2>2. \A b \in Broker, c \in CacheName : lock'[b][c] <= Len(req')
    <3>1. \A b \in Broker, c \in CacheName : lock[b][c] <= Len(req)
      BY DEF PatchInv, HaTypes
    <3>2. Len(req) \in Nat /\ Len(req') = Len(req) /\ 0 <= Len(req) /\ r <= Len(req)
      BY <1>2, <1>3 DEF ReqGrows
    <3>3. ASSUME NEW b \in Broker, NEW c \in CacheName PROVE lock'[b][c] = lock[b][c] \/ lock'[b][c] \in {0, r}
      BY DEF Free
    <3> QED BY <3>1, <3>2, <3>3
  <2> QED BY <1>2, <2>1, <2>2 DEF HaTypes, PatchInv, CacheType
<1>6. ASSUME NEW q \in DOMAIN req' PROVE (ReqShape(q) /\ ReqLock(q))'
  <2>1. CASE q = r
    BY <2>1
  <2>2. CASE q # r
    <3>1. req'[q] = req[q] /\ q \in DOMAIN req /\ q \in Nat /\ q # Free /\ req[q].at \in Broker
      <4>1. req[q] \in ReqRec /\ req'[q] = req[q] /\ q \in 1..Len(req)
        BY <2>2, <1>1, <1>2 DEF ReqGrows
      <4> QED BY <4>1, <1>2 DEF ReqRec, ReqGrows, Free
    <3>2. \A c \in CacheName : lock[req[q].at][c] = q => lock'[req[q].at][c] = q
      BY <3>1, <2>2
    <3>3. ReqShape(q) /\ ReqLock(q)
      BY <3>1 DEF PatchInv
    <3>4. ReqShape(q)'
      BY <3>1, <3>3 DEF ReqShape
    <3>5. ReqLock(q)'
      BY <3>1, <3>2, <3>3 DEF ReqLock, CacheName
    <3> QED BY <3>4, <3>5
  <2> QED BY <2>1, <2>2
<1>7. Besides'
  <2> SUFFICES ASSUME NEW p \in DOMAIN req, NEW q \in DOMAIN req, p # q, req'[p].id = req'[q].id,
                      req'[p].pc \notin Ended, req'[q].pc \notin Ended
               PROVE  p \in req'[q].beside \/ q \in req'[p].beside
    BY <1>2 DEF Besides
  <2>1. req[p].pc \notin Ended /\ req[q].pc \notin Ended
    BY <1>2 DEF GoStep
  <2> QED BY <2>1, <1>2 DEF Besides, PatchInv, ReqGrows
<1>8. Docs(k0)'
  <2>1. Docs(k0)
    BY DEF PatchInv
  <2>2. ASSUME NEW i \in Id PROVE db'[i] = db[i] \/ db'[i] = NoDoc \/ DocOf(k0, i, db[i])'
    <3>1. CASE db'[i] = req[r].doc /\ req[r].id = i /\ req[r].doc # NoDoc
      <4>1. PICK d : d = req[r].doc
        OBVIOUS
      <4>2. DocOf(k0, i, d)
        BY <4>1, <3>1, <2>1, <1>3 DEF Docs
      <4>3. DocOf(k0, i, d)'
        BY <4>2, <1>2, DocStays
      <4> QED BY <3>1, <4>1, <4>3
    <3> QED BY <3>1, <1>1, <1>4 DEF GoDb
  <2>3. ASSUME NEW q \in DOMAIN req'
        PROVE  (q \in DOMAIN req /\ req'[q].doc = req[q].doc) \/ (req[q].doc # NoDoc => DocOf(k0, req[q].id, req[q].doc))'
    <3>1. CASE q # r \/ n.doc = req[r].doc
      BY <3>1, <1>2
    <3>2. CASE q = r /\ n.doc # req[r].doc
      <4>1. db' = db /\ db[req[r].id] # NoDoc /\ n.doc = [db[req[r].id] EXCEPT !.has = @ \cup {r}] /\ n.op = "patch"
        BY <3>2, <1>2 DEF GoDoc, AtStore
      <4>2. PICK d, i : d = db[req[r].id] /\ i = req[r].id
        OBVIOUS
      <4>3. DocOf(k0, i, d)
        BY <4>1, <4>2, <2>1, <1>4 DEF Docs
      <4>4. r \in 1..Len(req')
        BY <1>2, <1>3 DEF ReqGrows
      <4>5. DocOf(k0, i, [d EXCEPT !.has = @ \cup {r}])'
        BY <4>1, <4>3, <4>4, <1>2, DocPatched
      <4>6. PICK e : e = [d EXCEPT !.has = @ \cup {r}]
        OBVIOUS
      <4>7. DocOf(k0, i, e)'
        BY <4>5, <4>6
      <4> QED BY <3>2, <4>1, <4>2, <4>6, <4>7, <1>2, <1>3
    <3> QED BY <3>1, <3>2
  <2> QED BY <2>1, <2>2, <2>3, <1>2, DocsKeep
<1>9. ASSUME NEW b \in Broker PROVE (CacheDocs(k0, b) /\ ApplyDocs(k0, b))'
  BY <1>2, CachesKeep, ApplyStays DEF PatchInv
<1>10. ASSUME NEW p \in DOMAIN req', Stored(p)', OneBroker(p)' PROVE PatchStands(p)'
  BY <1>10, KeptGoes
<1> QED BY <1>5, <1>6, <1>7, <1>8, <1>9, <1>10 DEF PatchInv

-----------------------------------------------------------------------------
\* Request n is begun
BeginPc == {"cache", "lock", "lockPernot", "drop", "update", "delete", "cacheReg", "updateReg", "dropReg"}
BeginStep(n) ==
  /\ Len(req) < MaxReq /\ req' = Append(req, n) /\ n \in ReqRec
  /\ n.pc \in BeginPc /\ n.beside = InFlight(n.id)

LEMMA BeginGrows ==
  ASSUME req \in Seq(ReqRec), NEW n, BeginStep(n)
  PROVE  /\ ReqGrows /\ req' \in Seq(ReqRec) /\ Len(req') = New /\ DOMAIN req' = DOMAIN req \cup {New} /\ New \notin DOMAIN req
         /\ New \in Nat /\ New # 0 /\ req'[New] = n /\ \A q \in DOMAIN req : req'[q] = req[q]
<1>1. Len(req) \in Nat /\ DOMAIN req = 1..Len(req) /\ req' = Append(req, n) /\ n \in ReqRec /\ New = Len(req) + 1
  BY DEF BeginStep, New
<1>2. req' \in Seq(ReqRec) /\ Len(req') = Len(req) + 1 /\ req'[Len(req) + 1] = n /\ \A q \in 1..Len(req) : req'[q] = req[q]
  BY <1>1, AppendProperties
<1>3. DOMAIN req' = 1..Len(req')
  BY <1>2
<1> QED BY <1>1, <1>2, <1>3 DEF ReqGrows

BeginDb(n) ==
  \/ db' = db
  \/ db' = [db EXCEPT ![n.id] = NoDoc]
  \/ n.op = "post" /\ n.doc = [kind |-> n.kind, has |-> {New}] /\ n.kind \in Kind /\ db' = [db EXCEPT ![n.id] = n.doc]
BeginDoc(n) == n.pc = "updateReg" => db' = db /\ db[n.id] # NoDoc /\ n.op = "patch" /\ n.doc = [db[n.id] EXCEPT !.has = @ \cup {New}]

LEMMA KeptBegins ==
  ASSUME NEW k0, PatchInv(k0), NEW n, BeginStep(n), BeginDb(n), BeginDoc(n),
         NEW p \in DOMAIN req', Stored(p)', OneBroker(p)'
  PROVE  PatchStands(p)'
<1>1. req \in Seq(ReqRec) /\ db \in [Id -> Doc \cup {NoDoc}]
  BY DEF PatchInv, HaTypes
<1>2. /\ ReqGrows /\ Len(req') = New /\ DOMAIN req' = DOMAIN req \cup {New} /\ New \notin DOMAIN req
      /\ New \in Nat /\ New # 0 /\ req'[New] = n /\ \A q \in DOMAIN req : req'[q] = req[q]
  BY <1>1, BeginGrows
<1>3. \A q : q = New => ~Stored(q)'
  <2>1. n.pc \in BeginPc
    BY DEF BeginStep
  <2>2. n.pc \notin {"swap", "swapPernot", "swapReg", "done"}
    BY <2>1 DEF BeginPc
  <2>3. ASSUME NEW q, q = New PROVE ~Stored(q)'
    BY <2>2, <2>3, <1>2 DEF Stored
  <2> QED BY <2>3
<1>4. p \in DOMAIN req /\ req'[p] = req[p] /\ req[p] \in ReqRec /\ n.id \in Id
  <2>1. p # New
    BY <1>3
  <2>2. n \in ReqRec
    BY DEF BeginStep
  <2>3. n.id \in Id
    BY <2>2 DEF ReqRec
  <2> QED BY <2>1, <2>3, <1>1, <1>2
<1>5. OneBroker(p) /\ Stored(p) /\ req[p].id \in Id
  BY <1>2, <1>4 DEF OneBroker, Stored, ReqGrows, ReqRec
<1>6. PatchStands(p) /\ ReqShape(p)
  BY <1>4, <1>5 DEF PatchInv
<1>7. PICK e, i : e = req[p].doc /\ i = req[p].id
  OBVIOUS
<1>8. DocOf(k0, i, e)
  BY <1>4, <1>5, <1>6, <1>7 DEF PatchInv, Docs, ReqShape, Stored
<1>9. New \notin e.has
  BY <1>2, <1>8 DEF DocOf, Doc, New, ReqGrows
<1>10. ASSUME NEW d, SameRecord(d, e)' PROVE SameRecord(d, e)
  <2>1. SameRecord(e, d)'
    BY <1>10 DEF SameRecord
  <2>2. SameRecord(e, d)
    BY <2>1, <1>2, <1>8, SameStays
  <2> QED BY <2>2 DEF SameRecord
<1>11. ASSUME db'[i] # NoDoc, SameRecord(db[i], e)' PROVE p \in db'[i].has
  <2>1. PICK d : d = db'[i]
    OBVIOUS
  <2>2. SameRecord(d, e)
    BY <1>10, <1>11, <2>1
  <2>3. CASE db'[i] = db[i]
    BY <2>1, <2>2, <2>3, <1>6, <1>7, <1>11 DEF PatchStands
  <2>4. CASE db'[i] # db[i]
    <3>1. d = [kind |-> n.kind, has |-> {New}]
      BY <2>1, <2>4, <1>1, <1>4, <1>5, <1>7, <1>11 DEF BeginDb
    <3>2. d.has = {New}
      BY <3>1
    <3> QED BY <3>2, <2>2, <1>9 DEF SameRecord
  <2> QED BY <2>3, <2>4
<1>12. ASSUME NEW q \in DOMAIN req', req'[q].id = i, AtStore(q)', SameRecord(req[q].doc, e)' PROVE p \in req'[q].doc.has
  <2>1. PICK d : d = req'[q].doc
    OBVIOUS
  <2>2. SameRecord(d, e)
    BY <1>10, <1>12, <2>1
  <2>3. CASE q = New
    <3>1. db[i] # NoDoc /\ d = [db[i] EXCEPT !.has = @ \cup {New}]
      BY <2>1, <2>3, <1>2, <1>12 DEF BeginDoc, AtStore, BeginStep, BeginPc
    <3>2. PICK g : g = db[i]
      OBVIOUS
    <3>3. g \in Doc
      BY <3>1, <3>2, <1>1, <1>5, <1>7
    <3>4. d.has = g.has \cup {New}
      BY <3>1, <3>2, <3>3 DEF Doc
    <3>5. SameRecord(g, e)
      BY <2>2, <3>4, <1>9 DEF SameRecord
    <3>6. p \in g.has
      BY <3>1, <3>2, <3>5, <1>6, <1>7 DEF PatchStands
    <3> QED BY <2>1, <3>4, <3>6
  <2>4. CASE q # New
    <3>1. q \in DOMAIN req /\ req'[q] = req[q]
      BY <2>4, <1>2
    <3>2. AtStore(q) /\ req[q].id = i
      BY <3>1, <1>12 DEF AtStore
    <3> QED BY <3>1, <3>2, <2>1, <2>2, <1>6, <1>7 DEF PatchStands
  <2> QED BY <2>3, <2>4
<1> QED BY <1>2, <1>4, <1>7, <1>11, <1>12 DEF PatchStands

LEMMA BeginKeeps ==
  ASSUME NEW k0, PatchInv(k0), NEW n, BeginStep(n), BeginDb(n), BeginDoc(n), CacheStep(k0), cache' \in CacheType,
         UNCHANGED <<apply, phase, open>>,
         \A r \in DOMAIN req' : r \notin DOMAIN req => (ReqShape(r) /\ ReqLock(r))',
         n.doc # NoDoc => DocOf(k0, n.id, n.doc)',
         lock' \in [Broker -> [CacheName -> Nat]],
         \A b \in Broker, c \in CacheName : lock'[b][c] = lock[b][c] \/ (lock[b][c] = Free /\ lock'[b][c] = New),
         stream' \in [Broker -> Seq(EventRec)], missed' \in [Broker -> BOOLEAN]
  PROVE  PatchInv(k0)'
<1>1. req \in Seq(ReqRec) /\ db \in [Id -> Doc \cup {NoDoc}]
  BY DEF PatchInv, HaTypes
<1>2. /\ ReqGrows /\ req' \in Seq(ReqRec) /\ Len(req') = New /\ DOMAIN req' = DOMAIN req \cup {New} /\ New \notin DOMAIN req
      /\ New \in Nat /\ New # 0 /\ req'[New] = n /\ \A q \in DOMAIN req : req'[q] = req[q]
  BY <1>1, BeginGrows
<1>3. n \in ReqRec /\ Len(req) < MaxReq /\ n.beside = InFlight(n.id) /\ n.pc \in BeginPc
  BY DEF BeginStep
<1>4. n.id \in Id /\ n.doc \in Doc \cup {NoDoc} /\ n.beside \subseteq Nat
  BY <1>3 DEF ReqRec
<1>5. HaTypes'
  <2>1. db' \in [Id -> Doc \cup {NoDoc}]
    BY <1>1, <1>4 DEF BeginDb
  <2>2. \A b \in Broker, c \in CacheName : lock'[b][c] <= Len(req')
    <3>1. \A b \in Broker, c \in CacheName : lock[b][c] <= Len(req) /\ lock[b][c] \in Nat
      BY DEF PatchInv, HaTypes
    <3>2. Len(req) \in Nat /\ Len(req') = Len(req) + 1 /\ New = Len(req) + 1
      BY <1>2 DEF ReqGrows, New
    <3>3. ASSUME NEW b \in Broker, NEW c \in CacheName PROVE lock'[b][c] = lock[b][c] \/ lock'[b][c] = New
      OBVIOUS
    <3> QED BY <3>1, <3>2, <3>3
  <2>3. Len(req') <= MaxReq
    BY <1>2, <1>3, HaAssumption DEF ReqGrows, New
  <2> QED BY <1>2, <2>1, <2>2, <2>3 DEF HaTypes, PatchInv, CacheType
<1>6. ASSUME NEW q \in DOMAIN req' PROVE (ReqShape(q) /\ ReqLock(q))'
  <2>1. CASE q \notin DOMAIN req
    BY <2>1
  <2>2. CASE q \in DOMAIN req
    <3>1. req'[q] = req[q] /\ q \in Nat /\ q # Free /\ req[q].at \in Broker
      <4>1. req[q] \in ReqRec /\ req'[q] = req[q] /\ q \in 1..Len(req)
        BY <2>2, <1>1, <1>2 DEF ReqGrows
      <4> QED BY <4>1, <1>2 DEF ReqRec, ReqGrows, Free
    <3>2. \A c \in CacheName : lock[req[q].at][c] = q => lock'[req[q].at][c] = q
      BY <3>1, <2>2
    <3>3. ReqShape(q) /\ ReqLock(q)
      BY <2>2 DEF PatchInv
    <3>4. ReqShape(q)'
      BY <3>1, <3>3 DEF ReqShape
    <3>5. ReqLock(q)'
      BY <3>1, <3>2, <3>3 DEF ReqLock, CacheName
    <3> QED BY <3>4, <3>5
  <2> QED BY <2>1, <2>2
<1>7. Besides'
  <2>1. ASSUME NEW q \in DOMAIN req, req[q].id = n.id, req[q].pc \notin Ended PROVE q \in n.beside
    BY <2>1, <1>3 DEF InFlight
  <2> SUFFICES ASSUME NEW p \in DOMAIN req', NEW q \in DOMAIN req', p # q, req'[p].id = req'[q].id,
                      req'[p].pc \notin Ended, req'[q].pc \notin Ended
               PROVE  p \in req'[q].beside \/ q \in req'[p].beside
    BY DEF Besides
  <2>2. CASE p \in DOMAIN req /\ q \in DOMAIN req
    BY <2>2, <1>2 DEF Besides, PatchInv
  <2>3. CASE p \in DOMAIN req /\ q = New
    BY <2>1, <2>3, <1>2
  <2>4. CASE q \in DOMAIN req /\ p = New
    BY <2>1, <2>4, <1>2
  <2> QED BY <2>2, <2>3, <2>4, <1>2
<1>8. Docs(k0)'
  <2>1. Docs(k0)
    BY DEF PatchInv
  <2>2. ASSUME NEW i \in Id PROVE db'[i] = db[i] \/ db'[i] = NoDoc \/ DocOf(k0, i, db[i])'
    <3>1. CASE db'[i] = n.doc /\ n.id = i /\ n.doc # NoDoc
      <4>1. PICK d : d = n.doc
        OBVIOUS
      <4>2. DocOf(k0, i, d)'
        BY <4>1, <3>1
      <4> QED BY <3>1, <4>1, <4>2
    <3>2. CASE db'[i] = n.doc /\ n.id = i /\ n.doc = NoDoc
      BY <3>2
    <3> QED BY <3>1, <3>2, <1>1, <1>4 DEF BeginDb
  <2>3. ASSUME NEW q \in DOMAIN req'
        PROVE  (q \in DOMAIN req /\ req'[q].doc = req[q].doc) \/ (req[q].doc # NoDoc => DocOf(k0, req[q].id, req[q].doc))'
    <3>1. CASE q \in DOMAIN req
      BY <3>1, <1>2
    <3>2. CASE q \notin DOMAIN req
      <4>1. req'[q] = n
        BY <3>2, <1>2
      <4>2. PICK d, i : d = n.doc /\ i = n.id
        OBVIOUS
      <4>3. d # NoDoc => DocOf(k0, i, d)'
        BY <4>2
      <4> QED BY <4>1, <4>2, <4>3
    <3> QED BY <3>1, <3>2
  <2> QED BY <2>1, <2>2, <2>3, <1>2, DocsKeep
<1>9. ASSUME NEW b \in Broker PROVE (CacheDocs(k0, b) /\ ApplyDocs(k0, b))'
  BY <1>2, CachesKeep, ApplyStays DEF PatchInv
<1>10. ASSUME NEW p \in DOMAIN req', Stored(p)', OneBroker(p)' PROVE PatchStands(p)'
  BY <1>10, KeptBegins
<1> QED BY <1>5, <1>6, <1>7, <1>8, <1>9, <1>10 DEF PatchInv

-----------------------------------------------------------------------------
\* A step of a broker's threads: the requests and the records stay
LEMMA HaThreadKeeps ==
  ASSUME NEW k0, PatchInv(k0), UNCHANGED <<db, req, lock>>, CacheStep(k0), cache' \in CacheType,
         apply' \in [Broker -> ApplyRec], \A b \in Broker : ApplyDocs(k0, b)',
         open' \in [Broker -> BOOLEAN], phase' \in [Broker -> {"start", "subs", "regs", "up"}],
         stream' \in [Broker -> Seq(EventRec)], missed' \in [Broker -> BOOLEAN]
  PROVE  PatchInv(k0)'
<1>1. req \in Seq(ReqRec)
  BY DEF PatchInv, HaTypes
<1>2. ReqGrows
  BY <1>1 DEF ReqGrows
<1>3. HaTypes'
  BY DEF PatchInv, HaTypes, CacheType
<1>4. \A r \in DOMAIN req' : (ReqShape(r) /\ ReqLock(r))'
  BY DEF PatchInv, ReqShape, ReqLock
<1>5. Besides' /\ Docs(k0)'
  BY DEF PatchInv, Besides, Docs, DocOf, Maker, KindOf
<1>6. \A b \in Broker : CacheDocs(k0, b)'
  BY <1>2, CachesKeep DEF PatchInv
<1>7. ASSUME NEW r \in DOMAIN req', Stored(r)', OneBroker(r)' PROVE PatchStands(r)'
  <2>1. PatchStands(r)
    BY <1>7 DEF PatchInv, Stored, OneBroker
  <2> QED BY <2>1 DEF PatchStands, AtStore, SameRecord, Maker
<1> QED BY <1>3, <1>4, <1>5, <1>6, <1>7 DEF PatchInv

-----------------------------------------------------------------------------
\* A request goes on to another point of its handler
GoPc == {"swap", "swapPernot", "swapReg", "swapCsr", "dropPernot", "done", "refused"}
GoesTo(r, pc) ==
  /\ pc \in GoPc /\ Goto(r, pc) /\ req[r].pc \notin Ended
  /\ pc \in {"swap", "swapPernot", "swapReg"} => AtStore(r) /\ db' = [db EXCEPT ![req[r].id] = req[r].doc]
  /\ pc = "swapReg" <=> req[r].pc = "updateReg" /\ pc # "refused"
  /\ pc \in {"swap", "swapReg", "swapCsr"} => lock' = lock
  /\ pc = "swap" => req[r].pc = "replace"
  /\ pc = "swapCsr" => req[r].pc = "update"
  /\ pc = "done" /\ req[r].op = "patch" => req[r].pc \in {"swap", "swapPernot", "swapReg"}

LEMMA GotoKeeps ==
  ASSUME NEW k0, PatchInv(k0), NEW r \in DOMAIN req, NEW pc, GoesTo(r, pc), GoDb(r), CacheStep(k0), cache' \in CacheType,
         UNCHANGED <<apply, phase, open>>, lock' \in [Broker -> [CacheName -> Nat]],
         \A b \in Broker, c \in CacheName : lock'[b][c] = lock[b][c] \/ (lock[b][c] \in {Free, r} /\ lock'[b][c] \in {Free, r}),
         stream' \in [Broker -> Seq(EventRec)], missed' \in [Broker -> BOOLEAN]
  PROVE  PatchInv(k0)'
<1>1. req \in Seq(ReqRec) /\ ReqShape(r) /\ ReqLock(r)
  BY DEF PatchInv, HaTypes
<1>2. PICK n : n = [req[r] EXCEPT !.pc = pc]
  OBVIOUS
<1>3. req[r] \in ReqRec /\ pc \in ReqPc
  BY <1>1 DEF GoesTo, GoPc, ReqPc
<1>4. /\ n \in ReqRec /\ n.pc = pc /\ n.op = req[r].op /\ n.id = req[r].id /\ n.kind = req[r].kind /\ n.at = req[r].at
      /\ n.beside = req[r].beside /\ n.doc = req[r].doc
  BY <1>2, <1>3 DEF ReqRec
<1>5. GoStep(r, n)
  BY <1>2, <1>4 DEF GoStep, GoesTo, Goto
<1>6. req'[r] = n /\ DOMAIN req' = DOMAIN req
  BY <1>1, <1>5, GoGrows
<1>7. ~AtStore(r)' /\ (Stored(r)' => Stored(r) \/ (AtStore(r) /\ db' = [db EXCEPT ![req[r].id] = req[r].doc]))
  BY <1>4, <1>6 DEF AtStore, Stored, GoesTo, GoPc
<1>8. GoDoc(r, n)
  BY <1>1, <1>4, <1>7 DEF GoDoc, AtStore, ReqShape
<1>9. ReqShape(r)'
  BY <1>1, <1>4, <1>6 DEF ReqShape, GoesTo, GoPc, AtStore
<1>10. ReqLock(r)'
  BY <1>1, <1>4, <1>6 DEF ReqLock, GoesTo, GoPc, AtStore
<1> QED BY <1>5, <1>8, <1>9, <1>10, GoKeeps

\* A cache's steps within a request's
LEMMA CacheSame ==
  ASSUME NEW k0, PatchInv(k0), cache' = cache
  PROVE  CacheStep(k0) /\ cache' \in CacheType
BY DEF CacheStep, PatchInv, HaTypes, CacheType

LEMMA CacheDrops ==
  ASSUME NEW k0, PatchInv(k0), NEW b \in Broker, NEW c \in CacheName, NEW i \in Id, ItemRemove(b, c, i)
  PROVE  CacheStep(k0) /\ cache' \in CacheType
<1>1. cache \in CacheType
  BY DEF PatchInv, HaTypes, CacheType
<1> QED BY <1>1, Removed DEF CacheStep

LEMMA CacheGets ==
  ASSUME NEW k0, PatchInv(k0), ReqGrows, NEW b \in Broker, NEW c \in CacheName, NEW i \in Id, NEW d,
         DocOf(k0, i, d), c = "regSub" => d.kind = "csr", ItemAdd(b, c, i, d) \/ ItemSwap(b, c, i, d)
  PROVE  CacheStep(k0) /\ cache' \in CacheType
<1>1. cache \in CacheType /\ d \in Doc /\ DocOf(k0, i, d)'
  BY DocStays DEF PatchInv, HaTypes, CacheType, DocOf
<1>2. /\ cache' \in CacheType
      /\ \A y \in Broker, x \in CacheName, j \in Id : \A e \in Range(cache'[y][x][j]) :
              e \in Range(cache[y][x][j]) \/ (y = b /\ x = c /\ j = i /\ e = d)
  <2>1. CASE ItemAdd(b, c, i, d)
    BY <1>1, <2>1, Added
  <2>2. CASE ItemSwap(b, c, i, d)
    BY <1>1, <2>2, Swapped
  <2> QED BY <2>1, <2>2
<1> QED BY <1>1, <1>2 DEF CacheStep

\* What is known of a request that is about to take a step
LEMMA AtStep ==
  ASSUME NEW k0, PatchInv(k0), NEW r \in DOMAIN req, NEW pc, Goto(r, pc), pc \in ReqPc
  PROVE  /\ ReqGrows /\ req[r] \in ReqRec /\ ReqShape(r) /\ ReqLock(r)
         /\ req[r].id \in Id /\ req[r].at \in Broker /\ req[r].doc \in Doc \cup {NoDoc} /\ req[r].op \in ReqOp
         /\ req[r].doc # NoDoc => req[r].doc \in Doc /\ DocOf(k0, req[r].id, req[r].doc) /\ req[r].doc.kind \in Kind
         /\ lock \in [Broker -> [CacheName -> Nat]] /\ stream \in [Broker -> Seq(EventRec)] /\ missed \in [Broker -> BOOLEAN]
         /\ r \in Nat /\ r # Free
<1>1. req \in Seq(ReqRec) /\ ReqShape(r) /\ ReqLock(r) /\ Docs(k0)
      /\ lock \in [Broker -> [CacheName -> Nat]] /\ stream \in [Broker -> Seq(EventRec)] /\ missed \in [Broker -> BOOLEAN]
  BY DEF PatchInv, HaTypes
<1>2. req[r] \in ReqRec /\ r \in 1..Len(req) /\ Len(req) \in Nat
  BY <1>1
<1>3. req[r].id \in Id /\ req[r].at \in Broker /\ req[r].doc \in Doc \cup {NoDoc} /\ req[r].op \in ReqOp
  BY <1>2 DEF ReqRec
<1>4. [req[r] EXCEPT !.pc = pc] \in ReqRec /\ req' = [req EXCEPT ![r] = [req[r] EXCEPT !.pc = pc]]
  BY <1>2 DEF ReqRec, Goto
<1>5. ReqGrows
  <2>1. req' \in Seq(ReqRec) /\ Len(req') = Len(req) /\ DOMAIN req' = DOMAIN req
    BY <1>1, <1>4, ExceptSeq
  <2>2. req'[r] = [req[r] EXCEPT !.pc = pc] /\ \A q \in DOMAIN req : q # r => req'[q] = req[q]
    BY <1>1, <1>4
  <2>3. \A q \in DOMAIN req : /\ req'[q].op = req[q].op /\ req'[q].kind = req[q].kind /\ req'[q].id = req[q].id
                              /\ req'[q].at = req[q].at /\ req'[q].beside = req[q].beside
    BY <1>2, <2>2 DEF ReqRec
  <2> QED BY <1>1, <2>1, <2>3 DEF ReqGrows
<1>6. req[r].doc # NoDoc => req[r].doc \in Doc /\ DocOf(k0, req[r].id, req[r].doc) /\ req[r].doc.kind \in Kind
  BY <1>1, <1>3 DEF Docs, Doc
<1> QED BY <1>1, <1>2, <1>3, <1>5, <1>6 DEF Free

\* A lock given back by the request that has it, or free
LEMMA Unlocked ==
  ASSUME lock \in [Broker -> [CacheName -> Nat]], NEW b \in Broker, NEW c \in CacheName, NEW r, lock[b][c] \in {Free, r}, Unlock(b, c)
  PROVE  /\ lock' \in [Broker -> [CacheName -> Nat]]
         /\ \A y \in Broker, x \in CacheName : lock'[y][x] = lock[y][x] \/ (lock[y][x] \in {Free, r} /\ lock'[y][x] \in {Free, r})
BY DEF Unlock, Free

LEMMA LocksTyped ==
  ASSUME lock \in [Broker -> [CacheName -> Nat]], NEW b \in Broker, NEW c \in CacheName, NEW r \in Nat, Lock(b, c, r)
  PROVE  /\ lock' \in [Broker -> [CacheName -> Nat]] /\ lock[b][c] = Free /\ lock'[b][c] = r
         /\ \A y \in Broker, x \in CacheName : lock'[y][x] = lock[y][x] \/ (lock[y][x] = Free /\ lock'[y][x] = r)
BY DEF Lock, Free

-----------------------------------------------------------------------------
(* Caches: the actions of requests *)

LEMMA PostSubscriptionCachedKeeps ==
  ASSUME NEW k0, PatchInv(k0), NEW r \in DOMAIN req, PostSubscriptionCached(r)
  PROVE  PatchInv(k0)'
<1>1. /\ ReqGrows /\ req[r] \in ReqRec /\ ReqShape(r) /\ ReqLock(r)
      /\ req[r].id \in Id /\ req[r].at \in Broker /\ req[r].doc \in Doc \cup {NoDoc} /\ req[r].op \in ReqOp
      /\ req[r].doc # NoDoc => req[r].doc \in Doc /\ DocOf(k0, req[r].id, req[r].doc) /\ req[r].doc.kind \in Kind
      /\ lock \in [Broker -> [CacheName -> Nat]] /\ stream \in [Broker -> Seq(EventRec)] /\ missed \in [Broker -> BOOLEAN]
      /\ r \in Nat /\ r # Free
  <2>1. Goto(r, "done") /\ "done" \in ReqPc
    BY DEF PostSubscriptionCached, ReqPc
  <2> QED BY <2>1, AtStep
<1>2. PICK b, i, d : b = req[r].at /\ i = req[r].id /\ d = req[r].doc
  OBVIOUS
<1>3. PICK c : c = TenantSubCacheItemKind[d.kind]
  OBVIOUS
<1>4. req[r].pc = "cache" /\ d # NoDoc /\ req[r].op = "post"
  BY <1>1, <1>2 DEF PostSubscriptionCached, ReqShape
<1>5. c \in CacheName /\ (c = "regSub" => d.kind = "csr") /\ ItemAdd(b, c, i, d)
  BY <1>2, <1>3 DEF PostSubscriptionCached, TenantSubCacheItemKind, CacheName
<1>6. CacheStep(k0) /\ cache' \in CacheType
  BY <1>1, <1>2, <1>4, <1>5, CacheGets
<1>7. GoesTo(r, "done") /\ GoDb(r)
  BY <1>4 DEF PostSubscriptionCached, GoesTo, GoPc, Ended, GoDb
<1> QED BY <1>1, <1>6, <1>7, GotoKeeps DEF PostSubscriptionCached

LEMMA PostCsourceSubscriptionCachedKeeps ==
  ASSUME NEW k0, PatchInv(k0), NEW r \in DOMAIN req, PostCsourceSubscriptionCached(r)
  PROVE  PatchInv(k0)'
<1>1. /\ ReqGrows /\ req[r] \in ReqRec /\ ReqShape(r) /\ ReqLock(r)
      /\ req[r].id \in Id /\ req[r].at \in Broker /\ req[r].doc \in Doc \cup {NoDoc} /\ req[r].op \in ReqOp
      /\ req[r].doc # NoDoc => req[r].doc \in Doc /\ DocOf(k0, req[r].id, req[r].doc) /\ req[r].doc.kind \in Kind
      /\ lock \in [Broker -> [CacheName -> Nat]] /\ stream \in [Broker -> Seq(EventRec)] /\ missed \in [Broker -> BOOLEAN]
      /\ r \in Nat /\ r # Free
  <2>1. Goto(r, "done") /\ "done" \in ReqPc
    BY DEF PostCsourceSubscriptionCached, ReqPc
  <2> QED BY <2>1, AtStep
<1>2. PICK b, i, d : b = req[r].at /\ i = req[r].id /\ d = req[r].doc
  OBVIOUS
<1>3. PICK c : c = TenantSubCacheItemKind[d.kind]
  OBVIOUS
<1>4. req[r].pc = "cache" /\ d # NoDoc /\ req[r].op = "post"
  BY <1>1, <1>2 DEF PostCsourceSubscriptionCached, ReqShape
<1>5. c \in CacheName /\ (c = "regSub" => d.kind = "csr") /\ ItemAdd(b, c, i, d)
  BY <1>2, <1>3 DEF PostCsourceSubscriptionCached, TenantSubCacheItemKind, CacheName
<1>6. CacheStep(k0) /\ cache' \in CacheType
  BY <1>1, <1>2, <1>4, <1>5, CacheGets
<1>7. GoesTo(r, "done") /\ GoDb(r)
  BY <1>4 DEF PostCsourceSubscriptionCached, GoesTo, GoPc, Ended, GoDb
<1> QED BY <1>1, <1>6, <1>7, GotoKeeps DEF PostCsourceSubscriptionCached

LEMMA PatchCsourceSubscriptionSwapKeeps ==
  ASSUME NEW k0, PatchInv(k0), NEW r \in DOMAIN req, PatchCsourceSubscriptionSwap(r)
  PROVE  PatchInv(k0)'
<1>1. /\ ReqGrows /\ req[r] \in ReqRec /\ ReqShape(r) /\ ReqLock(r)
      /\ req[r].id \in Id /\ req[r].at \in Broker /\ req[r].doc \in Doc \cup {NoDoc} /\ req[r].op \in ReqOp
      /\ req[r].doc # NoDoc => req[r].doc \in Doc /\ DocOf(k0, req[r].id, req[r].doc) /\ req[r].doc.kind \in Kind
      /\ lock \in [Broker -> [CacheName -> Nat]] /\ stream \in [Broker -> Seq(EventRec)] /\ missed \in [Broker -> BOOLEAN]
      /\ r \in Nat /\ r # Free
  <2>1. Goto(r, "done") /\ "done" \in ReqPc
    BY DEF PatchCsourceSubscriptionSwap, ReqPc
  <2> QED BY <2>1, AtStep
<1>2. PICK b, i, d : b = req[r].at /\ i = req[r].id /\ d = req[r].doc
  OBVIOUS
<1>3. req[r].pc = "swapCsr" /\ d # NoDoc /\ lock[b]["regSub"] \in {Free, r}
  BY <1>1, <1>2 DEF PatchCsourceSubscriptionSwap, ReqShape, ReqLock
<1>4. "regSub" \in CacheName /\ ItemSwap(b, "regSub", i, d) /\ Unlock(b, "regSub") /\ ("regSub" = "regSub" => d.kind = "csr")
  BY <1>1, <1>2, <1>3 DEF PatchCsourceSubscriptionSwap, ReqShape, CacheName
<1>5. CacheStep(k0) /\ cache' \in CacheType
  BY <1>1, <1>2, <1>3, <1>4, CacheGets
<1>6. /\ lock' \in [Broker -> [CacheName -> Nat]]
      /\ \A y \in Broker, x \in CacheName : lock'[y][x] = lock[y][x] \/ (lock[y][x] \in {Free, r} /\ lock'[y][x] \in {Free, r})
  BY <1>1, <1>2, <1>3, <1>4 DEF Unlock, Free
<1>7. GoesTo(r, "done") /\ GoDb(r)
  BY <1>1, <1>3 DEF PatchCsourceSubscriptionSwap, GoesTo, GoPc, Ended, GoDb, ReqShape
<1> QED BY <1>1, <1>5, <1>6, <1>7, GotoKeeps DEF PatchCsourceSubscriptionSwap

LEMMA PostCsourceRegistrationCachedKeeps ==
  ASSUME NEW k0, PatchInv(k0), NEW r \in DOMAIN req, PostCsourceRegistrationCached(r)
  PROVE  PatchInv(k0)'
<1>1. /\ ReqGrows /\ req[r] \in ReqRec /\ ReqShape(r) /\ ReqLock(r)
      /\ req[r].id \in Id /\ req[r].at \in Broker /\ req[r].doc \in Doc \cup {NoDoc} /\ req[r].op \in ReqOp
      /\ req[r].doc # NoDoc => req[r].doc \in Doc /\ DocOf(k0, req[r].id, req[r].doc) /\ req[r].doc.kind \in Kind
      /\ lock \in [Broker -> [CacheName -> Nat]] /\ stream \in [Broker -> Seq(EventRec)] /\ missed \in [Broker -> BOOLEAN]
      /\ r \in Nat /\ r # Free
  <2>1. Goto(r, "done") /\ "done" \in ReqPc
    BY DEF PostCsourceRegistrationCached, ReqPc
  <2> QED BY <2>1, AtStep
<1>2. PICK b, i, d : b = req[r].at /\ i = req[r].id /\ d = req[r].doc
  OBVIOUS
<1>3. req[r].pc = "cacheReg" /\ d # NoDoc /\ lock[b]["reg"] \in {Free, r}
  BY <1>1, <1>2 DEF PostCsourceRegistrationCached, ReqShape, ReqLock
<1>4. "reg" \in CacheName /\ ItemAdd(b, "reg", i, d) /\ Unlock(b, "reg") /\ ("reg" = "regSub" => d.kind = "csr")
  BY <1>1, <1>2, <1>3 DEF PostCsourceRegistrationCached, ReqShape, CacheName
<1>5. CacheStep(k0) /\ cache' \in CacheType
  BY <1>1, <1>2, <1>3, <1>4, CacheGets
<1>6. /\ lock' \in [Broker -> [CacheName -> Nat]]
      /\ \A y \in Broker, x \in CacheName : lock'[y][x] = lock[y][x] \/ (lock[y][x] \in {Free, r} /\ lock'[y][x] \in {Free, r})
  BY <1>1, <1>2, <1>3, <1>4 DEF Unlock, Free
<1>7. GoesTo(r, "done") /\ GoDb(r)
  BY <1>1, <1>3 DEF PostCsourceRegistrationCached, GoesTo, GoPc, Ended, GoDb, ReqShape
<1> QED BY <1>1, <1>5, <1>6, <1>7, GotoKeeps DEF PostCsourceRegistrationCached

LEMMA PatchCsourceRegistrationSwapKeeps ==
  ASSUME NEW k0, PatchInv(k0), NEW r \in DOMAIN req, PatchCsourceRegistrationSwap(r)
  PROVE  PatchInv(k0)'
<1>1. /\ ReqGrows /\ req[r] \in ReqRec /\ ReqShape(r) /\ ReqLock(r)
      /\ req[r].id \in Id /\ req[r].at \in Broker /\ req[r].doc \in Doc \cup {NoDoc} /\ req[r].op \in ReqOp
      /\ req[r].doc # NoDoc => req[r].doc \in Doc /\ DocOf(k0, req[r].id, req[r].doc) /\ req[r].doc.kind \in Kind
      /\ lock \in [Broker -> [CacheName -> Nat]] /\ stream \in [Broker -> Seq(EventRec)] /\ missed \in [Broker -> BOOLEAN]
      /\ r \in Nat /\ r # Free
  <2>1. Goto(r, "done") /\ "done" \in ReqPc
    BY DEF PatchCsourceRegistrationSwap, ReqPc
  <2> QED BY <2>1, AtStep
<1>2. PICK b, i, d : b = req[r].at /\ i = req[r].id /\ d = req[r].doc
  OBVIOUS
<1>3. req[r].pc = "swapReg" /\ d # NoDoc /\ lock[b]["reg"] \in {Free, r}
  BY <1>1, <1>2 DEF PatchCsourceRegistrationSwap, ReqShape, ReqLock
<1>4. "reg" \in CacheName /\ ItemSwap(b, "reg", i, d) /\ Unlock(b, "reg") /\ ("reg" = "regSub" => d.kind = "csr")
  BY <1>1, <1>2, <1>3 DEF PatchCsourceRegistrationSwap, ReqShape, CacheName
<1>5. CacheStep(k0) /\ cache' \in CacheType
  BY <1>1, <1>2, <1>3, <1>4, CacheGets
<1>6. /\ lock' \in [Broker -> [CacheName -> Nat]]
      /\ \A y \in Broker, x \in CacheName : lock'[y][x] = lock[y][x] \/ (lock[y][x] \in {Free, r} /\ lock'[y][x] \in {Free, r})
  BY <1>1, <1>2, <1>3, <1>4 DEF Unlock, Free
<1>7. GoesTo(r, "done") /\ GoDb(r)
  BY <1>1, <1>3 DEF PatchCsourceRegistrationSwap, GoesTo, GoPc, Ended, GoDb, ReqShape
<1> QED BY <1>1, <1>5, <1>6, <1>7, GotoKeeps DEF PatchCsourceRegistrationSwap

LEMMA PatchSubscriptionSwapKeeps ==
  ASSUME NEW k0, PatchInv(k0), NEW r \in DOMAIN req, PatchSubscriptionSwap(r)
  PROVE  PatchInv(k0)'
<1>1. /\ ReqGrows /\ req[r] \in ReqRec /\ ReqShape(r) /\ ReqLock(r)
      /\ req[r].id \in Id /\ req[r].at \in Broker /\ req[r].doc \in Doc \cup {NoDoc} /\ req[r].op \in ReqOp
      /\ req[r].doc # NoDoc => req[r].doc \in Doc /\ DocOf(k0, req[r].id, req[r].doc) /\ req[r].doc.kind \in Kind
      /\ lock \in [Broker -> [CacheName -> Nat]] /\ stream \in [Broker -> Seq(EventRec)] /\ missed \in [Broker -> BOOLEAN]
      /\ r \in Nat /\ r # Free
  <2>1. Goto(r, "done") /\ "done" \in ReqPc
    BY DEF PatchSubscriptionSwap, ReqPc
  <2> QED BY <2>1, AtStep
<1>2. PICK b, i, d : b = req[r].at /\ i = req[r].id /\ d = req[r].doc
  OBVIOUS
<1>3. req[r].pc \in {"swap", "swapPernot"} /\ d # NoDoc
  BY <1>1, <1>2 DEF PatchSubscriptionSwap, ReqShape
<1>4. GoesTo(r, "done") /\ GoDb(r)
  BY <1>3 DEF PatchSubscriptionSwap, GoesTo, GoPc, Ended, GoDb
<1>5. CASE req[r].pc = "swap"
  <2>1. lock[b]["sub"] \in {Free, r} /\ "sub" \in CacheName /\ ItemSwap(b, "sub", i, d) /\ Unlock(b, "sub")
    BY <1>1, <1>2, <1>5 DEF PatchSubscriptionSwap, ReqLock, CacheName
  <2>2. CacheStep(k0) /\ cache' \in CacheType
    BY <1>1, <1>2, <1>3, <2>1, CacheGets
  <2>3. /\ lock' \in [Broker -> [CacheName -> Nat]]
        /\ \A y \in Broker, x \in CacheName : lock'[y][x] = lock[y][x] \/ (lock[y][x] \in {Free, r} /\ lock'[y][x] \in {Free, r})
    BY <1>1, <1>2, <2>1 DEF Unlock, Free
  <2> QED BY <1>1, <1>4, <2>2, <2>3, GotoKeeps DEF PatchSubscriptionSwap
<1>6. CASE req[r].pc = "swapPernot"
  <2>1. "pernot" \in CacheName /\ ItemSwap(b, "pernot", i, d) /\ lock' = lock
    BY <1>1, <1>2, <1>6 DEF PatchSubscriptionSwap, CacheName
  <2>2. CacheStep(k0) /\ cache' \in CacheType
    BY <1>1, <1>2, <1>3, <2>1, CacheGets
  <2> QED BY <1>1, <1>4, <2>1, <2>2, GotoKeeps DEF PatchSubscriptionSwap
<1> QED BY <1>3, <1>5, <1>6

LEMMA DeleteCsourceRegistrationDropKeeps ==
  ASSUME NEW k0, PatchInv(k0), NEW r \in DOMAIN req, DeleteCsourceRegistrationDrop(r)
  PROVE  PatchInv(k0)'
<1>1. /\ ReqGrows /\ req[r] \in ReqRec /\ ReqShape(r) /\ ReqLock(r)
      /\ req[r].id \in Id /\ req[r].at \in Broker /\ req[r].doc \in Doc \cup {NoDoc} /\ req[r].op \in ReqOp
      /\ req[r].doc # NoDoc => req[r].doc \in Doc /\ DocOf(k0, req[r].id, req[r].doc) /\ req[r].doc.kind \in Kind
      /\ lock \in [Broker -> [CacheName -> Nat]] /\ stream \in [Broker -> Seq(EventRec)] /\ missed \in [Broker -> BOOLEAN]
      /\ r \in Nat /\ r # Free
  <2>1. Goto(r, "done") /\ "done" \in ReqPc
    BY DEF DeleteCsourceRegistrationDrop, ReqPc
  <2> QED BY <2>1, AtStep
<1>2. PICK b, i, d : b = req[r].at /\ i = req[r].id /\ d = req[r].doc
  OBVIOUS
<1>3. req[r].pc = "dropReg" /\ req[r].op # "patch" /\ "reg" \in CacheName /\ ItemRemove(b, "reg", i)
  BY <1>1, <1>2 DEF DeleteCsourceRegistrationDrop, ReqShape, CacheName
<1>4. CacheStep(k0) /\ cache' \in CacheType
  BY <1>1, <1>2, <1>3, CacheDrops
<1>5. GoesTo(r, "done") /\ GoDb(r)
  BY <1>3 DEF DeleteCsourceRegistrationDrop, GoesTo, GoPc, Ended, GoDb
<1> QED BY <1>1, <1>4, <1>5, GotoKeeps DEF DeleteCsourceRegistrationDrop

LEMMA DeleteSubscriptionDropKeeps ==
  ASSUME NEW k0, PatchInv(k0), NEW r \in DOMAIN req, DeleteSubscriptionDrop(r)
  PROVE  PatchInv(k0)'
<1>0. PICK pc \in {"dropPernot", "done"}, c \in {"sub", "pernot"} :
        /\ Goto(r, pc) /\ req[r].pc \in {"drop", "dropPernot"} /\ req[r].op = "delete"
        /\ ItemRemove(req[r].at, c, req[r].id) /\ UNCHANGED <<db, lock, stream, open, phase, apply, missed>>
  BY DEF DeleteSubscriptionDrop
<1>1. /\ ReqGrows /\ req[r] \in ReqRec /\ ReqShape(r) /\ ReqLock(r)
      /\ req[r].id \in Id /\ req[r].at \in Broker /\ req[r].doc \in Doc \cup {NoDoc} /\ req[r].op \in ReqOp
      /\ req[r].doc # NoDoc => req[r].doc \in Doc /\ DocOf(k0, req[r].id, req[r].doc) /\ req[r].doc.kind \in Kind
      /\ lock \in [Broker -> [CacheName -> Nat]] /\ stream \in [Broker -> Seq(EventRec)] /\ missed \in [Broker -> BOOLEAN]
      /\ r \in Nat /\ r # Free
  <2>1. Goto(r, pc) /\ pc \in ReqPc
    BY <1>0 DEF ReqPc
  <2> QED BY <2>1, AtStep
<1>2. PICK b, i, d : b = req[r].at /\ i = req[r].id /\ d = req[r].doc
  OBVIOUS
<1>3. CacheStep(k0) /\ cache' \in CacheType
  <2>1. c \in CacheName
    BY DEF CacheName
  <2> QED BY <1>0, <1>1, <1>2, <2>1, CacheDrops
<1>4. GoesTo(r, pc) /\ GoDb(r)
  BY <1>0 DEF GoesTo, GoPc, Ended, GoDb
<1> QED BY <1>0, <1>1, <1>3, <1>4, GotoKeeps

LEMMA DeleteCsourceSubscriptionStoredKeeps ==
  ASSUME NEW k0, PatchInv(k0), NEW r \in DOMAIN req, DeleteCsourceSubscriptionStored(r)
  PROVE  PatchInv(k0)'
<1>1. /\ ReqGrows /\ req[r] \in ReqRec /\ ReqShape(r) /\ ReqLock(r)
      /\ req[r].id \in Id /\ req[r].at \in Broker /\ req[r].doc \in Doc \cup {NoDoc} /\ req[r].op \in ReqOp
      /\ req[r].doc # NoDoc => req[r].doc \in Doc /\ DocOf(k0, req[r].id, req[r].doc) /\ req[r].doc.kind \in Kind
      /\ lock \in [Broker -> [CacheName -> Nat]] /\ stream \in [Broker -> Seq(EventRec)] /\ missed \in [Broker -> BOOLEAN]
      /\ r \in Nat /\ r # Free
  <2>1. Goto(r, "done") /\ "done" \in ReqPc
    BY DEF DeleteCsourceSubscriptionStored, ReqPc
  <2> QED BY <2>1, AtStep
<1>2. PICK b, i, d : b = req[r].at /\ i = req[r].id /\ d = req[r].doc
  OBVIOUS
<1>3. req[r].pc = "delete" /\ req[r].op = "deleteCsr" /\ UNCHANGED <<cache, lock, open, phase, apply>>
  BY DEF DeleteCsourceSubscriptionStored
<1>4. CacheStep(k0) /\ cache' \in CacheType
  BY <1>3, CacheSame
<1>5. (db' = db /\ UNCHANGED <<stream, missed>>) \/ (db' = [db EXCEPT ![i] = NoDoc] /\ Publish(i, "delete"))
  BY <1>2 DEF DeleteCsourceSubscriptionStored, SubscriptionDelete
<1>6. stream' \in [Broker -> Seq(EventRec)] /\ missed' \in [Broker -> BOOLEAN]
  BY <1>1, <1>2, <1>5, Published DEF PatchInv
<1>7. GoesTo(r, "done") /\ GoDb(r)
  BY <1>2, <1>3, <1>5 DEF DeleteCsourceSubscriptionStored, GoesTo, GoPc, Ended, GoDb
<1> QED BY <1>1, <1>3, <1>4, <1>6, <1>7, GotoKeeps

LEMMA PatchSubscriptionReplaceKeeps ==
  ASSUME NEW k0, PatchInv(k0), NEW r \in DOMAIN req, PatchSubscriptionReplace(r)
  PROVE  PatchInv(k0)'
<1>0. PICK pc : /\ Goto(r, pc) /\ pc \in {"swap", "swapPernot", "refused"}
               /\ \/ pc # "refused" /\ SubscriptionReplace(req[r].id, req[r].doc) /\ (pc = "swap" <=> req[r].pc = "replace") /\ IF req[r].pc = "replace" THEN lock' = lock ELSE Unlock(req[r].at, "sub")
                  \/ pc = "refused" /\ Unlock(req[r].at, "sub") /\ UNCHANGED <<db, stream, missed>>
  BY DEF PatchSubscriptionReplace
<1>1. /\ ReqGrows /\ req[r] \in ReqRec /\ ReqShape(r) /\ ReqLock(r)
      /\ req[r].id \in Id /\ req[r].at \in Broker /\ req[r].doc \in Doc \cup {NoDoc} /\ req[r].op \in ReqOp
      /\ req[r].doc # NoDoc => req[r].doc \in Doc /\ DocOf(k0, req[r].id, req[r].doc) /\ req[r].doc.kind \in Kind
      /\ lock \in [Broker -> [CacheName -> Nat]] /\ stream \in [Broker -> Seq(EventRec)] /\ missed \in [Broker -> BOOLEAN]
      /\ r \in Nat /\ r # Free
  <2>1. Goto(r, pc) /\ pc \in ReqPc
    BY <1>0 DEF ReqPc
  <2> QED BY <2>1, AtStep
<1>2. PICK b, i, d : b = req[r].at /\ i = req[r].id /\ d = req[r].doc
  OBVIOUS

<1>3. /\ req[r].pc \in {"replace", "replacePernot"} /\ req[r].op = "patch" /\ d # NoDoc /\ lock[b]["sub"] \in {Free, r}
      /\ UNCHANGED <<cache, open, phase, apply>>
  BY <1>1, <1>2 DEF PatchSubscriptionReplace, ReqShape, ReqLock
<1>4. CacheStep(k0) /\ cache' \in CacheType
  BY <1>3, CacheSame
<1>5. (db' = db /\ UNCHANGED <<stream, missed>>) \/ (db' = [db EXCEPT ![i] = d] /\ Publish(i, "upsert") /\ pc # "refused")
  BY <1>0, <1>2 DEF SubscriptionReplace, RegistrationUpdate, SubscriptionUpdate
<1>6. stream' \in [Broker -> Seq(EventRec)] /\ missed' \in [Broker -> BOOLEAN]
  BY <1>1, <1>2, <1>5, Published DEF PatchInv
<1>7. /\ lock' \in [Broker -> [CacheName -> Nat]]
      /\ \A y \in Broker, x \in CacheName : lock'[y][x] = lock[y][x] \/ (lock[y][x] \in {Free, r} /\ lock'[y][x] \in {Free, r})
  <2>1. CASE lock' = lock
    BY <2>1, <1>1
  <2>2. CASE Unlock(b, "sub")
    BY <2>2, <1>1, <1>2, <1>3 DEF Unlock, Free
  <2> QED BY <2>1, <2>2, <1>0, <1>2
<1>8. GoesTo(r, pc) /\ GoDb(r)
  BY <1>0, <1>2, <1>3 DEF SubscriptionReplace, GoesTo, GoPc, Ended, GoDb, AtStore
<1> QED BY <1>0, <1>1, <1>3, <1>4, <1>6, <1>7, <1>8, GotoKeeps

LEMMA PatchCsourceRegistrationUpdateKeeps ==
  ASSUME NEW k0, PatchInv(k0), NEW r \in DOMAIN req, PatchCsourceRegistrationUpdate(r)
  PROVE  PatchInv(k0)'
<1>0. PICK pc : /\ Goto(r, pc) /\ pc \in {"swapReg", "refused"}
               /\ \/ pc # "refused" /\ RegistrationUpdate(req[r].id, req[r].doc) /\ lock' = lock
                  \/ pc = "refused" /\ Unlock(req[r].at, "reg") /\ UNCHANGED <<db, stream, missed>>
  BY DEF PatchCsourceRegistrationUpdate
<1>1. /\ ReqGrows /\ req[r] \in ReqRec /\ ReqShape(r) /\ ReqLock(r)
      /\ req[r].id \in Id /\ req[r].at \in Broker /\ req[r].doc \in Doc \cup {NoDoc} /\ req[r].op \in ReqOp
      /\ req[r].doc # NoDoc => req[r].doc \in Doc /\ DocOf(k0, req[r].id, req[r].doc) /\ req[r].doc.kind \in Kind
      /\ lock \in [Broker -> [CacheName -> Nat]] /\ stream \in [Broker -> Seq(EventRec)] /\ missed \in [Broker -> BOOLEAN]
      /\ r \in Nat /\ r # Free
  <2>1. Goto(r, pc) /\ pc \in ReqPc
    BY <1>0 DEF ReqPc
  <2> QED BY <2>1, AtStep
<1>2. PICK b, i, d : b = req[r].at /\ i = req[r].id /\ d = req[r].doc
  OBVIOUS

<1>3. /\ req[r].pc = "updateReg" /\ req[r].op = "patch" /\ d # NoDoc /\ lock[b]["reg"] \in {Free, r}
      /\ UNCHANGED <<cache, open, phase, apply>>
  BY <1>1, <1>2 DEF PatchCsourceRegistrationUpdate, ReqShape, ReqLock
<1>4. CacheStep(k0) /\ cache' \in CacheType
  BY <1>3, CacheSame
<1>5. (db' = db /\ UNCHANGED <<stream, missed>>) \/ (db' = [db EXCEPT ![i] = d] /\ Publish(i, "upsert") /\ pc # "refused")
  BY <1>0, <1>2 DEF SubscriptionReplace, RegistrationUpdate, SubscriptionUpdate
<1>6. stream' \in [Broker -> Seq(EventRec)] /\ missed' \in [Broker -> BOOLEAN]
  BY <1>1, <1>2, <1>5, Published DEF PatchInv
<1>7. /\ lock' \in [Broker -> [CacheName -> Nat]]
      /\ \A y \in Broker, x \in CacheName : lock'[y][x] = lock[y][x] \/ (lock[y][x] \in {Free, r} /\ lock'[y][x] \in {Free, r})
  <2>1. CASE lock' = lock
    BY <2>1, <1>1
  <2>2. CASE Unlock(b, "reg")
    BY <2>2, <1>1, <1>2, <1>3 DEF Unlock, Free
  <2> QED BY <2>1, <2>2, <1>0, <1>2
<1>8. GoesTo(r, pc) /\ GoDb(r)
  BY <1>0, <1>2, <1>3 DEF RegistrationUpdate, GoesTo, GoPc, Ended, GoDb, AtStore
<1> QED BY <1>0, <1>1, <1>3, <1>4, <1>6, <1>7, <1>8, GotoKeeps

LEMMA PatchCsourceSubscriptionUpdateKeeps ==
  ASSUME NEW k0, PatchInv(k0), NEW r \in DOMAIN req, PatchCsourceSubscriptionUpdate(r)
  PROVE  PatchInv(k0)'
<1>0. PICK pc : /\ Goto(r, pc) /\ pc \in {"swapCsr", "refused"}
               /\ \/ pc # "refused" /\ SubscriptionUpdate(req[r].id, req[r].doc) /\ lock' = lock
                  \/ pc = "refused" /\ Unlock(req[r].at, "regSub") /\ UNCHANGED <<db, stream, missed>>
  BY DEF PatchCsourceSubscriptionUpdate
<1>1. /\ ReqGrows /\ req[r] \in ReqRec /\ ReqShape(r) /\ ReqLock(r)
      /\ req[r].id \in Id /\ req[r].at \in Broker /\ req[r].doc \in Doc \cup {NoDoc} /\ req[r].op \in ReqOp
      /\ req[r].doc # NoDoc => req[r].doc \in Doc /\ DocOf(k0, req[r].id, req[r].doc) /\ req[r].doc.kind \in Kind
      /\ lock \in [Broker -> [CacheName -> Nat]] /\ stream \in [Broker -> Seq(EventRec)] /\ missed \in [Broker -> BOOLEAN]
      /\ r \in Nat /\ r # Free
  <2>1. Goto(r, pc) /\ pc \in ReqPc
    BY <1>0 DEF ReqPc
  <2> QED BY <2>1, AtStep
<1>2. PICK b, i, d : b = req[r].at /\ i = req[r].id /\ d = req[r].doc
  OBVIOUS

<1>3. /\ req[r].pc = "update" /\ req[r].op = "patchCsr" /\ d # NoDoc /\ d.kind = "csr" /\ lock[b]["regSub"] \in {Free, r}
      /\ UNCHANGED <<cache, open, phase, apply>>
  BY <1>1, <1>2 DEF PatchCsourceSubscriptionUpdate, ReqShape, ReqLock
<1>4. CacheStep(k0) /\ cache' \in CacheType
  BY <1>3, CacheSame
<1>5. (db' = db /\ UNCHANGED <<stream, missed>>) \/ (db' = [db EXCEPT ![i] = d] /\ Publish(i, "upsert") /\ pc # "refused")
  BY <1>0, <1>2 DEF SubscriptionReplace, RegistrationUpdate, SubscriptionUpdate
<1>6. stream' \in [Broker -> Seq(EventRec)] /\ missed' \in [Broker -> BOOLEAN]
  BY <1>1, <1>2, <1>5, Published DEF PatchInv
<1>7. /\ lock' \in [Broker -> [CacheName -> Nat]]
      /\ \A y \in Broker, x \in CacheName : lock'[y][x] = lock[y][x] \/ (lock[y][x] \in {Free, r} /\ lock'[y][x] \in {Free, r})
  <2>1. CASE lock' = lock
    BY <2>1, <1>1
  <2>2. CASE Unlock(b, "regSub")
    BY <2>2, <1>1, <1>2, <1>3 DEF Unlock, Free
  <2> QED BY <2>1, <2>2, <1>0, <1>2
<1>8. GoesTo(r, pc) /\ GoDb(r)
  BY <1>0, <1>2, <1>3, <1>5 DEF GoesTo, GoPc, Ended, GoDb, AtStore
<1> QED BY <1>0, <1>1, <1>3, <1>4, <1>6, <1>7, <1>8, GotoKeeps

-----------------------------------------------------------------------------
LEMMA PatchSubscriptionRetrieveKeeps ==
  ASSUME NEW k0, PatchInv(k0), NEW r \in DOMAIN req, PatchSubscriptionRetrieve(r)
  PROVE  PatchInv(k0)'
<1>1. /\ req \in Seq(ReqRec) /\ ReqShape(r) /\ ReqLock(r) /\ db \in [Id -> Doc \cup {NoDoc}] /\ Docs(k0)
      /\ lock \in [Broker -> [CacheName -> Nat]] /\ stream \in [Broker -> Seq(EventRec)] /\ missed \in [Broker -> BOOLEAN]
  BY DEF PatchInv, HaTypes
<1>2. req[r] \in ReqRec /\ r \in 1..Len(req) /\ Len(req) \in Nat
  BY <1>1
<1>3. req[r].id \in Id /\ req[r].id \in SubId /\ req[r].at \in Broker /\ req[r].pc \in {"lock", "lockPernot"} /\ req[r].op = "patch"
      /\ r \in Nat /\ r # Free /\ "sub" \in CacheName
  BY <1>1, <1>2 DEF PatchSubscriptionRetrieve, ReqRec, ReqShape, Free, CacheName
<1>4. PICK b, i, g : b = req[r].at /\ i = req[r].id /\ g = db[i]
  OBVIOUS
<1>5. CacheStep(k0) /\ cache' \in CacheType /\ UNCHANGED <<db, stream, open, phase, apply, missed>>
  BY CacheSame DEF PatchSubscriptionRetrieve
<1>6. GoDb(r)
  BY <1>5 DEF GoDb
<1>7. CASE Goto(r, "refused") /\ UNCHANGED lock
  <2>1. GoesTo(r, "refused")
    BY <1>3, <1>7 DEF GoesTo, GoPc, Ended
  <2> QED BY <1>1, <1>5, <1>6, <1>7, <2>1, GotoKeeps
<1>8. CASE /\ db[i] # NoDoc /\ Lock(b, "sub", r)
           /\ req' = [req EXCEPT ![r].doc = [db[i] EXCEPT !.has = @ \cup {r}],
                                 ![r].pc = IF req[r].pc = "lock" THEN "replace" ELSE "replacePernot"]
  <2>1. PICK e, pc : e = [g EXCEPT !.has = @ \cup {r}] /\ pc = (IF req[r].pc = "lock" THEN "replace" ELSE "replacePernot")
    OBVIOUS
  <2>2. PICK n : n = [req[r] EXCEPT !.doc = e, !.pc = pc]
    OBVIOUS
  <2>3. DocOf(k0, i, g) /\ g \in Doc
    BY <1>1, <1>3, <1>4, <1>8 DEF Docs
  <2>4. e \in Doc /\ e.has = g.has \cup {r} /\ e # NoDoc
    BY <1>3, <2>1, <2>3, NoDocFacts DEF Doc
  <2>5. pc \in {"replace", "replacePernot"} /\ pc \in ReqPc
    BY <2>1 DEF ReqPc
  <2>6. /\ n \in ReqRec /\ n.pc = pc /\ n.op = req[r].op /\ n.id = req[r].id /\ n.kind = req[r].kind /\ n.at = req[r].at
        /\ n.beside = req[r].beside /\ n.doc = e
    BY <1>2, <2>2, <2>4, <2>5 DEF ReqRec
  <2>7. req' = [req EXCEPT ![r] = n]
    <3>1. req' = [req EXCEPT ![r].doc = e, ![r].pc = pc]
      BY <1>4, <1>8, <2>1
    <3>2. req \in [1..Len(req) -> ReqRec]
      BY <1>1
    <3> QED BY <1>2, <2>2, <3>1, <3>2 DEF ReqRec
  <2>8. GoStep(r, n)
    BY <1>3, <2>6, <2>7 DEF GoStep, Ended
  <2>9. req'[r] = n /\ DOMAIN req' = DOMAIN req
    BY <1>1, <2>8, GoGrows
  <2>10. AtStore(r)' /\ ~Stored(r)'
    BY <1>3, <2>5, <2>6, <2>9 DEF AtStore, Stored
  <2>11. GoDoc(r, n)
    BY <1>4, <1>5, <1>8, <2>1, <2>6, <2>10 DEF GoDoc
  <2>12. ReqShape(r)'
    BY <1>3, <2>4, <2>5, <2>6, <2>9 DEF ReqShape
  <2>13. /\ lock' \in [Broker -> [CacheName -> Nat]] /\ lock'[b]["sub"] = r
         /\ \A y \in Broker, x \in CacheName : lock'[y][x] = lock[y][x] \/ (lock[y][x] \in {Free, r} /\ lock'[y][x] \in {Free, r})
    BY <1>1, <1>3, <1>4, <1>8, LocksTyped
  <2>14. ReqLock(r)'
    BY <1>4, <2>5, <2>6, <2>9, <2>13 DEF ReqLock
  <2> QED BY <1>1, <1>5, <1>6, <2>8, <2>11, <2>12, <2>13, <2>14, GoKeeps
<1> QED BY <1>4, <1>7, <1>8 DEF PatchSubscriptionRetrieve

-----------------------------------------------------------------------------
\* A request that begins
LEMMA Begun ==
  ASSUME NEW k0, PatchInv(k0), NEW op \in ReqOp, NEW i \in Id, NEW b \in Broker, NEW pc \in BeginPc, NEW d \in Doc \cup {NoDoc},
         Begin(op, i, b, pc, d), Len(req) < MaxReq
  PROVE  /\ ReqGrows /\ Len(req') = New /\ New \in Nat
         /\ \E n : /\ BeginStep(n) /\ n.op = op /\ n.id = i /\ n.at = b /\ n.pc = pc /\ n.doc = d
                   /\ d # NoDoc => n.kind = d.kind
                   /\ \A r \in DOMAIN req' : r \notin DOMAIN req => r = New /\ req'[r] = n
<1>1. req \in Seq(ReqRec) /\ db \in [Id -> Doc \cup {NoDoc}]
  BY DEF PatchInv, HaTypes
<1>2. PICK k : k = IF d # NoDoc THEN d.kind ELSE db[i].kind
  OBVIOUS
<1>3. k \in Kind \cup {"none"}
  <2>1. \A e \in Doc \cup {NoDoc} : e.kind \in Kind \cup {"none"}
    BY NoDocFacts DEF Doc
  <2> QED BY <1>1, <1>2, <2>1
<1>4. InFlight(i) \subseteq Nat
  BY <1>1 DEF InFlight
<1>5. PICK n : n = [op |-> op, id |-> i, at |-> b, pc |-> pc, doc |-> d, kind |-> k, beside |-> InFlight(i)]
  OBVIOUS
<1>6. pc \in ReqPc
  BY DEF BeginPc, ReqPc
<1>7. n \in ReqRec /\ n.op = op /\ n.id = i /\ n.at = b /\ n.pc = pc /\ n.doc = d /\ n.kind = k /\ n.beside = InFlight(i)
  BY <1>3, <1>4, <1>5, <1>6 DEF ReqRec
<1>8. BeginStep(n)
  BY <1>2, <1>5, <1>7 DEF Begin, BeginStep
<1> QED BY <1>1, <1>2, <1>7, <1>8, BeginGrows

LEMMA PostKeeps ==
  ASSUME NEW k0, PatchInv(k0), NEW i \in Id, NEW b \in Broker, NEW k \in Kind, NEW pc \in {"cache", "cacheReg"},
         Begin("post", i, b, pc, [kind |-> k, has |-> {New}]), Len(req) < MaxReq,
         db' = [db EXCEPT ![i] = [kind |-> k, has |-> {New}]], Publish(i, "upsert"),
         lock' = lock \/ Lock(b, "reg", New), pc = "cacheReg" => Lock(b, "reg", New),
         UNCHANGED <<cache, open, phase, apply>>
  PROVE  PatchInv(k0)'
<1>1. PICK d : d = [kind |-> k, has |-> {New}]
  OBVIOUS
<1>2. req \in Seq(ReqRec) /\ lock \in [Broker -> [CacheName -> Nat]] /\ db \in [Id -> Doc \cup {NoDoc}] /\ "reg" \in CacheName
  BY DEF PatchInv, HaTypes, CacheName
<1>3. New \in Nat /\ d \in Doc /\ d.kind = k /\ d.has = {New} /\ d # NoDoc
  <2>1. New \in Nat
    BY <1>2 DEF New
  <2> QED BY <2>1, <1>1, NoDocFacts DEF Doc
<1>4. "post" \in ReqOp /\ pc \in BeginPc /\ Begin("post", i, b, pc, d)
  BY <1>1 DEF ReqOp, BeginPc
<1>5. ReqGrows /\ Len(req') = New
  BY <1>3, <1>4, Begun
<1>6. PICK n : /\ BeginStep(n) /\ n.op = "post" /\ n.id = i /\ n.at = b /\ n.pc = pc /\ n.doc = d /\ n.kind = k
               /\ \A r \in DOMAIN req' : r \notin DOMAIN req => r = New /\ req'[r] = n
  BY <1>3, <1>4, Begun
<1>7. BeginDb(n) /\ BeginDoc(n)
  BY <1>1, <1>6 DEF BeginDb, BeginDoc
<1>8. stream' \in [Broker -> Seq(EventRec)] /\ missed' \in [Broker -> BOOLEAN]
  BY Published DEF PatchInv
<1>9. /\ lock' \in [Broker -> [CacheName -> Nat]] /\ (pc = "cacheReg" => lock'[b]["reg"] = New)
      /\ \A y \in Broker, x \in CacheName : lock'[y][x] = lock[y][x] \/ (lock[y][x] = Free /\ lock'[y][x] = New)
  BY <1>2, <1>3, LocksTyped
<1>10. \A r \in DOMAIN req' : r \notin DOMAIN req => (ReqShape(r) /\ ReqLock(r))'
  BY <1>3, <1>6, <1>9 DEF ReqShape, ReqLock
<1>11. DocOf(k0, i, d)'
  <2>1. PICK m \in Nat : m = New
    BY <1>3
  <2>2. m \in DOMAIN req' /\ m \notin DOMAIN req /\ m <= Len(req') /\ m # 0
    BY <1>2, <1>5, <2>1 DEF ReqGrows, New
  <2>3. req'[m].op = "post" /\ req'[m].kind = k
    BY <1>6, <2>2
  <2>4. Maker(m)' /\ KindOf(k0, i, m)' = k
    BY <2>2, <2>3 DEF Maker, KindOf
  <2> QED BY <1>3, <2>1, <2>2, <2>4 DEF DocOf
<1>12. CacheStep(k0) /\ cache' \in CacheType
  BY CacheSame
<1> QED BY <1>6, <1>7, <1>8, <1>9, <1>10, <1>11, <1>12, BeginKeeps

LEMMA PostSubscriptionKeeps ==
  ASSUME NEW k0, PatchInv(k0), NEW i \in Id, NEW b \in Broker, NEW k \in Kinds(i) \ {"reg"}, PostSubscription(i, b, k)
  PROVE  PatchInv(k0)'
<1>1. k \in Kind
  BY HaAssumption DEF Kinds
<1> QED BY <1>1, PostKeeps DEF PostSubscription, SubscriptionCreate, MayBegin

LEMMA PostCsourceRegistrationKeeps ==
  ASSUME NEW k0, PatchInv(k0), NEW i \in Id, NEW b \in Broker, PostCsourceRegistration(i, b)
  PROVE  PatchInv(k0)'
<1>1. "reg" \in Kind
  BY DEF Kind
<1> QED BY <1>1, PostKeeps DEF PostCsourceRegistration, RegistrationCreate, MayBegin

\* A PATCH of a registration, or of a csr subscription, that merges a document it found
LEMMA MergeKeeps ==
  ASSUME NEW k0, PatchInv(k0), NEW i \in Id, NEW b \in Broker, NEW op \in {"patch", "patchCsr"}, NEW pc \in {"update", "updateReg"},
         NEW g, DocOf(k0, i, g), NEW c \in CacheName,
         Begin(op, i, b, pc, [g EXCEPT !.has = @ \cup {New}]), Len(req) < MaxReq, Lock(b, c, New),
         \/ pc = "update" /\ op = "patchCsr" /\ c = "regSub" /\ g.kind = "csr"
         \/ pc = "updateReg" /\ op = "patch" /\ c = "reg" /\ i \in RegId /\ g = db[i] /\ db[i] # NoDoc,
         UNCHANGED <<db, cache, stream, open, phase, apply, missed>>
  PROVE  PatchInv(k0)'
<1>1. PICK d : d = [g EXCEPT !.has = @ \cup {New}]
  OBVIOUS
<1>2. /\ req \in Seq(ReqRec) /\ lock \in [Broker -> [CacheName -> Nat]]
      /\ stream \in [Broker -> Seq(EventRec)] /\ missed \in [Broker -> BOOLEAN]
  BY DEF PatchInv, HaTypes
<1>3. New \in Nat /\ g \in Doc /\ d \in Doc /\ d.kind = g.kind /\ d.has = g.has \cup {New} /\ d # NoDoc
  <2>1. New \in Nat /\ g \in Doc
    BY <1>2 DEF New, DocOf
  <2> QED BY <2>1, <1>1, NoDocFacts DEF Doc
<1>4. op \in ReqOp /\ pc \in BeginPc /\ Begin(op, i, b, pc, d)
  BY <1>1 DEF ReqOp, BeginPc
<1>5. ReqGrows /\ Len(req') = New
  BY <1>3, <1>4, Begun
<1>6. PICK n : /\ BeginStep(n) /\ n.op = op /\ n.id = i /\ n.at = b /\ n.pc = pc /\ n.doc = d
               /\ \A r \in DOMAIN req' : r \notin DOMAIN req => r = New /\ req'[r] = n
  BY <1>3, <1>4, Begun
<1>7. BeginDb(n) /\ BeginDoc(n)
  BY <1>1, <1>6 DEF BeginDb, BeginDoc
<1>9. /\ lock' \in [Broker -> [CacheName -> Nat]] /\ lock'[b][c] = New
      /\ \A y \in Broker, x \in CacheName : lock'[y][x] = lock[y][x] \/ (lock[y][x] = Free /\ lock'[y][x] = New)
  BY <1>2, <1>3, LocksTyped
<1>10. \A r \in DOMAIN req' : r \notin DOMAIN req => (ReqShape(r) /\ ReqLock(r))'
  BY <1>3, <1>6, <1>9 DEF ReqShape, ReqLock
<1>11. DocOf(k0, i, d)'
  <2>1. PICK m \in Nat : m = New
    BY <1>3
  <2>2. m \in DOMAIN req' /\ m \notin DOMAIN req /\ m \in 1..Len(req')
    BY <1>2, <1>5, <2>1 DEF ReqGrows, New
  <2>3. req'[m].op # "post"
    BY <1>6, <2>2
  <2> QED BY <1>1, <1>5, <2>1, <2>2, <2>3, DocPatched
<1>12. CacheStep(k0) /\ cache' \in CacheType
  BY CacheSame
<1> QED BY <1>2, <1>6, <1>7, <1>9, <1>10, <1>11, <1>12, BeginKeeps

LEMMA PatchCsourceRegistrationKeeps ==
  ASSUME NEW k0, PatchInv(k0), NEW i \in Id, NEW b \in Broker, PatchCsourceRegistration(i, b)
  PROVE  PatchInv(k0)'
<1>1. PICK g : g = db[i]
  OBVIOUS
<1>2. DocOf(k0, i, g)
  BY <1>1 DEF PatchCsourceRegistration, PatchInv, Docs
<1>3. Begin("patch", i, b, "updateReg", [g EXCEPT !.has = @ \cup {New}]) /\ "reg" \in CacheName /\ Len(req) < MaxReq /\ i \in RegId
      /\ g = db[i] /\ db[i] # NoDoc /\ Lock(b, "reg", New) /\ UNCHANGED <<db, cache, stream, open, phase, apply, missed>>
  BY <1>1 DEF PatchCsourceRegistration, MayBegin, CacheName
<1> QED BY <1>2, <1>3, MergeKeeps

LEMMA PatchCsourceSubscriptionKeeps ==
  ASSUME NEW k0, PatchInv(k0), NEW i \in Id, NEW b \in Broker, PatchCsourceSubscription(i, b)
  PROVE  PatchInv(k0)'
<1>1. PICK g : g = Head(cache[b]["regSub"][i])
  OBVIOUS
<1>2. "regSub" \in CacheName /\ cache[b]["regSub"][i] \in Seq(Doc) /\ cache[b]["regSub"][i] # <<>>
  BY DEF PatchCsourceSubscription, PatchInv, HaTypes, CacheName
<1>3. g \in Range(cache[b]["regSub"][i])
  BY <1>1, <1>2, TailSub
<1>4. DocOf(k0, i, g) /\ g.kind = "csr"
  BY <1>2, <1>3 DEF PatchInv, CacheDocs
<1>5. Begin("patchCsr", i, b, "update", [g EXCEPT !.has = @ \cup {New}]) /\ Len(req) < MaxReq
      /\ Lock(b, "regSub", New) /\ UNCHANGED <<db, cache, stream, open, phase, apply, missed>>
  BY <1>1 DEF PatchCsourceSubscription, MayBegin
<1> QED BY <1>2, <1>4, <1>5, MergeKeeps

\* A request that begins without a document
LEMMA BareKeeps ==
  ASSUME NEW k0, PatchInv(k0), NEW i \in Id, NEW b \in Broker, NEW op \in {"patch", "delete", "deleteCsr"},
         NEW pc \in {"lock", "lockPernot", "drop", "delete", "dropReg"},
         Begin(op, i, b, pc, NoDoc), Len(req) < MaxReq,
         pc \in {"lock", "lockPernot"} => op = "patch" /\ i \in SubId,
         pc = "dropReg" => op = "delete",
         (db' = db /\ UNCHANGED <<stream, missed>>) \/ (db' = [db EXCEPT ![i] = NoDoc] /\ Publish(i, "delete")),
         CacheStep(k0), cache' \in CacheType, UNCHANGED <<lock, open, phase, apply>>
  PROVE  PatchInv(k0)'
<1>1. /\ lock \in [Broker -> [CacheName -> Nat]]
      /\ stream \in [Broker -> Seq(EventRec)] /\ missed \in [Broker -> BOOLEAN]
  BY DEF PatchInv, HaTypes
<1>2. op \in ReqOp /\ pc \in BeginPc
  BY DEF ReqOp, BeginPc
<1>3. PICK n : /\ BeginStep(n) /\ n.op = op /\ n.id = i /\ n.at = b /\ n.pc = pc /\ n.doc = NoDoc
               /\ \A r \in DOMAIN req' : r \notin DOMAIN req => r = New /\ req'[r] = n
  BY <1>2, Begun
<1>4. BeginDb(n) /\ BeginDoc(n)
  BY <1>3 DEF BeginDb, BeginDoc
<1>5. stream' \in [Broker -> Seq(EventRec)] /\ missed' \in [Broker -> BOOLEAN]
  BY <1>1, Published DEF PatchInv
<1>6. \A r \in DOMAIN req' : r \notin DOMAIN req => (ReqShape(r) /\ ReqLock(r))'
  BY <1>3 DEF ReqShape, ReqLock
<1> QED BY <1>1, <1>3, <1>4, <1>5, <1>6, BeginKeeps

LEMMA BareBegins ==
  ASSUME NEW k0, PatchInv(k0), NEW i \in Id, NEW b \in Broker,
         \/ PatchSubscription(i, b) \/ DeleteSubscription(i, b) \/ DeleteCsourceSubscription(i, b) \/ DeleteCsourceRegistration(i, b)
  PROVE  PatchInv(k0)'
<1>1. CASE PatchSubscription(i, b)
  <2>1. PICK pc \in {"lock", "lockPernot"} : Begin("patch", i, b, pc, NoDoc)
    BY <1>1 DEF PatchSubscription
  <2>2. CacheStep(k0) /\ cache' \in CacheType
    BY <1>1, CacheSame DEF PatchSubscription
  <2> QED BY <1>1, <2>1, <2>2, BareKeeps DEF PatchSubscription, MayBegin
<1>2. CASE DeleteSubscription(i, b)
  <2>1. CacheStep(k0) /\ cache' \in CacheType
    BY <1>2, CacheSame DEF DeleteSubscription
  <2> QED BY <1>2, <2>1, BareKeeps DEF DeleteSubscription, SubscriptionDelete, MayBegin
<1>3. CASE DeleteCsourceSubscription(i, b)
  <2>1. CacheStep(k0) /\ cache' \in CacheType
    BY <1>3, CacheDrops DEF DeleteCsourceSubscription, CacheName
  <2> QED BY <1>3, <2>1, BareKeeps DEF DeleteCsourceSubscription, MayBegin
<1>4. CASE DeleteCsourceRegistration(i, b)
  <2>1. CacheStep(k0) /\ cache' \in CacheType
    BY <1>4, CacheSame DEF DeleteCsourceRegistration
  <2> QED BY <1>4, <2>1, BareKeeps DEF DeleteCsourceRegistration, RegistrationDelete, MayBegin
<1> QED BY <1>1, <1>2, <1>3, <1>4

-----------------------------------------------------------------------------
(* Caches: the change stream's thread, the start, and what goes wrong *)

LEMMA ConcatRange ==
  ASSUME NEW S, NEW s \in Seq(S), NEW t \in Seq(S)
  PROVE  s \o t \in Seq(S) /\ \A e \in Range(s \o t) : e \in Range(s) \/ e \in Range(t)
<1>1. /\ s \o t \in Seq(S) /\ Len(s \o t) = Len(s) + Len(t)
      /\ \A i \in 1..Len(s) + Len(t) : (s \o t)[i] = IF i <= Len(s) THEN s[i] ELSE t[i - Len(s)]
  BY ConcatProperties
<1> SUFFICES ASSUME NEW e \in Range(s \o t) PROVE e \in Range(s) \/ e \in Range(t)
  BY <1>1
<1>2. Len(s) \in Nat /\ Len(t) \in Nat /\ DOMAIN s = 1..Len(s) /\ DOMAIN t = 1..Len(t) /\ DOMAIN (s \o t) = 1..Len(s \o t)
  BY <1>1
<1>3. PICK i \in 1..Len(s) + Len(t) : (s \o t)[i] = e
  BY <1>1, <1>2 DEF Range
<1>4. CASE i <= Len(s)
  BY <1>1, <1>2, <1>3, <1>4 DEF Range
<1>5. CASE ~(i <= Len(s))
  <2>1. i - Len(s) \in DOMAIN t /\ e = t[i - Len(s)]
    BY <1>1, <1>2, <1>3, <1>5
  <2> QED BY <2>1 DEF Range
<1> QED BY <1>4, <1>5

\* The lock holds that a record re-read asks for: the document itself, in the cache of its kind
LEMMA StoreHolds ==
  ASSUME NEW d \in Doc
  PROVE  /\ TenantSubCacheItemStore(d) \in Seq(HoldRec) /\ TenantSubCacheItemStore(d) # <<>>
         /\ \A h \in Range(TenantSubCacheItemStore(d)) :
              h.do # "remove" => h.doc = d /\ (h.cache = "regSub" => d.kind = "csr")
<1> DEFINE Fine(s) == s \in Seq(HoldRec) /\ \A h \in Range(s) : h.do # "remove" => h.doc = d /\ (h.cache = "regSub" => d.kind = "csr")
           Unless(c) == IF TenantSubCacheItemKind[d.kind] = c THEN <<>> ELSE <<Remove(c)>>
           store == IF d.kind = "pernot" THEN <<Remove("pernot"), Add("pernot", d)>> ELSE <<Swap(TenantSubCacheItemKind[d.kind], d)>>
<1>1. d.kind \in Kind /\ TenantSubCacheItemKind[d.kind] \in CacheName /\ (TenantSubCacheItemKind[d.kind] = "regSub" => d.kind = "csr")
  BY DEF Doc, Kind, TenantSubCacheItemKind, CacheName
<1>2. \A c \in CacheName : Remove(c) \in HoldRec /\ Remove(c).do = "remove"
  BY DEF Remove, HoldRec
<1>3. \A c \in CacheName : Add(c, d) \in HoldRec /\ Swap(c, d) \in HoldRec /\ Add(c, d).doc = d /\ Swap(c, d).doc = d
                           /\ Add(c, d).cache = c /\ Swap(c, d).cache = c
  BY DEF Add, Swap, HoldRec
<1>4. \A c \in CacheName : Fine(Unless(c))
  <2> SUFFICES ASSUME NEW c \in CacheName PROVE Fine(Unless(c))
    OBVIOUS
  <2>1. CASE TenantSubCacheItemKind[d.kind] = c
    BY <2>1 DEF Range
  <2>2. CASE TenantSubCacheItemKind[d.kind] # c
    <3>1. PICK h : h = Remove(c)
      OBVIOUS
    <3>2. h \in HoldRec /\ h.do = "remove"
      BY <1>2, <3>1
    <3>3. <<h>> \in Seq(HoldRec) /\ \A x \in Range(<<h>>) : x = h
      BY <3>2 DEF Range
    <3>4. Unless(c) = <<h>>
      BY <2>2, <3>1
    <3> HIDE DEF Unless
    <3> QED BY <3>2, <3>3, <3>4
  <2> QED BY <2>1, <2>2
<1>5. Fine(store)
  <2>1. CASE d.kind = "pernot"
    <3>1. PICK h, g : h = Remove("pernot") /\ g = Add("pernot", d)
      OBVIOUS
    <3>2. "pernot" \in CacheName
      BY DEF CacheName
    <3>3. h \in HoldRec /\ g \in HoldRec /\ h.do = "remove" /\ g.doc = d /\ g.cache # "regSub"
      BY <1>2, <1>3, <3>1, <3>2
    <3>4. <<h, g>> \in Seq(HoldRec) /\ \A x \in Range(<<h, g>>) : x = h \/ x = g
      BY <3>3 DEF Range
    <3>5. store = <<h, g>>
      BY <2>1, <3>1
    <3> HIDE DEF store
    <3> QED BY <3>3, <3>4, <3>5
  <2>2. CASE d.kind # "pernot"
    <3>1. PICK h : h = Swap(TenantSubCacheItemKind[d.kind], d)
      OBVIOUS
    <3>3. h \in HoldRec /\ h.doc = d /\ (h.cache = "regSub" => d.kind = "csr")
      BY <1>1, <1>3, <3>1
    <3>4. <<h>> \in Seq(HoldRec) /\ \A x \in Range(<<h>>) : x = h
      BY <3>3 DEF Range
    <3>5. store = <<h>>
      BY <2>2, <3>1
    <3> HIDE DEF store
    <3> QED BY <3>3, <3>4, <3>5
  <2> QED BY <2>1, <2>2
<1>6. ASSUME NEW s, NEW t, Fine(s), Fine(t) PROVE Fine(s \o t)
  BY <1>6, ConcatRange
<1>7. TenantSubCacheItemStore(d) = ((Unless("pernot") \o Unless("sub")) \o Unless("regSub")) \o store
  BY DEF TenantSubCacheItemStore
<1>8. "pernot" \in CacheName /\ "sub" \in CacheName /\ "regSub" \in CacheName
  BY DEF CacheName
<1>10. store # <<>>
  OBVIOUS
<1> HIDE DEF Unless, store
<1>11. ASSUME NEW s, NEW t, Fine(s), Fine(t), t # <<>> PROVE s \o t # <<>>
  <2>1. Len(s \o t) = Len(s) + Len(t) /\ Len(s) \in Nat /\ Len(t) \in Nat /\ Len(t) # 0
    BY <1>11, ConcatProperties
  <2>2. Len(<<>>) = 0
    OBVIOUS
  <2> QED BY <2>1, <2>2
<1> HIDE DEF Fine
<1>9. PICK s : s = (Unless("pernot") \o Unless("sub")) \o Unless("regSub") /\ Fine(s)
  BY <1>4, <1>6, <1>8
<1>12. Fine(s \o store) /\ s \o store # <<>>
  BY <1>5, <1>6, <1>9, <1>10, <1>11
<1> QED BY <1>7, <1>9, <1>12 DEF Fine

LEMMA DropHolds ==
  /\ TenantSubCacheItemDrop \in Seq(HoldRec) /\ TenantRegCacheItemDrop \in Seq(HoldRec)
  /\ TenantSubCacheItemDrop # <<>> /\ TenantRegCacheItemDrop # <<>>
  /\ \A h \in Range(TenantSubCacheItemDrop) \cup Range(TenantRegCacheItemDrop) : h.do = "remove"
<1>1. "pernot" \in CacheName /\ "sub" \in CacheName /\ "regSub" \in CacheName /\ "reg" \in CacheName
  BY DEF CacheName
<1>2. PICK x, y, z, w : x = Remove("sub") /\ y = Remove("regSub") /\ z = Remove("pernot") /\ w = Remove("reg")
  OBVIOUS
<1>3. x \in HoldRec /\ y \in HoldRec /\ z \in HoldRec /\ w \in HoldRec /\ x.do = "remove" /\ y.do = "remove" /\ z.do = "remove" /\ w.do = "remove"
  BY <1>1, <1>2 DEF Remove, HoldRec
<1>4. <<x, y, z>> \in Seq(HoldRec) /\ <<w>> \in Seq(HoldRec)
      /\ (\A h \in Range(<<x, y, z>>) : h = x \/ h = y \/ h = z) /\ (\A h \in Range(<<w>>) : h = w)
  BY <1>3 DEF Range
<1>5. TenantSubCacheItemDrop = <<x, y, z>> /\ TenantRegCacheItemDrop = <<w>>
  BY <1>2 DEF TenantSubCacheItemDrop, TenantRegCacheItemDrop
<1> QED BY <1>3, <1>4, <1>5

\* The change stream's thread goes on as a
LEMMA ApplyKeeps ==
  ASSUME NEW k0, PatchInv(k0), NEW b \in Broker, NEW a \in ApplyRec, apply' = [apply EXCEPT ![b] = a],
         a.pc = "todo" => a.id \in Id /\ a.todo # <<>>,
         \A h \in Range(a.todo) : h.do # "remove" => a.id \in Id /\ DocOf(k0, a.id, h.doc) /\ (h.cache = "regSub" => h.doc.kind = "csr"),
         CacheStep(k0), cache' \in CacheType,
         UNCHANGED <<db, req, lock, open, phase>>, stream' \in [Broker -> Seq(EventRec)], missed' \in [Broker -> BOOLEAN]
  PROVE  PatchInv(k0)'
<1>1. req \in Seq(ReqRec) /\ apply \in [Broker -> ApplyRec] /\ open \in [Broker -> BOOLEAN] /\ phase \in [Broker -> {"start", "subs", "regs", "up"}]
  BY DEF PatchInv, HaTypes
<1>2. ReqGrows
  BY <1>1 DEF ReqGrows
<1>3. ASSUME NEW y \in Broker PROVE ApplyDocs(k0, y)'
  <2>1. CASE y = b
    <3>1. apply'[y] = a
      BY <2>1, <1>1
    <3>2. ASSUME NEW h \in Range(a.todo), h.do # "remove"
          PROVE  a.id \in Id /\ DocOf(k0, a.id, h.doc)' /\ (h.cache = "regSub" => h.doc.kind = "csr")
      <4>1. DocOf(k0, a.id, h.doc) /\ a.id \in Id /\ (h.cache = "regSub" => h.doc.kind = "csr")
        BY <3>2
      <4> QED BY <1>2, <4>1, DocStays
    <3> QED BY <3>1, <3>2 DEF ApplyDocs
  <2>2. CASE y # b
    <3>1. apply'[y] = apply[y] /\ ApplyDocs(k0, y)
      BY <2>2, <1>1 DEF PatchInv
    <3> QED BY <1>2, <3>1, ApplyStays
  <2> QED BY <2>1, <2>2
<1>4. apply' \in [Broker -> ApplyRec]
  BY <1>1
<1> QED BY <1>1, <1>3, <1>4, HaThreadKeeps

LEMMA IdleTyped == Idle \in ApplyRec /\ Idle.todo = <<>> /\ Idle.id = "none" /\ Range(Idle.todo) = {} /\ Idle.pc = "idle"
<1>1. <<>> \in Seq(HoldRec) /\ Range(<<>>) = {}
  BY DEF Range
<1> QED BY <1>1 DEF Idle, ApplyRec

LEMMA EventTreatKeeps ==
  ASSUME NEW k0, PatchInv(k0), NEW b \in Broker, EventTreat(b)
  PROVE  PatchInv(k0)'
<1>1. stream \in [Broker -> Seq(EventRec)] /\ missed \in [Broker -> BOOLEAN] /\ stream[b] # <<>> /\ stream[b] \in Seq(EventRec)
  BY DEF PatchInv, HaTypes, EventTreat
<1>2. PICK e : e = Head(stream[b])
  OBVIOUS
<1>3. e \in EventRec /\ Tail(stream[b]) \in Seq(EventRec)
  BY <1>1, <1>2, TailSub
<1>4. PICK todo : todo = IF e.op # "delete" THEN <<>>
                    ELSE IF e.id \in RegId THEN TenantRegCacheItemDrop ELSE TenantSubCacheItemDrop
  OBVIOUS
<1>5. todo \in Seq(HoldRec) /\ (e.op = "delete" => todo # <<>>) /\ \A h \in Range(todo) : h.do = "remove"
  <2>1. <<>> \in Seq(HoldRec) /\ Range(<<>>) = {}
    BY DEF Range
  <2> QED BY <2>1, <1>4, DropHolds
<1>6. PICK a : a = [pc |-> IF e.op = "delete" THEN "todo" ELSE "read", id |-> e.id, todo |-> todo]
  OBVIOUS
<1>7. a \in ApplyRec /\ a.todo = todo /\ a.id \in Id /\ (a.pc = "todo" => a.todo # <<>>)
  BY <1>3, <1>5, <1>6 DEF ApplyRec, EventRec
<1>8. apply' = [apply EXCEPT ![b] = a]
  BY <1>2, <1>4, <1>6 DEF EventTreat
<1>9. stream' \in [Broker -> Seq(EventRec)] /\ CacheStep(k0) /\ cache' \in CacheType
  BY <1>1, <1>3, CacheSame DEF EventTreat
<1>10. UNCHANGED <<db, req, lock, open, phase, missed>>
  BY DEF EventTreat
<1>11. \A h \in Range(a.todo) : h.do = "remove"
  BY <1>5, <1>7
<1> QED BY <1>1, <1>4, <1>5, <1>7, <1>8, <1>9, <1>10, <1>11, ApplyKeeps

LEMMA RefreshKeeps ==
  ASSUME NEW k0, PatchInv(k0), NEW b \in Broker, TenantSubCacheItemRefresh(b) \/ TenantRegCacheItemRefresh(b)
  PROVE  PatchInv(k0)'
<1>1. /\ stream \in [Broker -> Seq(EventRec)] /\ missed \in [Broker -> BOOLEAN] /\ apply \in [Broker -> ApplyRec]
      /\ db \in [Id -> Doc \cup {NoDoc}] /\ Docs(k0)
  BY DEF PatchInv, HaTypes
<1>2. apply[b] \in ApplyRec
  BY <1>1
<1>3. PICK i, d : i = apply[b].id /\ d = db[i]
  OBVIOUS
<1>4. i \in Id /\ d \in Doc \cup {NoDoc} /\ (d # NoDoc => DocOf(k0, i, d) /\ d \in Doc)
  <2>1. i \in Id
    BY <1>3 DEF TenantSubCacheItemRefresh, TenantRegCacheItemRefresh, Id
  <2> QED BY <2>1, <1>1, <1>3 DEF Docs
<1>5. PICK todo : /\ todo \in Seq(HoldRec) /\ todo # <<>>
                  /\ \A h \in Range(todo) : h.do # "remove" => DocOf(k0, i, h.doc) /\ (h.cache = "regSub" => h.doc.kind = "csr")
                  /\ apply' = [apply EXCEPT ![b].pc = "todo", ![b].todo = todo]
  <2>1. CASE TenantSubCacheItemRefresh(b)
    <3>1. CASE d = NoDoc
      BY <3>1, <2>1, <1>3, DropHolds DEF TenantSubCacheItemRefresh
    <3>2. CASE d # NoDoc
      BY <3>2, <2>1, <1>3, <1>4, StoreHolds DEF TenantSubCacheItemRefresh
    <3> QED BY <3>1, <3>2
  <2>2. CASE TenantRegCacheItemRefresh(b)
    <3>1. CASE d = NoDoc
      BY <3>1, <2>2, <1>3, DropHolds DEF TenantRegCacheItemRefresh
    <3>2. CASE d # NoDoc
      <4>1. PICK h : h = Swap("reg", d)
        OBVIOUS
      <4>2. h \in HoldRec /\ h.doc = d /\ h.cache = "reg"
        BY <4>1, <3>2, <1>4 DEF Swap, HoldRec, CacheName
      <4>3. <<h>> \in Seq(HoldRec) /\ \A x \in Range(<<h>>) : x = h
        BY <4>2 DEF Range
      <4>4. apply' = [apply EXCEPT ![b].pc = "todo", ![b].todo = <<h>>]
        BY <3>2, <2>2, <1>3, <4>1 DEF TenantRegCacheItemRefresh
      <4> QED BY <4>2, <4>3, <4>4, <3>2, <1>4
    <3> QED BY <3>1, <3>2
  <2> QED BY <2>1, <2>2
<1>6. PICK a : a = [apply[b] EXCEPT !.pc = "todo", !.todo = todo]
  OBVIOUS
<1>7. a \in ApplyRec /\ a.id = i /\ a.todo = todo
  BY <1>2, <1>3, <1>5, <1>6 DEF ApplyRec
<1>8. apply' = [apply EXCEPT ![b] = a]
  BY <1>1, <1>2, <1>5, <1>6 DEF ApplyRec
<1>9. CacheStep(k0) /\ cache' \in CacheType
  BY CacheSame DEF TenantSubCacheItemRefresh, TenantRegCacheItemRefresh
<1>10. \A h \in Range(a.todo) : h.do # "remove" => a.id \in Id /\ DocOf(k0, a.id, h.doc) /\ (h.cache = "regSub" => h.doc.kind = "csr")
  BY <1>4, <1>5, <1>7
<1>11. UNCHANGED <<db, req, lock, open, phase, stream, missed>>
  BY DEF TenantSubCacheItemRefresh, TenantRegCacheItemRefresh
<1> QED BY <1>1, <1>4, <1>5, <1>7, <1>8, <1>9, <1>10, <1>11, ApplyKeeps

LEMMA HaEventNotAppliedKeeps ==
  ASSUME NEW k0, PatchInv(k0), NEW b \in Broker, HaEventNotApplied(b)
  PROVE  PatchInv(k0)'
<1>1. stream \in [Broker -> Seq(EventRec)] /\ missed \in [Broker -> BOOLEAN]
  BY DEF PatchInv, HaTypes
<1>2. missed' \in [Broker -> BOOLEAN] /\ CacheStep(k0) /\ cache' \in CacheType /\ apply' = [apply EXCEPT ![b] = Idle]
      /\ UNCHANGED <<db, req, lock, open, phase, stream>>
  BY <1>1, CacheSame DEF HaEventNotApplied
<1> QED BY <1>1, <1>2, IdleTyped, ApplyKeeps

LEMMA HaEventAppliedKeeps ==
  ASSUME NEW k0, PatchInv(k0), NEW b \in Broker, HaEventApplied(b)
  PROVE  PatchInv(k0)'
<1>1. /\ req \in Seq(ReqRec) /\ stream \in [Broker -> Seq(EventRec)] /\ missed \in [Broker -> BOOLEAN] /\ apply \in [Broker -> ApplyRec]
      /\ ApplyDocs(k0, b) /\ (\A y \in Broker : CacheDocs(k0, y))
  BY DEF PatchInv, HaTypes
<1>2. apply[b] \in ApplyRec
  BY <1>1
<1>3. PICK q, s : q = apply[b] /\ s = Head(q.todo)
  OBVIOUS
<1>4. q.pc = "todo" /\ q.id \in Id /\ q.todo \in Seq(HoldRec) /\ q.todo # <<>>
  BY <1>1, <1>2, <1>3 DEF HaEventApplied, ApplyDocs, ApplyRec
<1>5. s \in Range(q.todo) /\ s \in HoldRec /\ Tail(q.todo) \in Seq(HoldRec) /\ Range(Tail(q.todo)) \subseteq Range(q.todo)
  BY <1>3, <1>4, TailSub
<1>6. \A h \in Range(q.todo) : h.do # "remove" => DocOf(k0, q.id, h.doc) /\ (h.cache = "regSub" => h.doc.kind = "csr")
  BY <1>1, <1>3 DEF ApplyDocs
<1>7. ReqGrows
  BY <1>1 DEF ReqGrows, HaEventApplied
<1>8. s.cache \in CacheName /\ s.do \in {"remove", "swap", "add"}
  BY <1>5 DEF HoldRec
<1>9. CacheStep(k0) /\ cache' \in CacheType
  <2>1. PICK c, i, d : c = s.cache /\ i = q.id /\ d = s.doc
    OBVIOUS
  <2>2. s.do = "remove" => ItemRemove(b, c, i)
    BY <1>3, <2>1 DEF HaEventApplied
  <2>3. s.do = "swap" => ItemSwap(b, c, i, d)
    BY <1>3, <2>1 DEF HaEventApplied
  <2>4. s.do = "add" => ItemAdd(b, c, i, d)
    BY <1>3, <2>1 DEF HaEventApplied
  <2>5. s.do # "remove" => DocOf(k0, i, d) /\ (c = "regSub" => d.kind = "csr")
    BY <1>5, <1>6, <2>1
  <2>6. CASE s.do = "remove"
    BY <2>1, <2>2, <2>6, <1>4, <1>8, CacheDrops
  <2>7. CASE s.do # "remove"
    BY <2>1, <2>3, <2>4, <2>5, <2>7, <1>4, <1>7, <1>8, CacheGets
  <2> QED BY <2>6, <2>7
<1>10. PICK a : a = IF Len(q.todo) = 1 THEN Idle ELSE [q EXCEPT !.todo = Tail(@)]
  OBVIOUS
<1>11. apply' = [apply EXCEPT ![b] = a]
  <2>1. apply' = [apply EXCEPT ![b] = IF Len(apply[b].todo) = 1 THEN Idle ELSE [apply[b] EXCEPT !.todo = Tail(apply[b].todo)]]
    BY DEF HaEventApplied
  <2>2. a = IF Len(q.todo) = 1 THEN Idle ELSE [q EXCEPT !.todo = Tail(q.todo)]
    BY <1>10
  <2> QED BY <2>1, <2>2, <1>3
<1>12. UNCHANGED <<db, req, lock, stream, open, phase, missed>>
  BY DEF HaEventApplied
<1>13. CASE Len(q.todo) = 1
  <2>1. a = Idle
    BY <1>10, <1>13
  <2> QED BY <2>1, <1>1, <1>9, <1>11, <1>12, IdleTyped, ApplyKeeps
<1>14. CASE Len(q.todo) # 1
  <2>1. a \in ApplyRec /\ a.todo = Tail(q.todo) /\ a.id = q.id
    BY <1>2, <1>3, <1>5, <1>10, <1>14 DEF ApplyRec
  <2>2. Tail(q.todo) # <<>>
    <3>1. Len(Tail(q.todo)) = Len(q.todo) - 1 /\ Len(q.todo) \in Nat /\ Len(q.todo) # 0
      BY <1>4, HeadTailProperties
    <3>2. PICK m, t : m = Len(q.todo) /\ t = Tail(q.todo)
      OBVIOUS
    <3>3. Len(t) = m - 1 /\ m \in Nat /\ m # 1
      BY <1>14, <3>1, <3>2
    <3>4. t # <<>>
      <4> SUFFICES ASSUME t = <<>> PROVE FALSE
        OBVIOUS
      <4>1. Len(t) = 0
        OBVIOUS
      <4> QED BY <3>3, <4>1
    <3> QED BY <3>2, <3>4
  <2>3. \A h \in Range(a.todo) : h.do # "remove" => a.id \in Id /\ DocOf(k0, a.id, h.doc) /\ (h.cache = "regSub" => h.doc.kind = "csr")
    BY <1>4, <1>5, <1>6, <2>1
  <2> QED BY <2>1, <2>2, <2>3, <1>1, <1>4, <1>9, <1>11, <1>12, ApplyKeeps
<1> QED BY <1>13, <1>14

-----------------------------------------------------------------------------
LEMMA SingleRange ==
  ASSUME NEW S, NEW d \in S
  PROVE  <<d>> \in Seq(S) /\ <<>> \in Seq(S) /\ (\A e \in Range(<<d>>) : e = d) /\ Range(<<>>) = {}
BY DEF Range

\* A load appends the record to the cache of its kind
LEMMA LoadStep ==
  ASSUME NEW k0, PatchInv(k0), UNCHANGED <<db, req>>, NEW b \in Broker, NEW ids, Load(b, ids)
  PROVE  CacheStep(k0) /\ cache' \in CacheType
<1>1. cache \in CacheType /\ req \in Seq(ReqRec) /\ Docs(k0) /\ db \in [Id -> Doc \cup {NoDoc}]
  BY DEF PatchInv, HaTypes, CacheType
<1>2. ReqGrows
  BY <1>1 DEF ReqGrows
<1> DEFINE more(c, i) == IF i \in ids /\ db[i] # NoDoc /\ TenantSubCacheItemKind[db[i].kind] = c THEN <<db[i]>> ELSE <<>>
<1>3. cache' = [cache EXCEPT ![b] = [c \in CacheName |-> [i \in Id |-> cache[b][c][i] \o more(c, i)]]]
  BY DEF Load
<1>4. ASSUME NEW c \in CacheName, NEW i \in Id
      PROVE  /\ more(c, i) \in Seq(Doc)
             /\ \A e \in Range(more(c, i)) : DocOf(k0, i, e)' /\ (c = "regSub" => e.kind = "csr")
  <2>1. CASE i \in ids /\ db[i] # NoDoc /\ TenantSubCacheItemKind[db[i].kind] = c
    <3>1. PICK d : d = db[i]
      OBVIOUS
    <3>2. d \in Doc /\ DocOf(k0, i, d) /\ DocOf(k0, i, d)' /\ (c = "regSub" => d.kind = "csr")
      <4>1. d \in Doc /\ DocOf(k0, i, d)
        BY <2>1, <3>1, <1>1 DEF Docs
      <4>2. d.kind \in Kind
        BY <4>1 DEF Doc
      <4> QED BY <2>1, <3>1, <4>1, <4>2, <1>2, DocStays DEF Kind, TenantSubCacheItemKind
    <3>3. more(c, i) = <<d>>
      BY <2>1, <3>1
    <3> HIDE DEF more
    <3> QED BY <3>2, <3>3, SingleRange
  <2>2. CASE ~(i \in ids /\ db[i] # NoDoc /\ TenantSubCacheItemKind[db[i].kind] = c)
    <3>1. more(c, i) = <<>>
      BY <2>2
    <3>2. <<>> \in Seq(Doc) /\ Range(<<>>) = {}
      BY DEF Range
    <3> HIDE DEF more
    <3> QED BY <3>1, <3>2
  <2> QED BY <2>1, <2>2
<1> HIDE DEF more
<1>5. ASSUME NEW c \in CacheName, NEW i \in Id
      PROVE  /\ cache[b][c][i] \o more(c, i) \in Seq(Doc)
             /\ \A e \in Range(cache[b][c][i] \o more(c, i)) : e \in Range(cache[b][c][i]) \/ e \in Range(more(c, i))
  <2>1. cache[b][c][i] \in Seq(Doc)
    BY <1>1 DEF CacheType
  <2> QED BY <2>1, <1>4, ConcatRange
<1>6. \A c \in CacheName, i \in Id : cache'[b][c][i] = cache[b][c][i] \o more(c, i)
  BY <1>1, <1>3 DEF CacheType
<1>7. cache' \in CacheType
  BY <1>1, <1>3, <1>5 DEF CacheType
<1>8. ASSUME NEW y \in Broker, NEW x \in CacheName, NEW j \in Id, NEW e \in Range(cache'[y][x][j])
      PROVE  e \in Range(cache[y][x][j]) \/ (DocOf(k0, j, e)' /\ (x = "regSub" => e.kind = "csr"))
  <2>1. CASE y = b
    BY <2>1, <1>4, <1>5, <1>6
  <2>2. CASE y # b
    <3>1. cache'[y] = cache[y]
      BY <2>2, <1>1, <1>3 DEF CacheType
    <3> QED BY <3>1
  <2> QED BY <2>1, <2>2
<1> QED BY <1>7, <1>8 DEF CacheStep

LEMMA StartKeepsPatch ==
  ASSUME NEW k0, PatchInv(k0), NEW b \in Broker, Starts(b) \/ StreamReopen(b) \/ StreamBreak(b)
  PROVE  PatchInv(k0)'
<1>1. /\ req \in Seq(ReqRec) /\ stream \in [Broker -> Seq(EventRec)] /\ missed \in [Broker -> BOOLEAN] /\ apply \in [Broker -> ApplyRec]
      /\ open \in [Broker -> BOOLEAN] /\ phase \in [Broker -> {"start", "subs", "regs", "up"}]
  BY DEF PatchInv, HaTypes
<1>2. UNCHANGED <<db, req, lock, apply>>
  BY DEF Starts, HaInit, TenantSubCacheReload, TenantRegCacheReload, StreamReopen, StreamBreak
<1>3. ReqGrows
  BY <1>1, <1>2 DEF ReqGrows
<1>4. \A y \in Broker : ApplyDocs(k0, y)'
  BY <1>2, <1>3, ApplyStays DEF PatchInv
<1>5. CacheStep(k0) /\ cache' \in CacheType
  <2>1. CASE cache' = cache
    BY <2>1, CacheSame
  <2>2. CASE Load(b, SubId) \/ Load(b, RegId)
    BY <2>2, <1>2, LoadStep
  <2> QED BY <2>1, <2>2 DEF Starts, HaInit, TenantSubCacheReload, TenantRegCacheReload, StreamReopen, StreamBreak
<1>6. open' \in [Broker -> BOOLEAN] /\ phase' \in [Broker -> {"start", "subs", "regs", "up"}]
  BY <1>1, HaAssumption DEF Starts, HaInit, TenantSubCacheReload, TenantRegCacheReload, StreamReopen, StreamBreak
<1>7. stream' \in [Broker -> Seq(EventRec)] /\ missed' \in [Broker -> BOOLEAN]
  <2>1. <<>> \in Seq(EventRec)
    OBVIOUS
  <2>2. CASE UNCHANGED <<stream, missed>>
    BY <2>2, <1>1
  <2>3. CASE StreamBreak(b)
    BY <2>1, <2>3, <1>1 DEF StreamBreak
  <2> QED BY <2>2, <2>3 DEF Starts, HaInit, TenantSubCacheReload, TenantRegCacheReload, StreamReopen
<1> QED BY <1>1, <1>2, <1>4, <1>5, <1>6, <1>7, HaThreadKeeps

\* The broker is killed: its requests are lost, and with them its caches
\* A restart ends the requests of its broker where they are
LEMMA Restarted ==
  ASSUME HaTypes, NEW b \in Broker, Restart(b)
  PROVE  /\ req' \in Seq(ReqRec) /\ Len(req') = Len(req) /\ DOMAIN req' = DOMAIN req
         /\ \A r \in DOMAIN req :
              /\ req'[r] \in ReqRec /\ req'[r].op = req[r].op /\ req'[r].kind = req[r].kind /\ req'[r].id = req[r].id
              /\ req'[r].at = req[r].at /\ req'[r].beside = req[r].beside /\ req'[r].doc = req[r].doc
              /\ req'[r].pc = IF req[r].at = b /\ req[r].pc \notin Ended THEN "lost" ELSE req[r].pc
<1>1. HaTypes
  OBVIOUS
<1>2. req \in Seq(ReqRec) /\ Len(req) \in Nat /\ DOMAIN req = 1..Len(req) /\ \A r \in DOMAIN req : req[r] \in ReqRec
  BY <1>1 DEF HaTypes
<1>3. req' = [r \in 1..Len(req) |-> IF req[r].at = b /\ req[r].pc \notin Ended THEN [req[r] EXCEPT !.pc = "lost"] ELSE req[r]]
  BY <1>2 DEF Restart
<1>4. ASSUME NEW r \in DOMAIN req
      PROVE  /\ req'[r] \in ReqRec /\ req'[r].op = req[r].op /\ req'[r].kind = req[r].kind /\ req'[r].id = req[r].id
             /\ req'[r].at = req[r].at /\ req'[r].beside = req[r].beside /\ req'[r].doc = req[r].doc
             /\ req'[r].pc = IF req[r].at = b /\ req[r].pc \notin Ended THEN "lost" ELSE req[r].pc
  <2>1. req[r] \in ReqRec /\ [req[r] EXCEPT !.pc = "lost"] \in ReqRec
    BY <1>2 DEF ReqRec, ReqPc
  <2>2. req'[r] = IF req[r].at = b /\ req[r].pc \notin Ended THEN [req[r] EXCEPT !.pc = "lost"] ELSE req[r]
    BY <1>2, <1>3
  <2> QED BY <2>1, <2>2 DEF ReqRec
<1>5. req' \in Seq(ReqRec) /\ Len(req') = Len(req) /\ DOMAIN req' = DOMAIN req
  <2>1. req' \in [1..Len(req) -> ReqRec]
    BY <1>2, <1>3, <1>4
  <2> QED BY <2>1, <1>2, IsASeq, LenProperties
<1> QED BY <1>4, <1>5

LEMMA RestartKeeps ==
  ASSUME NEW k0, PatchInv(k0), NEW b \in Broker, Restart(b)
  PROVE  PatchInv(k0)'
<1>1. HaTypes
  BY DEF PatchInv
<1>2. req \in Seq(ReqRec) /\ Len(req) \in Nat /\ DOMAIN req = 1..Len(req) /\ \A r \in DOMAIN req : req[r] \in ReqRec
  BY <1>1 DEF HaTypes
<1>4. ASSUME NEW r \in DOMAIN req
      PROVE  /\ req'[r] \in ReqRec /\ req'[r].op = req[r].op /\ req'[r].kind = req[r].kind /\ req'[r].id = req[r].id
             /\ req'[r].at = req[r].at /\ req'[r].beside = req[r].beside /\ req'[r].doc = req[r].doc
             /\ req'[r].pc = IF req[r].at = b /\ req[r].pc \notin Ended THEN "lost" ELSE req[r].pc
  BY <1>1, Restarted
<1>5. req' \in Seq(ReqRec) /\ Len(req') = Len(req) /\ DOMAIN req' = DOMAIN req
  BY <1>1, Restarted
<1>6. ReqGrows
  BY <1>2, <1>4, <1>5 DEF ReqGrows
<1>7. "lost" \in Ended
  BY DEF Ended
<1>8. HaTypes'
  <2>1. /\ db' = db /\ phase' = [phase EXCEPT ![b] = "start"] /\ open' = [open EXCEPT ![b] = FALSE]
        /\ stream' = [stream EXCEPT ![b] = <<>>] /\ apply' = [apply EXCEPT ![b] = Idle]
        /\ cache' = [cache EXCEPT ![b] = [c \in CacheName |-> [i \in Id |-> <<>>]]]
        /\ lock' = [lock EXCEPT ![b] = [c \in CacheName |-> Free]] /\ missed' = [missed EXCEPT ![b] = FALSE]
    BY DEF Restart
  <2>2. <<>> \in Seq(EventRec) /\ <<>> \in Seq(Doc)
    OBVIOUS
  <2>3. stream' \in [Broker -> Seq(EventRec)] /\ apply' \in [Broker -> ApplyRec]
    BY <1>1, <2>1, <2>2, IdleTyped DEF HaTypes
  <2>4. cache' \in [Broker -> [CacheName -> [Id -> Seq(Doc)]]]
    BY <1>1, <2>1, <2>2 DEF HaTypes
  <2>5. lock' \in [Broker -> [CacheName -> Nat]] /\ \A y \in Broker, c \in CacheName : lock'[y][c] <= Len(req')
    <3>1. lock \in [Broker -> [CacheName -> Nat]] /\ \A y \in Broker, c \in CacheName : lock[y][c] <= Len(req)
      BY <1>1 DEF HaTypes
    <3>2. \A y \in Broker, c \in CacheName : lock'[y][c] = lock[y][c] \/ lock'[y][c] = 0
      BY <2>1, <3>1 DEF Free
    <3>3. lock' \in [Broker -> [CacheName -> Nat]]
      BY <2>1, <3>1 DEF Free
    <3>4. PICK m \in Nat : m = Len(req) /\ Len(req') = m
      BY <1>2, <1>5
    <3>5. ASSUME NEW y \in Broker, NEW c \in CacheName PROVE lock'[y][c] <= m
      <4>1. lock[y][c] \in Nat /\ lock[y][c] <= m
        BY <3>1, <3>4
      <4> QED BY <4>1, <3>2, <3>4
    <3> QED BY <3>3, <3>4, <3>5
  <2>6. open' \in [Broker -> BOOLEAN] /\ missed' \in [Broker -> BOOLEAN] /\ phase' \in [Broker -> {"start", "subs", "regs", "up"}]
    BY <1>1, <2>1 DEF HaTypes
  <2> QED BY <1>1, <1>5, <2>1, <2>3, <2>4, <2>5, <2>6 DEF HaTypes
<1>9. ASSUME NEW r \in DOMAIN req' PROVE (ReqShape(r) /\ ReqLock(r))'
  <2>1. r \in DOMAIN req /\ ReqShape(r) /\ ReqLock(r)
    BY <1>5 DEF PatchInv
  <2>2. CASE req'[r].pc = "lost"
    BY <2>1, <2>2, <1>4 DEF ReqShape, ReqLock
  <2>3. CASE req'[r].pc # "lost"
    <3>1. req'[r].pc = req[r].pc /\ (req[r].at # b \/ req[r].pc \in Ended)
      BY <2>1, <2>3, <1>4
    <3>2. ReqShape(r)'
      BY <2>1, <3>1, <1>4 DEF ReqShape
    <3>3. CASE req[r].pc \in Ended
      <4>1. req'[r].pc \in {"done", "refused", "lost"}
        BY <3>1, <3>3 DEF Ended
      <4> QED BY <3>2, <4>1 DEF ReqLock
    <3>4. CASE req[r].at # b
      <4>1. lock'[req[r].at] = lock[req[r].at]
        <5>1. req[r].at \in Broker
          BY <2>1, <1>2 DEF ReqRec
        <5> QED BY <5>1, <3>4, <1>1 DEF Restart, HaTypes
      <4>2. req'[r].at = req[r].at
        BY <2>1, <1>4
      <4> QED BY <2>1, <3>1, <3>2, <4>1, <4>2 DEF ReqLock
    <3> QED BY <3>1, <3>2, <3>3, <3>4
  <2> QED BY <2>2, <2>3
<1>10. Besides'
  <2> SUFFICES ASSUME NEW p \in DOMAIN req, NEW q \in DOMAIN req, p # q, req'[p].id = req'[q].id,
                      req'[p].pc \notin Ended, req'[q].pc \notin Ended
               PROVE  p \in req'[q].beside \/ q \in req'[p].beside
    BY <1>5 DEF Besides
  <2>1. req[p].pc \notin Ended /\ req[q].pc \notin Ended /\ req[p].id = req[q].id
    BY <1>4, <1>7
  <2> QED BY <2>1, <1>4 DEF Besides, PatchInv
<1>11. Docs(k0)'
  <2>1. \A r \in DOMAIN req' : r \in DOMAIN req /\ req'[r].doc = req[r].doc
    BY <1>4, <1>5
  <2>2. \A i \in Id : db'[i] = db[i]
    BY DEF Restart
  <2> QED BY <2>1, <2>2, <1>6, DocsKeep DEF PatchInv
<1>12. ASSUME NEW y \in Broker PROVE (CacheDocs(k0, y) /\ ApplyDocs(k0, y))'
  <2>1. CASE y = b
    <3>1. apply'[y] = Idle /\ \A c \in CacheName, i \in Id : cache'[y][c][i] = <<>>
      BY <2>1, <1>1 DEF Restart, HaTypes
    <3>2. Range(<<>>) = {}
      BY DEF Range
    <3>3. CacheDocs(k0, y)'
      BY <3>1, <3>2 DEF CacheDocs
    <3>4. ApplyDocs(k0, y)'
      BY <3>1, IdleTyped DEF ApplyDocs
    <3> QED BY <3>3, <3>4
  <2>2. CASE y # b
    <3>1. apply'[y] = apply[y] /\ cache'[y] = cache[y]
      BY <2>2, <1>1 DEF Restart, HaTypes
    <3>2. ApplyDocs(k0, y)'
      BY <3>1, <1>6, ApplyStays DEF PatchInv
    <3>3. ASSUME NEW c \in CacheName, NEW i \in Id, NEW d \in Range(cache[y][c][i]) PROVE DocOf(k0, i, d)' /\ (c = "regSub" => d.kind = "csr")
      BY <1>6, DocStays DEF PatchInv, CacheDocs
    <3> QED BY <3>1, <3>2, <3>3 DEF CacheDocs
  <2> QED BY <2>1, <2>2
<1>13. ASSUME NEW r \in DOMAIN req', Stored(r)', OneBroker(r)' PROVE PatchStands(r)'
  <2>1. r \in DOMAIN req /\ Stored(r) /\ OneBroker(r)
    <3>1. r \in DOMAIN req
      BY <1>5
    <3>2. Stored(r)
      BY <3>1, <1>4, <1>13 DEF Stored
    <3>3. OneBroker(r)
      BY <3>1, <1>4, <1>5, <1>13 DEF OneBroker
    <3> QED BY <3>1, <3>2, <3>3
  <2>2. PatchStands(r) /\ ReqShape(r)
    BY <2>1 DEF PatchInv
  <2>3. PICK e, i : e = req[r].doc /\ i = req[r].id
    OBVIOUS
  <2>4. DocOf(k0, i, e)
    BY <2>1, <2>2, <2>3 DEF PatchInv, Docs, ReqShape, Stored
  <2>5. ASSUME NEW d, SameRecord(d, e)' PROVE SameRecord(d, e)
    <3>1. SameRecord(e, d)'
      BY <2>5 DEF SameRecord
    <3>2. SameRecord(e, d)
      BY <3>1, <1>6, <2>4, SameStays
    <3> QED BY <3>2 DEF SameRecord
  <2>6. ASSUME db'[i] # NoDoc, SameRecord(db[i], e)' PROVE r \in db'[i].has
    <3>1. PICK d : d = db'[i]
      OBVIOUS
    <3>2. SameRecord(d, e) /\ db'[i] = db[i]
      BY <2>5, <2>6, <3>1 DEF Restart
    <3> QED BY <3>1, <3>2, <2>2, <2>3, <2>6 DEF PatchStands
  <2>7. ASSUME NEW q \in DOMAIN req', req'[q].id = i, AtStore(q)', SameRecord(req[q].doc, e)' PROVE r \in req'[q].doc.has
    <3>1. PICK d : d = req'[q].doc
      OBVIOUS
    <3>2. SameRecord(d, e)
      BY <2>5, <2>7, <3>1
    <3>3. q \in DOMAIN req /\ req[q].id = i /\ req'[q].doc = req[q].doc /\ AtStore(q)
      BY <1>4, <1>5, <2>7 DEF AtStore
    <3> QED BY <3>1, <3>2, <3>3, <2>2, <2>3 DEF PatchStands
  <2> QED BY <2>1, <2>3, <2>6, <2>7, <1>4 DEF PatchStands
<1> QED BY <1>8, <1>9, <1>10, <1>11, <1>12, <1>13 DEF PatchInv

-----------------------------------------------------------------------------
(* Caches: the theorems *)

LEMMA PatchInvInit == HaSyncInit => \E k0 : PatchInv(k0)
<1> SUFFICES ASSUME HaSyncInit PROVE \E k0 : PatchInv(k0)
  OBVIOUS
<1>1. PICK k0 : k0 = [i \in Id |-> db[i].kind]
  OBVIOUS
<1>2. db \in [Id -> {NoDoc} \cup [kind : Kind, has : {{0}}]]
  BY DEF HaSyncInit
<1>3. \A d \in [kind : Kind, has : {{0}}] : d \in Doc /\ d.has = {0} /\ d # NoDoc /\ d.kind \in Kind
  <2>1. \A d \in [kind : Kind, has : {{0}}] : d \in Doc /\ d.has = {0} /\ d.kind \in Kind
    BY DEF Doc
  <2> QED BY <2>1, NoDocFacts
<1>4. req = <<>> /\ Len(req) = 0 /\ req \in Seq(ReqRec) /\ DOMAIN req = {}
  BY DEF HaSyncInit
<1>5. ASSUME NEW i \in Id, db[i] # NoDoc PROVE db[i] \in Doc /\ DocOf(k0, i, db[i])
  <2>1. PICK d : d = db[i]
    OBVIOUS
  <2>2. d \in Doc /\ d.has = {0}
    BY <1>2, <1>3, <1>5, <2>1
  <2>3. d.kind = KindOf(k0, i, 0) /\ Maker(0)
    BY <1>1, <2>1 DEF KindOf, Maker
  <2>4. DocOf(k0, i, d)
    BY <2>2, <2>3, <1>4 DEF DocOf
  <2> QED BY <2>1, <2>2, <2>4
<1>6. ASSUME NEW b \in Broker, NEW c \in CacheName, NEW i \in Id
      PROVE  /\ cache[b][c][i] \in Seq(Doc)
             /\ \A d \in Range(cache[b][c][i]) : DocOf(k0, i, d) /\ (c = "regSub" => d.kind = "csr")
  <2>1. cache[b][c][i] = IF db[i] # NoDoc /\ TenantSubCacheItemKind[db[i].kind] = c THEN <<db[i]>> ELSE <<>>
    BY DEF HaSyncInit
  <2>2. CASE db[i] # NoDoc /\ TenantSubCacheItemKind[db[i].kind] = c
    <3>1. PICK d : d = db[i]
      OBVIOUS
    <3>2. d \in Doc /\ DocOf(k0, i, d) /\ d.kind \in Kind
      BY <1>5, <2>2, <3>1 DEF Doc
    <3>3. c = "regSub" => d.kind = "csr"
      BY <2>2, <3>1, <3>2 DEF TenantSubCacheItemKind, Kind
    <3>4. cache[b][c][i] = <<d>>
      BY <2>1, <2>2, <3>1
    <3> QED BY <3>2, <3>3, <3>4, SingleRange
  <2>3. CASE ~(db[i] # NoDoc /\ TenantSubCacheItemKind[db[i].kind] = c)
    <3>1. cache[b][c][i] = <<>> /\ <<>> \in Seq(Doc) /\ Range(<<>>) = {}
      BY <2>1, <2>3 DEF Range
    <3> QED BY <3>1
  <2> QED BY <2>2, <2>3
<1>7. HaTypes
  <2>1. db \in [Id -> Doc \cup {NoDoc}]
    BY <1>2, <1>3
  <2>2. cache \in [Broker -> [CacheName -> [Id -> Seq(Doc)]]]
    <3> DEFINE l(b, c, i) == IF db[i] # NoDoc /\ TenantSubCacheItemKind[db[i].kind] = c THEN <<db[i]>> ELSE <<>>
    <3>1. cache = [b \in Broker |-> [c \in CacheName |-> [i \in Id |-> l(b, c, i)]]]
      BY DEF HaSyncInit
    <3> HIDE DEF l
    <3>2. \A b \in Broker, c \in CacheName, i \in Id : l(b, c, i) \in Seq(Doc)
      BY <1>6, <3>1
    <3> QED BY <3>1, <3>2
  <2>3. lock \in [Broker -> [CacheName -> Nat]] /\ \A b \in Broker, c \in CacheName : lock[b][c] <= Len(req)
    BY <1>4 DEF HaSyncInit, Free
  <2>4. Len(req) <= MaxReq
    BY <1>4, HaAssumption
  <2>5. <<>> \in Seq(EventRec)
    OBVIOUS
  <2>6. stream \in [Broker -> Seq(EventRec)] /\ apply \in [Broker -> ApplyRec]
    BY <2>5, IdleTyped DEF HaSyncInit
  <2>7. open \in [Broker -> BOOLEAN] /\ missed \in [Broker -> BOOLEAN] /\ phase \in [Broker -> {"start", "subs", "regs", "up"}]
    BY HaAssumption DEF HaSyncInit
  <2> QED BY <1>4, <2>1, <2>2, <2>3, <2>4, <2>6, <2>7 DEF HaTypes
<1>8. Docs(k0) /\ Besides
  BY <1>4, <1>5 DEF Docs, Besides
<1>9. \A b \in Broker : CacheDocs(k0, b) /\ ApplyDocs(k0, b)
  <2>1. \A b \in Broker : apply[b] = Idle
    BY DEF HaSyncInit
  <2> QED BY <2>1, <1>6, IdleTyped DEF CacheDocs, ApplyDocs
<1>10. PatchInv(k0)
  BY <1>4, <1>7, <1>8, <1>9 DEF PatchInv
<1> QED BY <1>10

LEMMA PatchInvNext ==
  ASSUME NEW k0, PatchInv(k0), [HaSyncNext]_haVars
  PROVE  PatchInv(k0)'
<1>1. ASSUME NEW b \in Broker, Begins(b) PROVE PatchInv(k0)'
  <2>1. PICK i \in Id :
          \/ \E k \in Kinds(i) \ {"reg"} : PostSubscription(i, b, k)
          \/ PatchSubscription(i, b) \/ DeleteSubscription(i, b)
          \/ PatchCsourceSubscription(i, b) \/ DeleteCsourceSubscription(i, b)
          \/ PostCsourceRegistration(i, b) \/ PatchCsourceRegistration(i, b) \/ DeleteCsourceRegistration(i, b)
    BY <1>1 DEF Begins
  <2> QED BY <2>1, PostSubscriptionKeeps, BareBegins, PatchCsourceSubscriptionKeeps, PostCsourceRegistrationKeeps,
             PatchCsourceRegistrationKeeps
<1>2. ASSUME NEW b \in Broker, HaWatchThread(b) PROVE PatchInv(k0)'
  BY <1>2, EventTreatKeeps, RefreshKeeps, HaEventAppliedKeeps, StartKeepsPatch DEF HaWatchThread
<1>3. ASSUME NEW b \in Broker, Starts(b) \/ HaEventNotApplied(b) \/ StreamBreak(b) \/ Restart(b) PROVE PatchInv(k0)'
  BY <1>3, StartKeepsPatch, HaEventNotAppliedKeeps, RestartKeeps
<1>4. ASSUME NEW r \in DOMAIN req, Goes(r) PROVE PatchInv(k0)'
  BY <1>4, PostSubscriptionCachedKeeps, PostCsourceSubscriptionCachedKeeps, PatchSubscriptionRetrieveKeeps,
     PatchSubscriptionReplaceKeeps, PatchSubscriptionSwapKeeps, DeleteSubscriptionDropKeeps, PatchCsourceSubscriptionUpdateKeeps,
     PatchCsourceSubscriptionSwapKeeps, DeleteCsourceSubscriptionStoredKeeps, PostCsourceRegistrationCachedKeeps,
     PatchCsourceRegistrationUpdateKeeps, PatchCsourceRegistrationSwapKeeps, DeleteCsourceRegistrationDropKeeps
  DEF Goes
<1>5. ASSUME UNCHANGED haVars PROVE PatchInv(k0)'
  <2>1. UNCHANGED <<db, cache, lock, req, stream, open, phase, apply, missed>>
    BY <1>5 DEF haVars
  <2>2. ReqGrows
    BY <2>1 DEF ReqGrows, PatchInv, HaTypes
  <2>3. \A b \in Broker : ApplyDocs(k0, b)'
    BY <2>1, <2>2, ApplyStays DEF PatchInv
  <2>4. CacheStep(k0) /\ cache' \in CacheType
    BY <2>1, CacheSame
  <2>5. /\ stream \in [Broker -> Seq(EventRec)] /\ missed \in [Broker -> BOOLEAN] /\ apply \in [Broker -> ApplyRec]
        /\ open \in [Broker -> BOOLEAN] /\ phase \in [Broker -> {"start", "subs", "regs", "up"}]
    BY DEF PatchInv, HaTypes
  <2> QED BY <2>1, <2>3, <2>4, <2>5, HaThreadKeeps
<1> QED BY <1>1, <1>2, <1>3, <1>4, <1>5 DEF HaSyncNext

LEMMA PatchInvTells ==
  ASSUME NEW k0, PatchInv(k0)
  PROVE  PatchKept /\ HaSyncTypeOK
<1>1. PatchKept
  <2> SUFFICES ASSUME NEW r \in DOMAIN req,
                      req[r].op = "patch", req[r].pc = "done", req[r].doc.kind # "csr",
                      \A q \in DOMAIN req : q \in req[r].beside \/ r \in req[q].beside => req[q].at = req[r].at,
                      db[req[r].id] # NoDoc,
                      \E p \in db[req[r].id].has : p \in req[r].doc.has /\ (p = 0 \/ req[p].op = "post")
               PROVE  r \in db[req[r].id].has
    BY DEF PatchKept
  <2>1. Stored(r) /\ OneBroker(r) /\ SameRecord(db[req[r].id], req[r].doc)
    BY DEF Stored, OneBroker, SameRecord, Maker
  <2> QED BY <2>1 DEF PatchInv, PatchStands
<1>2. HaSyncTypeOK
  <2>1. /\ HaTypes /\ Docs(k0) /\ \A b \in Broker : CacheDocs(k0, b)
    BY DEF PatchInv
  <2>2. ASSUME NEW i, NEW d, DocOf(k0, i, d) PROVE d \in [kind : Kind, has : SUBSET (0..MaxReq)]
    <3>1. d \in Doc /\ \A x \in d.has : x <= Len(req)
      BY <2>2 DEF DocOf
    <3>2. Len(req) \in Nat /\ Len(req) <= MaxReq /\ MaxReq \in Nat
      BY <2>1, HaAssumption DEF HaTypes
    <3>3. d.kind \in Kind /\ d.has \subseteq 0..MaxReq /\ d = [kind |-> d.kind, has |-> d.has]
      BY <3>1, <3>2 DEF Doc
    <3> QED BY <3>3
  <2> DEFINE D == [kind : Kind, has : SUBSET (0..MaxReq)]
  <2>3. db \in [Id -> {NoDoc} \cup D]
    BY <2>1, <2>2 DEF HaTypes, Docs
  <2>4. ASSUME NEW b \in Broker, NEW c \in CacheName, NEW i \in Id PROVE cache[b][c][i] \in Seq(D)
    <3>1. cache[b][c][i] \in Seq(Doc)
      BY <2>1 DEF HaTypes
    <3>2. PICK s : s = cache[b][c][i]
      OBVIOUS
    <3>3. \A n \in 1..Len(s) : s[n] \in Range(s)
      BY <3>1, <3>2 DEF Range
    <3>4. \A n \in 1..Len(s) : s[n] \in D
      BY <3>2, <3>3, <2>1, <2>2 DEF CacheDocs
    <3>5. s \in [1..Len(s) -> D] /\ Len(s) \in Nat
      BY <3>1, <3>2, <3>4
    <3> HIDE DEF D
    <3> QED BY <3>2, <3>5, IsASeq
  <2>5. lock \in [Broker -> [CacheName -> 0..MaxReq]]
    <3>1. lock \in [Broker -> [CacheName -> Nat]] /\ \A b \in Broker, c \in CacheName : lock[b][c] <= Len(req)
      BY <2>1 DEF HaTypes
    <3>2. Len(req) \in Nat /\ Len(req) <= MaxReq /\ MaxReq \in Nat
      BY <2>1, HaAssumption DEF HaTypes
    <3>3. \A b \in Broker, c \in CacheName : lock[b][c] \in 0..MaxReq
      BY <3>1, <3>2
    <3> QED BY <3>1, <3>3
  <2>6. \A b \in Broker : \A n \in DOMAIN stream[b] : stream[b][n] \in [id : Id, op : {"upsert", "delete"}]
    <3> SUFFICES ASSUME NEW b \in Broker, NEW n \in DOMAIN stream[b] PROVE stream[b][n] \in EventRec
      BY DEF EventRec
    <3>1. stream[b] \in Seq(EventRec)
      BY <2>1 DEF HaTypes
    <3> QED BY <3>1
  <2> QED BY <2>1, <2>3, <2>4, <2>5, <2>6 DEF HaSyncTypeOK, HaTypes
<1> QED BY <1>1, <1>2

PatchInvSome == \E k0 : PatchInv(k0)

LEMMA PatchInvAlways == HaSyncSpec => []PatchInvSome
<1>1. HaSyncInit => PatchInvSome
  BY PatchInvInit DEF PatchInvSome
<1>2. ASSUME PatchInvSome, [HaSyncNext]_haVars PROVE PatchInvSome'
  <2>1. PICK k0 : PatchInv(k0)
    BY <1>2 DEF PatchInvSome
  <2>2. PatchInv(k0)'
    BY <1>2, <2>1, PatchInvNext
  <2> QED BY <2>2 DEF PatchInvSome
<1> QED BY <1>1, <1>2, PTL DEF HaSyncSpec

\* A PATCH of a subscription or a registration that was answered 204 is in the record as long as the record is there,
\* unless another broker worked on it at the same time: patchSubscription's and patchCsourceRegistration's write lock
\* covers the read, the merge and the write.
THEOREM PatchesAreKept == HaSyncSpec => []PatchKept
<1>1. PatchInvSome => PatchKept
  BY PatchInvTells DEF PatchInvSome
<1> QED BY <1>1, PatchInvAlways, PTL

\* The state of the caches, of the records and of the change stream has its type.
THEOREM HaSyncTypesCorrect == HaSyncSpec => []HaSyncTypeOK
<1>1. PatchInvSome => HaSyncTypeOK
  BY PatchInvTells DEF PatchInvSome
<1> QED BY <1>1, PatchInvAlways, PTL

-----------------------------------------------------------------------------
(* Caches: what a broker has still to do about a record *)

\* Of a stream s and a record i: an event of it is there; those that say it was deleted; the last one of it says so
ComesIn(s, i) == \E n \in DOMAIN s : s[n].id = i
DelsAt(s, i) == {n \in DOMAIN s : s[n].id = i /\ s[n].op = "delete"}
DelsIn(s, i) == Cardinality(DelsAt(s, i))
LastDel(s, i) == \E n \in DelsAt(s, i) : \A m \in DOMAIN s : m > n => s[m].id # i

LEMMA DelsFacts ==
  ASSUME NEW s \in Seq(EventRec), NEW i
  PROVE  /\ IsFiniteSet(DelsAt(s, i)) /\ DelsIn(s, i) \in Nat
         /\ (DelsIn(s, i) = 0 <=> DelsAt(s, i) = {}) /\ (DelsIn(s, i) >= 1 => ComesIn(s, i))
         /\ (LastDel(s, i) => ComesIn(s, i)) /\ (~ComesIn(s, i) => DelsIn(s, i) = 0)
<1>1. Len(s) \in Nat /\ DOMAIN s = 1..Len(s)
  OBVIOUS
<1>2. IsFiniteSet(1..Len(s))
  BY <1>1, FS_Interval
<1>3. IsFiniteSet(DelsAt(s, i))
  <2>1. DelsAt(s, i) \in SUBSET (1..Len(s))
    BY <1>1 DEF DelsAt
  <2> QED BY <1>2, <2>1, FS_Subset
<1>4. DelsIn(s, i) \in Nat /\ (DelsIn(s, i) = 0 <=> DelsAt(s, i) = {})
  BY <1>3, FS_CardinalityType, FS_EmptySet DEF DelsIn
<1>5. DelsAt(s, i) # {} => ComesIn(s, i)
  BY DEF DelsAt, ComesIn
<1>6. LastDel(s, i) => DelsAt(s, i) # {}
  BY DEF LastDel
<1> QED BY <1>3, <1>4, <1>5, <1>6

LEMMA DelsEmpty ==
  ASSUME NEW i PROVE ~ComesIn(<<>>, i) /\ ~LastDel(<<>>, i) /\ DelsIn(<<>>, i) = 0
<1>1. DelsAt(<<>>, i) = {} /\ ~ComesIn(<<>>, i)
  BY DEF DelsAt, ComesIn
<1> QED BY <1>1, FS_EmptySet DEF LastDel, DelsIn

LEMMA DelsAppend ==
  ASSUME NEW s \in Seq(EventRec), NEW e \in EventRec, NEW i
  PROVE  /\ ComesIn(Append(s, e), i) <=> ComesIn(s, i) \/ e.id = i
         /\ DelsIn(Append(s, e), i) = DelsIn(s, i) + IF e.id = i /\ e.op = "delete" THEN 1 ELSE 0
         /\ LastDel(Append(s, e), i) <=> IF e.id = i THEN e.op = "delete" ELSE LastDel(s, i)
<1> DEFINE t == Append(s, e)
           z == Len(s) + 1
<1>1. /\ t \in Seq(EventRec) /\ Len(t) = z /\ t[z] = e /\ \A n \in 1..Len(s) : t[n] = s[n]
      /\ DOMAIN s = 1..Len(s) /\ DOMAIN t = 1..z /\ Len(s) \in Nat
  BY AppendProperties
<1>2. z \notin DOMAIN s /\ DOMAIN t = DOMAIN s \cup {z} /\ (\A n \in DOMAIN s : t[n] = s[n] /\ z > n) /\ t[z] = e /\ \A n \in DOMAIN s : n \in Nat
  BY <1>1
<1>3. z \in Nat
  BY <1>1
<1> HIDE DEF t, z
<1>4. ComesIn(t, i) <=> ComesIn(s, i) \/ e.id = i
  BY <1>2 DEF ComesIn
<1>5. DelsAt(t, i) = IF e.id = i /\ e.op = "delete" THEN DelsAt(s, i) \cup {z} ELSE DelsAt(s, i)
  BY <1>2 DEF DelsAt
<1>6. DelsIn(t, i) = DelsIn(s, i) + IF e.id = i /\ e.op = "delete" THEN 1 ELSE 0
  <2>1. z \notin DelsAt(s, i) /\ IsFiniteSet(DelsAt(s, i)) /\ DelsIn(s, i) \in Nat
    BY <1>2, DelsFacts DEF DelsAt
  <2>2. Cardinality(DelsAt(s, i) \cup {z}) = Cardinality(DelsAt(s, i)) + 1
    BY <2>1, FS_AddElement
  <2> QED BY <1>5, <2>1, <2>2 DEF DelsIn
<1>7. LastDel(t, i) <=> IF e.id = i THEN e.op = "delete" ELSE LastDel(s, i)
  <2>1. CASE e.id = i
    <3>1. ASSUME e.op = "delete" PROVE LastDel(t, i)
      <4>1. z \in DelsAt(t, i) /\ \A m \in DOMAIN t : ~(m > z)
        BY <1>2, <1>3, <1>5, <2>1, <3>1
      <4> QED BY <4>1 DEF LastDel
    <3>2. ASSUME LastDel(t, i) PROVE e.op = "delete"
      <4>1. PICK n \in DelsAt(t, i) : \A m \in DOMAIN t : m > n => t[m].id # i
        BY <3>2 DEF LastDel
      <4>2. n = z
        BY <1>2, <2>1, <4>1 DEF DelsAt
      <4> QED BY <1>2, <4>1, <4>2 DEF DelsAt
    <3> QED BY <2>1, <3>1, <3>2
  <2>2. CASE e.id # i
    <3>1. DelsAt(t, i) = DelsAt(s, i)
      BY <1>5, <2>2
    <3>2. \A n \in DelsAt(s, i) : (\A m \in DOMAIN t : m > n => t[m].id # i) <=> (\A m \in DOMAIN s : m > n => s[m].id # i)
      BY <1>2, <2>2
    <3> QED BY <2>2, <3>1, <3>2 DEF LastDel
  <2> QED BY <2>1, <2>2
<1> QED BY <1>4, <1>6, <1>7 DEF t

LEMMA DelsTail ==
  ASSUME NEW s \in Seq(EventRec), s # <<>>, NEW e, e = Head(s), NEW i
  PROVE  /\ ComesIn(s, i) <=> ComesIn(Tail(s), i) \/ e.id = i
         /\ DelsIn(s, i) = DelsIn(Tail(s), i) + IF e.id = i /\ e.op = "delete" THEN 1 ELSE 0
         /\ LastDel(Tail(s), i) => LastDel(s, i)
         /\ e.id = i /\ e.op = "delete" /\ ~ComesIn(Tail(s), i) => LastDel(s, i)
<1> DEFINE t == Tail(s)
<1>1. t \in Seq(EventRec) /\ Len(t) = Len(s) - 1 /\ (\A n \in 1..Len(t) : t[n] = s[n + 1]) /\ Len(s) \in Nat /\ Len(s) # 0 /\ e = s[1]
  BY HeadTailProperties
<1> HIDE DEF t
<1>2. /\ DOMAIN s = 1..Len(s) /\ DOMAIN t = 1..Len(t) /\ Len(t) \in Nat
      /\ (\A n \in DOMAIN t : n + 1 \in DOMAIN s /\ t[n] = s[n + 1] /\ n \in Nat)
      /\ (\A n \in DOMAIN s : n \in Nat /\ (n = 1 \/ (n - 1 \in DOMAIN t /\ t[n - 1] = s[n])))
      /\ 1 \in DOMAIN s /\ s[1] = e
  <2>1. DOMAIN s = 1..Len(s) /\ DOMAIN t = 1..Len(t)
    BY <1>1
  <2> QED BY <1>1, <2>1
<1>3. ComesIn(s, i) <=> ComesIn(t, i) \/ e.id = i
  BY <1>2 DEF ComesIn
<1>4. (\A n \in DelsAt(t, i) : n + 1 \in DelsAt(s, i) \ {1}) /\ (\A n \in DelsAt(s, i) \ {1} : n - 1 \in DelsAt(t, i) /\ n \in Nat) /\ \A n \in DelsAt(t, i) : n \in Nat
  BY <1>2 DEF DelsAt
<1>5. IsFiniteSet(DelsAt(t, i)) /\ IsFiniteSet(DelsAt(s, i)) /\ DelsIn(t, i) \in Nat /\ DelsIn(s, i) \in Nat
  BY <1>1, DelsFacts
<1>6. Cardinality(DelsAt(s, i) \ {1}) = Cardinality(DelsAt(t, i))
  <2> DEFINE A == DelsAt(t, i)
             B == DelsAt(s, i) \ {1}
             f == [n \in A |-> n + 1]
  <2>1. f \in [A -> B]
    BY <1>4
  <2>2. (\A x, y \in A : f[x] = f[y] => x = y) /\ \A y \in B : \E x \in A : f[x] = y
    <3>1. \A x, y \in A : f[x] = f[y] => x = y
      BY <1>4
    <3>2. ASSUME NEW y \in B PROVE \E x \in A : f[x] = y
      <4>1. y - 1 \in A /\ f[y - 1] = y
        BY <1>4
      <4> QED BY <4>1
    <3> QED BY <3>1, <3>2
  <2> HIDE DEF A, B, f
  <2>3. f \in Bijection(A, B)
    BY <2>1, <2>2, Fun_IsBij
  <2>4. ExistsBijection(A, B)
    BY <2>3 DEF ExistsBijection
  <2>5. IsFiniteSet(A)
    BY <1>5 DEF A
  <2>6. Cardinality(B) = Cardinality(A)
    BY <2>4, <2>5, FS_Bijection
  <2> QED BY <2>6 DEF A, B
<1>7. DelsIn(s, i) = DelsIn(t, i) + IF e.id = i /\ e.op = "delete" THEN 1 ELSE 0
  <2>1. 1 \in DelsAt(s, i) <=> e.id = i /\ e.op = "delete"
    BY <1>2 DEF DelsAt
  <2>2. Cardinality(DelsAt(s, i) \ {1}) = IF 1 \in DelsAt(s, i) THEN Cardinality(DelsAt(s, i)) - 1 ELSE Cardinality(DelsAt(s, i))
    BY <1>5, FS_RemoveElement
  <2> QED BY <1>5, <1>6, <2>1, <2>2 DEF DelsIn
<1>8. ASSUME LastDel(t, i) PROVE LastDel(s, i)
  <2>1. PICK n \in DelsAt(t, i) : \A m \in DOMAIN t : m > n => t[m].id # i
    BY <1>8 DEF LastDel
  <2>2. n + 1 \in DelsAt(s, i) /\ n \in Nat
    BY <1>4
  <2>3. ASSUME NEW m \in DOMAIN s, m > n + 1 PROVE s[m].id # i
    <3>1. m - 1 \in DOMAIN t /\ t[m - 1] = s[m] /\ m - 1 > n
      BY <1>2, <2>2, <2>3
    <3> QED BY <2>1, <3>1
  <2> QED BY <2>2, <2>3 DEF LastDel
<1>9. ASSUME e.id = i, e.op = "delete", ~ComesIn(t, i) PROVE LastDel(s, i)
  <2>1. 1 \in DelsAt(s, i)
    BY <1>2, <1>9 DEF DelsAt
  <2>2. ASSUME NEW m \in DOMAIN s, m > 1 PROVE s[m].id # i
    <3>1. m - 1 \in DOMAIN t /\ t[m - 1] = s[m]
      BY <1>2, <2>2
    <3> QED BY <1>9, <3>1 DEF ComesIn
  <2> QED BY <2>1, <2>2 DEF LastDel
<1> QED BY <1>3, <1>7, <1>8, <1>9 DEF t

-----------------------------------------------------------------------------
(* Caches: what is to be known of a broker and a record *)

Steps(b, i) == IF apply[b].pc = "todo" /\ apply[b].id = i THEN apply[b].todo ELSE <<>>
Posting(r) == req[r].pc \in {"cache", "cacheReg"}
SwapsIn(r, c) ==
  \/ req[r].pc = "swap" /\ c = "sub"
  \/ req[r].pc = "swapPernot" /\ c = "pernot"
  \/ req[r].pc = "swapCsr" /\ c = "regSub"
  \/ req[r].pc = "swapReg" /\ c = "reg"
Here(b, i) == {r \in DOMAIN req : req[r].at = b /\ req[r].id = i}
Loaded(b, i) == phase[b] = "up" \/ (phase[b] = "regs" /\ i \in SubId)

Posts(b, i) == \E r \in Here(b, i) : Posting(r)
Swapping(b, i, c) == \E r \in Here(b, i) : SwapsIn(r, c)
Dropping(b, i) == \E r \in Here(b, i) : req[r].pc = "delete"

\* The record; its events that are still to come, their deletions, and whether the last is one; whether it is being
\* read again, and the lock holds it is stored or dropped with; the lists of the caches, and whether they were loaded;
\* and of the broker's own requests on it, whether a POST is about to add it, which caches a PATCH is about to swap
\* it in, whether a DELETE has taken it out and not deleted it yet
ViewRec == [db : Doc \cup {NoDoc}, coming : BOOLEAN, dels : Nat, last : BOOLEAN, reading : BOOLEAN, todo : Seq(HoldRec),
            items : [CacheName -> Seq(Doc)], loaded : BOOLEAN, posting : BOOLEAN, swaps : SUBSET CacheName, dropping : BOOLEAN]

View(b, i, v) ==
  /\ v \in ViewRec /\ v.db = db[i]
  /\ (v.coming <=> ComesIn(stream[b], i)) /\ v.dels = DelsIn(stream[b], i) /\ (v.last <=> LastDel(stream[b], i))
  /\ (v.reading <=> apply[b].pc = "read" /\ apply[b].id = i) /\ v.todo = Steps(b, i)
  /\ (\A c \in CacheName : v.items[c] = cache[b][c][i]) /\ (v.loaded <=> Loaded(b, i))
  /\ (v.posting <=> Posts(b, i)) /\ (\A c \in CacheName : c \in v.swaps <=> Swapping(b, i, c)) /\ (v.dropping <=> Dropping(b, i))

KindCache(d) == TenantSubCacheItemKind[d.kind]
Touches(t, c) == \E h \in Range(t) : h.cache = c
\* Lock holds that only take items out, one of them from cache c
Drops(t, c) == IF Touches(t, c) /\ \A h \in Range(t) : h.do = "remove" THEN 1 ELSE 0
\* Lock holds that bring the caches to a document, or to none
Fixes(t, d) ==
  /\ t # <<>>
  /\ \A n \in DOMAIN t : n < Len(t) => t[n].do = "remove"
  /\ d = NoDoc => t[Len(t)].do = "remove"
  /\ d # NoDoc /\ d.kind = "pernot" => t[Len(t)] = Add("pernot", d) /\ (Len(t) > 1 => t[Len(t) - 1] = Remove("pernot"))
  /\ d # NoDoc /\ d.kind # "pernot" => t[Len(t)] = Swap(KindCache(d), d)

OneMore(p) == IF p THEN 1 ELSE 0
\* Where the record belongs once the caches follow it
Target(v, c) == IF v.db # NoDoc /\ KindCache(v.db) = c THEN <<v.db>> ELSE <<>>

\* What is in work brings the record as it is, unless an event is to come; what is not there any more has a deletion to come
WorkRight(v) ==
  v.todo # <<>> => \E e \in Doc \cup {NoDoc} : /\ Fixes(v.todo, e)
                                               /\ ~v.coming => e = v.db
                                               /\ e # NoDoc /\ v.db = NoDoc => v.dels >= 1
\* As many items as deletions, in work and to come, take out - and one for the record
ItemsCounted(v) == \A c \in CacheName : Len(v.items[c]) <= v.dels + Drops(v.todo, c) + OneMore(v.db # NoDoc /\ ~v.posting)
AddFits(v) ==
  v.todo # <<>> /\ Head(v.todo).do = "add" => Len(v.items["pernot"]) + OneMore(v.db = NoDoc) <= v.dels
\* What a PATCH is about to put in a cache is taken out, or replaced, after
SwapsRight(v) ==
  \A c \in v.swaps : IF v.db = NoDoc THEN c = "regSub" \/ v.dels >= 1 \/ Drops(v.todo, c) = 1
                                     ELSE v.coming \/ v.reading \/ Touches(v.todo, c)
PostsRight(v) == v.posting => v.coming \/ v.reading \/ v.todo # <<>>
\* With nothing to come the caches are where the record belongs, or as far on the way as the work is
NearRight(v) ==
  v.loaded /\ v.db # NoDoc /\ ~v.coming /\ ~v.reading => \A c \in CacheName :
    IF v.todo # <<>> THEN c # KindCache(v.db) /\ ~Touches(v.todo, c) => v.items[c] = <<>>
                     ELSE v.items[c] = Target(v, c) \/ (c = "regSub" /\ v.items[c] = <<>> /\ v.dropping)

ViewOK(v) ==
  /\ v.last => v.db = NoDoc
  /\ ~v.coming => v.dels = 0
  /\ WorkRight(v) /\ ItemsCounted(v) /\ AddFits(v) /\ SwapsRight(v) /\ PostsRight(v) /\ NearRight(v)

-----------------------------------------------------------------------------
(* Caches: how a view may change *)

LEMMA NoSteps ==
  ASSUME NEW c PROVE ~Touches(<<>>, c) /\ Drops(<<>>, c) = 0
BY DEF Touches, Drops, Range

\* An empty cache of a broker that does nothing
LEMMA ViewBare ==
  ASSUME NEW v \in ViewRec, ~v.loaded, v.todo = <<>>, v.swaps = {}, ~v.posting, \A c \in CacheName : v.items[c] = <<>>,
         v.last => v.db = NoDoc, ~v.coming => v.dels = 0
  PROVE  ViewOK(v)
<1>1. v.dels \in Nat /\ \A c \in CacheName : Len(v.items[c]) = 0 /\ Drops(v.todo, c) = 0
  BY NoSteps DEF ViewRec
<1>2. ItemsCounted(v)
  BY <1>1 DEF ItemsCounted, OneMore
<1> QED BY <1>2 DEF ViewOK, WorkRight, AddFits, SwapsRight, PostsRight, NearRight

\* Nothing changes that matters
LEMMA ViewQuiet ==
  ASSUME NEW v \in ViewRec, NEW w \in ViewRec, ViewOK(v), w.db = v.db, w.coming = v.coming, w.dels = v.dels, w.last => v.last,
         w.reading = v.reading, w.todo = v.todo, w.items = v.items, w.loaded = v.loaded, w.posting = v.posting,
         \A c \in w.swaps : c \in v.swaps \/ (v.db = NoDoc /\ c = "regSub"), v.dropping => w.dropping \/ v.db = NoDoc
  PROVE  ViewOK(w)
<1>1. \A c : Target(w, c) = Target(v, c)
  BY DEF Target
<1> QED BY <1>1 DEF ViewOK, WorkRight, ItemsCounted, AddFits, SwapsRight, PostsRight, NearRight

\* The record is written, and the event of that is to come
LEMMA ViewWritten ==
  ASSUME NEW v \in ViewRec, NEW w \in ViewRec, ViewOK(v), w.coming, w.dels = v.dels + OneMore(w.db = NoDoc),
         w.last => w.db = NoDoc, w.reading = v.reading, w.todo = v.todo, w.items = v.items, w.posting => v.db = NoDoc /\ w.db # NoDoc,
         v.db # NoDoc \/ w.db # NoDoc
  PROVE  ViewOK(w)
<1>1. v.dels \in Nat /\ w.dels \in Nat
  BY DEF ViewRec
<1>2. WorkRight(w)
  BY <1>1 DEF ViewOK, WorkRight, OneMore
<1>3. ItemsCounted(w)
  <2> SUFFICES ASSUME NEW c \in CacheName
               PROVE  Len(v.items[c]) <= w.dels + Drops(v.todo, c) + OneMore(w.db # NoDoc /\ ~w.posting)
    BY DEF ItemsCounted
  <2>1. Len(v.items[c]) <= v.dels + Drops(v.todo, c) + OneMore(v.db # NoDoc /\ ~v.posting)
    BY DEF ViewOK, ItemsCounted
  <2>2. Drops(v.todo, c) \in Nat /\ Len(v.items[c]) \in Nat
    BY DEF Drops, ViewRec
  <2>3. v.dels + OneMore(v.db # NoDoc /\ ~v.posting) <= w.dels + OneMore(w.db # NoDoc /\ ~w.posting)
    BY <1>1 DEF OneMore
  <2>4. PICK m, n, k, x, y, z : m = Len(v.items[c]) /\ n = v.dels /\ k = Drops(v.todo, c) /\ x = OneMore(v.db # NoDoc /\ ~v.posting)
                                /\ y = w.dels /\ z = OneMore(w.db # NoDoc /\ ~w.posting)
    OBVIOUS
  <2>5. x \in Nat /\ z \in Nat
    BY <2>4 DEF OneMore
  <2>6. m <= n + k + x
    BY <2>1, <2>4
  <2>7. n + x <= y + z
    BY <2>3, <2>4
  <2>8. m \in Nat /\ n \in Nat /\ k \in Nat /\ y \in Nat
    BY <1>1, <2>2, <2>4
  <2>9. m <= y + k + z
    BY <2>5, <2>6, <2>7, <2>8
  <2> QED BY <2>4, <2>9
<1>4. AddFits(w)
  <2> SUFFICES ASSUME v.todo # <<>>, Head(v.todo).do = "add"
               PROVE  Len(v.items["pernot"]) + OneMore(w.db = NoDoc) <= w.dels
    BY DEF AddFits
  <2>1. Len(v.items["pernot"]) + OneMore(v.db = NoDoc) <= v.dels /\ Len(v.items["pernot"]) \in Nat
    BY DEF ViewOK, AddFits, ViewRec, CacheName
  <2>2. PICK m, n, k : m = Len(v.items["pernot"]) /\ n = v.dels /\ k = w.dels
    OBVIOUS
  <2>4. m \in Nat /\ n \in Nat /\ k \in Nat /\ m + OneMore(v.db = NoDoc) <= n /\ k = n + OneMore(w.db = NoDoc)
    BY <1>1, <2>1, <2>2
  <2>3. m + OneMore(w.db = NoDoc) <= k
    BY <2>4 DEF OneMore
  <2> QED BY <2>2, <2>3
<1>5. SwapsRight(w) /\ PostsRight(w) /\ NearRight(w)
  BY <1>1 DEF SwapsRight, PostsRight, NearRight, OneMore
<1> QED BY <1>2, <1>3, <1>4, <1>5 DEF ViewOK

\* A POST adds its item: the event of its write has still to be applied, or is being
LEMMA ViewAdded ==
  ASSUME NEW v \in ViewRec, NEW w \in ViewRec, NEW C \in SUBSET CacheName, ViewOK(v), v.db # NoDoc, v.posting, ~w.posting,
         w.db = v.db, w.coming = v.coming, w.dels = v.dels, w.last => v.last, w.reading = v.reading, w.todo = v.todo,
         w.loaded = v.loaded, w.swaps = {}, v.todo # <<>> => Head(v.todo).do # "add",
         \A c \in CacheName : w.items[c] = IF c = KindCache(v.db) THEN Append(v.items[c], v.db) ELSE v.items[c]
  PROVE  ViewOK(w)
<1>1. WorkRight(w) /\ AddFits(w) /\ SwapsRight(w) /\ PostsRight(w)
  BY DEF ViewOK, WorkRight, AddFits, SwapsRight, PostsRight
<1>2. ItemsCounted(w)
  <2> SUFFICES ASSUME NEW c \in CacheName
               PROVE  Len(w.items[c]) <= v.dels + Drops(v.todo, c) + 1
    BY DEF ItemsCounted, OneMore
  <2>1. Len(v.items[c]) <= v.dels + Drops(v.todo, c)
    BY DEF ViewOK, ItemsCounted, OneMore, ViewRec, Drops
  <2>2. v.items[c] \in Seq(Doc) /\ v.db \in Doc
    BY DEF ViewRec
  <2>3. Len(w.items[c]) <= Len(v.items[c]) + 1 /\ Len(v.items[c]) \in Nat /\ Len(w.items[c]) \in Nat
    <3>1. PICK s, e : s = v.items[c] /\ e = v.db
      OBVIOUS
    <3>2. s \in Seq(Doc) /\ Len(s) \in Nat /\ Append(s, e) \in Seq(Doc) /\ Len(Append(s, e)) = Len(s) + 1
      BY <2>2, <3>1, AppendProperties
    <3>3. w.items[c] = s \/ w.items[c] = Append(s, e)
      BY <3>1
    <3> QED BY <3>1, <3>2, <3>3
  <2>4. v.dels \in Nat /\ Drops(v.todo, c) \in Nat
    BY DEF Drops, ViewRec
  <2>5. PICK m, n, k, x : m = Len(v.items[c]) /\ n = v.dels /\ k = Drops(v.todo, c) /\ x = Len(w.items[c])
    OBVIOUS
  <2> QED BY <2>1, <2>3, <2>4, <2>5
<1>3. NearRight(w)
  <2>1. w.loaded /\ ~w.coming /\ ~w.reading => w.todo # <<>>
    BY DEF ViewOK, PostsRight
  <2> QED BY <2>1 DEF ViewOK, NearRight
<1> QED BY <1>1, <1>2, <1>3 DEF ViewOK

\* A PATCH swaps its item in
LEMMA ViewSwapped ==
  ASSUME NEW v \in ViewRec, NEW w \in ViewRec, ViewOK(v), NEW c0 \in v.swaps, NEW d \in Doc, ~v.posting, ~w.posting,
         w.db = v.db, w.coming = v.coming, w.dels = v.dels, w.last => v.last, w.reading = v.reading, w.todo = v.todo,
         w.loaded = v.loaded, w.swaps \subseteq v.swaps, c0 = "pernot" /\ v.todo # <<>> => Head(v.todo).do # "add",
         c0 = "regSub" => v.items[c0] # <<>>,
         \A c \in CacheName : w.items[c] = IF c = c0 THEN Append(IF v.items[c] = <<>> THEN <<>> ELSE Tail(v.items[c]), d) ELSE v.items[c]
  PROVE  ViewOK(w)
<1>0. v.swaps \subseteq CacheName /\ v.dels \in Nat /\ c0 \in CacheName /\ v.items \in [CacheName -> Seq(Doc)]
  BY DEF ViewRec
<1>1. WorkRight(w) /\ SwapsRight(w) /\ PostsRight(w)
  BY DEF ViewOK, WorkRight, SwapsRight, PostsRight
<1>2. AddFits(w)
  <2> SUFFICES ASSUME v.todo # <<>>, Head(v.todo).do = "add" PROVE w.items["pernot"] = v.items["pernot"]
    BY DEF ViewOK, AddFits
  <2> QED BY DEF CacheName
<1>3. (Len(w.items[c0]) = 1 /\ v.items[c0] = <<>>) \/ Len(w.items[c0]) = Len(v.items[c0])
  <2>1. PICK s : s = v.items[c0]
    OBVIOUS
  <2>2. s \in Seq(Doc)
    BY <1>0, <2>1
  <2>3. CASE s = <<>>
    <3>1. w.items[c0] = Append(<<>>, d)
      BY <1>0, <2>1, <2>3
    <3>2. Len(Append(<<>>, d)) = 1
      OBVIOUS
    <3> QED BY <2>1, <2>3, <3>1, <3>2
  <2>4. CASE s # <<>>
    <3>1. Tail(s) \in Seq(Doc) /\ Len(Tail(s)) = Len(s) - 1 /\ Len(s) \in Nat
      BY <2>2, <2>4, HeadTailProperties
    <3>2. w.items[c0] = Append(Tail(s), d)
      BY <1>0, <2>1, <2>4
    <3>3. Len(Append(Tail(s), d)) = Len(s)
      BY <3>1, AppendProperties
    <3> QED BY <2>1, <3>2, <3>3
  <2> QED BY <2>3, <2>4
<1>4. ItemsCounted(w)
  <2> SUFFICES ASSUME NEW c \in CacheName
               PROVE  Len(w.items[c]) <= v.dels + Drops(v.todo, c) + OneMore(v.db # NoDoc)
    BY DEF ItemsCounted
  <2>1. Len(v.items[c]) <= v.dels + Drops(v.todo, c) + OneMore(v.db # NoDoc)
    BY DEF ViewOK, ItemsCounted
  <2>2. CASE Len(w.items[c]) = Len(v.items[c])
    BY <2>1, <2>2
  <2>3. CASE c = c0 /\ Len(w.items[c0]) = 1 /\ v.items[c0] = <<>>
    <3>1. v.dels + Drops(v.todo, c) + OneMore(v.db # NoDoc) >= 1
      <4>1. v.db # NoDoc \/ v.dels >= 1 \/ Drops(v.todo, c) = 1
        BY <2>3 DEF ViewOK, SwapsRight
      <4>2. Drops(v.todo, c) \in Nat /\ OneMore(v.db # NoDoc) \in Nat /\ (v.db # NoDoc => OneMore(v.db # NoDoc) = 1)
        BY DEF Drops, OneMore
      <4>3. PICK n, k, x : n = v.dels /\ k = Drops(v.todo, c) /\ x = OneMore(v.db # NoDoc)
        OBVIOUS
      <4> QED BY <1>0, <4>1, <4>2, <4>3
    <3> QED BY <2>3, <3>1
  <2>4. c # c0 => w.items[c] = v.items[c]
    OBVIOUS
  <2> QED BY <1>3, <2>2, <2>3, <2>4
<1>5. NearRight(w)
  <2> SUFFICES ASSUME v.loaded, v.db # NoDoc, ~v.coming, ~v.reading, NEW c \in CacheName
               PROVE  IF v.todo # <<>> THEN c # KindCache(v.db) /\ ~Touches(v.todo, c) => w.items[c] = <<>>
                                       ELSE w.items[c] = Target(w, c) \/ (c = "regSub" /\ w.items[c] = <<>> /\ w.dropping)
    BY DEF NearRight
  <2>1. Touches(v.todo, c0)
    BY DEF ViewOK, SwapsRight
  <2>2. v.todo # <<>>
    BY <2>1, NoSteps
  <2> QED BY <2>1, <2>2 DEF ViewOK, NearRight
<1> QED BY <1>1, <1>2, <1>4, <1>5 DEF ViewOK

\* A DELETE takes its item out
LEMMA ViewRemoved ==
  ASSUME NEW v \in ViewRec, NEW w \in ViewRec, ViewOK(v), NEW c0 \in CacheName, w.posting = v.posting,
         w.db = v.db, w.coming = v.coming, w.dels = v.dels, w.last => v.last, w.reading = v.reading, w.todo = v.todo,
         w.loaded = v.loaded, w.swaps \subseteq v.swaps,
         v.db # NoDoc => c0 = "regSub" /\ v.items[c0] # <<>> /\ w.dropping,
         \A c \in CacheName : w.items[c] = IF c = c0 THEN (IF v.items[c] = <<>> THEN <<>> ELSE Tail(v.items[c])) ELSE v.items[c]
  PROVE  ViewOK(w)
<1>0. v.dels \in Nat /\ v.items \in [CacheName -> Seq(Doc)]
  BY DEF ViewRec
<1>1. WorkRight(w) /\ SwapsRight(w) /\ PostsRight(w)
  BY DEF ViewOK, WorkRight, SwapsRight, PostsRight
<1>2. \A c \in CacheName : Len(w.items[c]) <= Len(v.items[c]) /\ Len(w.items[c]) \in Nat /\ Len(v.items[c]) \in Nat
  <2> SUFFICES ASSUME NEW c \in CacheName PROVE Len(w.items[c]) <= Len(v.items[c]) /\ Len(w.items[c]) \in Nat /\ Len(v.items[c]) \in Nat
    OBVIOUS
  <2>1. PICK s : s = v.items[c]
    OBVIOUS
  <2>2. s \in Seq(Doc) /\ Len(s) \in Nat
    BY <1>0, <2>1
  <2>3. s # <<>> => Tail(s) \in Seq(Doc) /\ Len(Tail(s)) = Len(s) - 1
    BY <2>2, HeadTailProperties
  <2>4. w.items[c] = s \/ (s # <<>> /\ w.items[c] = Tail(s))
    BY <2>1
  <2>5. CASE w.items[c] = s
    BY <2>1, <2>2, <2>5
  <2>6. CASE s # <<>> /\ w.items[c] = Tail(s)
    <3>1. PICK t : t = Tail(s)
      OBVIOUS
    <3>2. t \in Seq(Doc) /\ Len(t) = Len(s) - 1
      BY <2>3, <2>6, <3>1
    <3>3. Len(t) \in Nat
      BY <3>2
    <3> QED BY <2>1, <2>2, <2>6, <3>1, <3>2, <3>3
  <2> QED BY <2>4, <2>5, <2>6
<1>3. AddFits(w)
  <2> SUFFICES ASSUME v.todo # <<>>, Head(v.todo).do = "add"
               PROVE  Len(w.items["pernot"]) + OneMore(v.db = NoDoc) <= v.dels
    BY DEF AddFits
  <2>1. Len(v.items["pernot"]) + OneMore(v.db = NoDoc) <= v.dels /\ "pernot" \in CacheName
    BY DEF ViewOK, AddFits, CacheName
  <2>2. PICK m, n, k, x : m = Len(v.items["pernot"]) /\ n = Len(w.items["pernot"]) /\ k = v.dels /\ x = OneMore(v.db = NoDoc)
    OBVIOUS
  <2>3. x \in Nat
    BY <2>2 DEF OneMore
  <2> QED BY <1>0, <1>2, <2>1, <2>2, <2>3
<1>4. ItemsCounted(w)
  <2> SUFFICES ASSUME NEW c \in CacheName
               PROVE  Len(w.items[c]) <= v.dels + Drops(v.todo, c) + OneMore(v.db # NoDoc /\ ~v.posting)
    BY DEF ItemsCounted
  <2>1. Len(v.items[c]) <= v.dels + Drops(v.todo, c) + OneMore(v.db # NoDoc /\ ~v.posting)
    BY DEF ViewOK, ItemsCounted
  <2>2. PICK m, n, k : m = Len(v.items[c]) /\ n = Len(w.items[c]) /\ k = v.dels + Drops(v.todo, c) + OneMore(v.db # NoDoc /\ ~v.posting)
    OBVIOUS
  <2>3. k \in Nat
    BY <1>0, <2>2 DEF OneMore, Drops
  <2> QED BY <1>2, <2>1, <2>2, <2>3
<1>5. NearRight(w)
  <2> SUFFICES ASSUME v.loaded, v.db # NoDoc, ~v.coming, ~v.reading, NEW c \in CacheName
               PROVE  IF v.todo # <<>> THEN c # KindCache(v.db) /\ ~Touches(v.todo, c) => w.items[c] = <<>>
                                       ELSE w.items[c] = Target(v, c) \/ (c = "regSub" /\ w.items[c] = <<>> /\ w.dropping)
    BY DEF NearRight, Target
  <2>1. IF v.todo # <<>> THEN c # KindCache(v.db) /\ ~Touches(v.todo, c) => v.items[c] = <<>>
                         ELSE v.items[c] = Target(v, c) \/ (c = "regSub" /\ v.items[c] = <<>> /\ v.dropping)
    BY DEF ViewOK, NearRight
  <2>2. CASE c # c0 \/ v.items[c] = <<>>
    BY <2>1, <2>2
  <2>3. CASE c = c0 /\ v.items[c] # <<>>
    <3>1. v.todo = <<>> => w.items[c] = <<>>
      <4> SUFFICES ASSUME v.todo = <<>> PROVE w.items[c] = <<>>
        OBVIOUS
      <4>1. v.items[c] = <<v.db>>
        BY <2>1, <2>3 DEF Target
      <4>2. w.items[c] = Tail(<<v.db>>)
        BY <2>3, <4>1
      <4>3. Tail(<<v.db>>) = <<>>
        OBVIOUS
      <4> QED BY <4>2, <4>3
    <3> QED BY <2>1, <2>3, <3>1
  <2> QED BY <2>2, <2>3
<1> QED BY <1>1, <1>3, <1>4, <1>5 DEF ViewOK

\* What the first of the lock holds leaves of them
LEMMA HoldsTail ==
  ASSUME NEW t \in Seq(HoldRec), t # <<>>
  PROVE  /\ Tail(t) \in Seq(HoldRec) /\ Head(t) \in HoldRec /\ Range(t) = {Head(t)} \cup Range(Tail(t))
         /\ \A c : (Touches(t, c) <=> Head(t).cache = c \/ Touches(Tail(t), c))
         /\ \A c : Drops(t, c) \in {0, 1} /\ (Head(t).cache # c => Drops(t, c) <= Drops(Tail(t), c))
         /\ \A c : Head(t).do # "remove" => Drops(t, c) = 0
<1>1. /\ Tail(t) \in Seq(HoldRec) /\ Len(Tail(t)) = Len(t) - 1 /\ Len(t) \in Nat /\ Len(t) # 0
      /\ (\A n \in 1..Len(Tail(t)) : Tail(t)[n] = t[n + 1]) /\ Head(t) = t[1] /\ Head(t) \in HoldRec
  BY HeadTailProperties
<1>2. PICK h, u : h = Head(t) /\ u = Tail(t)
  OBVIOUS
<1>3. /\ u \in Seq(HoldRec) /\ DOMAIN t = 1..Len(t) /\ DOMAIN u = 1..Len(u) /\ Len(u) \in Nat
      /\ (\A n \in DOMAIN u : n + 1 \in DOMAIN t /\ u[n] = t[n + 1])
      /\ (\A n \in DOMAIN t : n = 1 \/ (n - 1 \in DOMAIN u /\ t[n] = u[n - 1])) /\ 1 \in DOMAIN t /\ t[1] = h /\ h \in HoldRec
  <2>1. DOMAIN t = 1..Len(t) /\ DOMAIN u = 1..Len(u)
    BY <1>1, <1>2
  <2>2. \A n \in DOMAIN t : n = 1 \/ (n - 1 \in DOMAIN u /\ t[n] = u[n - 1])
    BY <1>1, <1>2, <2>1
  <2>3. \A n \in DOMAIN u : n + 1 \in DOMAIN t /\ u[n] = t[n + 1]
    BY <1>1, <1>2, <2>1
  <2> QED BY <1>1, <1>2, <2>1, <2>2, <2>3
<1>4. Range(t) = {h} \cup Range(u)
  BY <1>3 DEF Range
<1>5. \A c : (Touches(t, c) <=> h.cache = c \/ Touches(u, c))
  BY <1>4 DEF Touches
<1>6. \A c : Drops(t, c) \in {0, 1} /\ Drops(u, c) \in {0, 1}
  BY DEF Drops
<1>7. \A c : h.cache # c => Drops(t, c) <= Drops(u, c)
  BY <1>4, <1>5 DEF Drops
<1>8. \A c : h.do # "remove" => Drops(t, c) = 0
  BY <1>4 DEF Drops
<1> QED BY <1>1, <1>2, <1>4, <1>5, <1>6, <1>7, <1>8

LEMMA FixesTail ==
  ASSUME NEW t \in Seq(HoldRec), NEW e \in Doc \cup {NoDoc}, Fixes(t, e)
  PROVE  /\ Tail(t) # <<>> => /\ Fixes(Tail(t), e) /\ Head(t).do = "remove"
                              /\ Head(Tail(t)).do = "add" => Head(t).cache = "pernot"
         /\ Tail(t) = <<>> /\ e = NoDoc => Head(t).do = "remove"
         /\ Tail(t) = <<>> /\ e # NoDoc => Head(t) = IF e.kind = "pernot" THEN Add("pernot", e) ELSE Swap(KindCache(e), e)
         /\ e # NoDoc => \A c : Drops(t, c) = 0
<1>1. t # <<>>
  BY DEF Fixes
<1>2. /\ Tail(t) \in Seq(HoldRec) /\ Len(Tail(t)) = Len(t) - 1 /\ Len(t) \in Nat /\ Len(t) # 0
      /\ (\A n \in 1..Len(Tail(t)) : Tail(t)[n] = t[n + 1]) /\ Head(t) = t[1] /\ Head(t) \in HoldRec
  BY <1>1, HeadTailProperties
<1>3. PICK h, u, m, k : h = Head(t) /\ u = Tail(t) /\ m = Len(t) /\ k = Len(u)
  OBVIOUS
<1>4. /\ DOMAIN t = 1..m /\ DOMAIN u = 1..k /\ m \in Nat /\ m > 0 /\ k = m - 1 /\ (\A n \in 1..k : u[n] = t[n + 1]) /\ h = t[1]
      /\ u \in Seq(HoldRec) /\ (u = <<>> <=> k = 0) /\ (u # <<>> => Head(u) = u[1])
  <2>1. u \in Seq(HoldRec) /\ k = Len(u) /\ k \in Nat
    BY <1>2, <1>3
  <2>2. (u = <<>> <=> k = 0) /\ (u # <<>> => Head(u) = u[1])
    BY <2>1
  <2>3. DOMAIN t = 1..m /\ DOMAIN u = 1..k
    BY <1>3, <2>1
  <2> QED BY <1>2, <1>3, <2>1, <2>2, <2>3
<1>5. /\ \A n \in 1..m : n < m => t[n].do = "remove"
      /\ e = NoDoc => t[m].do = "remove"
      /\ e # NoDoc /\ e.kind = "pernot" => t[m] = Add("pernot", e) /\ (m > 1 => t[m - 1] = Remove("pernot"))
      /\ e # NoDoc /\ e.kind # "pernot" => t[m] = Swap(KindCache(e), e)
  BY <1>3, <1>4 DEF Fixes
<1>6. Remove("pernot").cache = "pernot" /\ Add("pernot", e).do = "add" /\ Swap(KindCache(e), e).do = "swap" /\ "remove" # "add"
  BY DEF Remove, Add, Swap
<1>7. ASSUME u # <<>> PROVE Fixes(u, e) /\ h.do = "remove" /\ (Head(u).do = "add" => h.cache = "pernot")
  <2>1. k > 0 /\ m > 1 /\ u[k] = t[m] /\ Head(u) = u[1] /\ u[1] = t[2]
    BY <1>4, <1>7
  <2>2. h.do = "remove"
    BY <1>4, <1>5, <2>1
  <2>3. \A n \in 1..k : n < k => u[n].do = "remove"
    BY <1>4, <1>5
  <2>4. k > 1 => u[k - 1] = t[m - 1]
    BY <1>4
  <2>5. Fixes(u, e)
    BY <1>3, <1>4, <1>5, <1>7, <2>1, <2>3, <2>4 DEF Fixes
  <2>6. Head(u).do = "add" => h.cache = "pernot"
    <3> SUFFICES ASSUME Head(u).do = "add" PROVE h.cache = "pernot"
      OBVIOUS
    <3>1. k = 1 /\ m = 2
      BY <1>4, <1>6, <2>1, <2>3
    <3>2. e # NoDoc /\ e.kind = "pernot"
      BY <1>5, <1>6, <2>1, <3>1
    <3> QED BY <1>4, <1>5, <1>6, <3>1, <3>2
  <2> QED BY <2>2, <2>5, <2>6
<1>8. u = <<>> => m = 1 /\ h = t[m]
  BY <1>4
<1>9. ASSUME e # NoDoc PROVE \A c : Drops(t, c) = 0
  <2>1. t[m].do # "remove" /\ t[m] \in Range(t)
    BY <1>4, <1>5, <1>6, <1>9 DEF Range, Add, Swap
  <2> QED BY <2>1 DEF Drops
<1> QED BY <1>3, <1>5, <1>7, <1>8, <1>9

\* The caches a record may be in
Homes(i) == IF i \in RegId THEN {"reg"} ELSE CacheName \ {"reg"}
HomesRight(v, C) ==
  (\A c \in CacheName \ C : v.items[c] = <<>>) /\ v.swaps \subseteq C /\ (v.db # NoDoc => KindCache(v.db) \in C)

\* What an event, and the read after it, leave alone
Onlooking(v, w) ==
  /\ w.db = v.db /\ w.items = v.items /\ w.loaded = v.loaded /\ w.posting = v.posting /\ w.swaps = v.swaps
  /\ w.dropping = v.dropping /\ (w.last => v.last)

\* A deletion is taken from the stream
LEMMA ViewDeleteTaken ==
  ASSUME NEW v \in ViewRec, NEW w \in ViewRec, NEW C \in SUBSET CacheName, ViewOK(v), HomesRight(v, C), Onlooking(v, w),
         v.todo = <<>>, ~v.reading, ~w.reading, v.coming, v.dels = w.dels + 1, ~w.coming => v.last /\ w.dels = 0,
         Fixes(w.todo, NoDoc), \A h \in Range(w.todo) : h.do = "remove", \A c \in C : Touches(w.todo, c)
  PROVE  ViewOK(w)
<1>1. v.dels \in Nat /\ w.dels \in Nat /\ w.todo \in Seq(HoldRec) /\ w.todo # <<>> /\ v.items \in [CacheName -> Seq(Doc)]
      /\ v.swaps \subseteq CacheName
  BY DEF ViewRec, Fixes
<1>2. ~w.coming => w.db = NoDoc
  BY DEF ViewOK, Onlooking
<1>3. \A c \in C : Drops(w.todo, c) = 1
  BY DEF Drops
<1>4. WorkRight(w)
  BY <1>2 DEF WorkRight
<1>5. ItemsCounted(w)
  <2> SUFFICES ASSUME NEW c \in CacheName
               PROVE  Len(v.items[c]) <= w.dels + Drops(w.todo, c) + OneMore(v.db # NoDoc /\ ~v.posting)
    BY DEF ItemsCounted, Onlooking
  <2>1. Len(v.items[c]) <= v.dels + 0 + OneMore(v.db # NoDoc /\ ~v.posting)
    BY NoSteps DEF ViewOK, ItemsCounted
  <2>2. OneMore(v.db # NoDoc /\ ~v.posting) \in Nat /\ Drops(w.todo, c) \in Nat
    BY DEF OneMore, Drops
  <2>3. CASE c \in C
    BY <1>1, <1>3, <2>1, <2>2, <2>3
  <2>4. CASE c \notin C
    <3>1. v.items[c] = <<>>
      BY <2>4 DEF HomesRight
    <3>2. Len(v.items[c]) = 0
      BY <3>1
    <3> QED BY <1>1, <2>2, <3>2
  <2> QED BY <2>3, <2>4
<1>6. AddFits(w)
  <2>1. Head(w.todo) \in Range(w.todo)
    BY <1>1, TailSub
  <2> QED BY <2>1 DEF AddFits
<1>7. SwapsRight(w)
  BY <1>3 DEF SwapsRight, HomesRight, Onlooking
<1>8. PostsRight(w)
  BY <1>1 DEF PostsRight
<1>9. NearRight(w)
  BY <1>2 DEF NearRight
<1>10. (w.last => w.db = NoDoc) /\ (~w.coming => w.dels = 0)
  BY <1>2 DEF ViewOK, Onlooking
<1> QED BY <1>4, <1>5, <1>6, <1>7, <1>8, <1>9, <1>10 DEF ViewOK

\* Another event is taken
LEMMA ViewUpsertTaken ==
  ASSUME NEW v \in ViewRec, NEW w \in ViewRec, ViewOK(v), Onlooking(v, w),
         v.todo = <<>>, w.todo = <<>>, ~v.reading, w.reading, v.coming, v.dels = w.dels, ~w.coming => w.dels = 0
  PROVE  ViewOK(w)
<1>1. \A c : Drops(v.todo, c) = 0
  BY NoSteps
<1>2. SwapsRight(w)
  BY <1>1 DEF ViewOK, SwapsRight, Onlooking
<1>3. (w.last => w.db = NoDoc) /\ (~w.coming => w.dels = 0) /\ WorkRight(w) /\ AddFits(w) /\ PostsRight(w) /\ NearRight(w)
  BY DEF ViewOK, WorkRight, AddFits, PostsRight, NearRight, Onlooking
<1>4. ItemsCounted(w)
  BY DEF ViewOK, ItemsCounted, Onlooking
<1> QED BY <1>2, <1>3, <1>4 DEF ViewOK

\* The record is read again
LEMMA ViewReread ==
  ASSUME NEW v \in ViewRec, NEW w \in ViewRec, NEW C \in SUBSET CacheName, ViewOK(v), HomesRight(v, C), Onlooking(v, w),
         w.coming = v.coming, w.dels = v.dels, v.todo = <<>>, v.reading, ~w.reading,
         Fixes(w.todo, v.db), Head(w.todo).do # "add", \A c \in C : Touches(w.todo, c)
  PROVE  ViewOK(w)
<1>1. v.dels \in Nat /\ w.todo # <<>> /\ v.items \in [CacheName -> Seq(Doc)] /\ v.swaps \subseteq CacheName
      /\ v.db \in Doc \cup {NoDoc}
  BY DEF ViewRec, Fixes
<1>2. \A c : Drops(v.todo, c) = 0 /\ Drops(w.todo, c) \in {0, 1}
  BY NoSteps DEF Drops
<1>3. WorkRight(w)
  BY <1>1 DEF WorkRight, Onlooking
<1>4. ItemsCounted(w)
  <2> SUFFICES ASSUME NEW c \in CacheName
               PROVE  Len(v.items[c]) <= v.dels + Drops(w.todo, c) + OneMore(v.db # NoDoc /\ ~v.posting)
    BY DEF ItemsCounted, Onlooking
  <2>1. Len(v.items[c]) <= v.dels + 0 + OneMore(v.db # NoDoc /\ ~v.posting)
    BY <1>2 DEF ViewOK, ItemsCounted
  <2>2. OneMore(v.db # NoDoc /\ ~v.posting) \in Nat /\ Len(v.items[c]) \in Nat
    BY <1>1 DEF OneMore
  <2> QED BY <1>1, <1>2, <2>1, <2>2
<1>5. AddFits(w)
  BY DEF AddFits
<1>6. SwapsRight(w)
  BY <1>2 DEF ViewOK, SwapsRight, HomesRight, Onlooking
<1>7. PostsRight(w)
  BY <1>1 DEF PostsRight
<1>8. NearRight(w)
  BY <1>1 DEF NearRight, HomesRight, Onlooking
<1>9. (w.last => w.db = NoDoc) /\ (~w.coming => w.dels = 0)
  BY DEF ViewOK, Onlooking
<1> QED BY <1>3, <1>4, <1>5, <1>6, <1>7, <1>8, <1>9 DEF ViewOK

\* A broker has loaded its caches
LEMMA ViewLoaded ==
  ASSUME NEW w \in ViewRec, w.last => w.db = NoDoc, ~w.coming => w.dels = 0,
         w.todo = <<>>, w.swaps = {}, ~w.posting, \A c \in CacheName : w.items[c] = Target(w, c)
  PROVE  ViewOK(w)
<1>1. w.dels \in Nat
  BY DEF ViewRec
<1>2. ItemsCounted(w)
  <2> SUFFICES ASSUME NEW c \in CacheName
               PROVE  Len(w.items[c]) <= w.dels + Drops(w.todo, c) + OneMore(w.db # NoDoc /\ ~w.posting)
    BY DEF ItemsCounted
  <2>1. Drops(w.todo, c) = 0
    BY NoSteps
  <2>2. CASE w.db # NoDoc
    <3>1. Len(<<w.db>>) = 1 /\ Len(<<>>) = 0
      OBVIOUS
    <3>2. Len(w.items[c]) \in {0, 1}
      <4>1. w.items[c] = <<w.db>> \/ w.items[c] = <<>>
        BY DEF Target
      <4> QED BY <3>1, <4>1
    <3>3. PICK x : x = OneMore(w.db # NoDoc /\ ~w.posting)
      OBVIOUS
    <3>4. x = 1
      BY <2>2, <3>3 DEF OneMore
    <3>5. PICK m, n, k : m = Len(w.items[c]) /\ n = w.dels /\ k = Drops(w.todo, c)
      OBVIOUS
    <3>7. m \in {0, 1} /\ n \in Nat /\ k = 0
      BY <1>1, <2>1, <3>2, <3>5
    <3>8. m = 0 \/ m = 1
      BY <3>7
    <3>6. m <= n + k + x
      BY <3>4, <3>7, <3>8
    <3> QED BY <3>3, <3>5, <3>6
  <2>3. CASE w.db = NoDoc
    <3>1. w.items[c] = <<>>
      BY <2>3 DEF Target
    <3>2. Len(w.items[c]) = 0
      BY <3>1
    <3> QED BY <1>1, <2>1, <2>3, <3>2 DEF OneMore
  <2> QED BY <2>2, <2>3
<1> QED BY <1>2 DEF ViewOK, WorkRight, AddFits, SwapsRight, PostsRight, NearRight

\* One lock hold is over, in cache c0: nobody is about to swap there
LockHeld(v, w, c0) ==
  /\ v.todo # <<>> /\ c0 = Head(v.todo).cache /\ w.todo = Tail(v.todo) /\ c0 \notin v.swaps /\ ~v.reading /\ ~w.reading
  /\ w.db = v.db /\ w.coming = v.coming /\ w.dels = v.dels /\ (w.last => v.last) /\ w.loaded = v.loaded
  /\ w.posting = v.posting /\ (v.posting => v.db # NoDoc) /\ w.swaps = v.swaps /\ w.dropping = v.dropping
  /\ \A c \in CacheName \ {c0} : w.items[c] = v.items[c]

\* Of these, what the swaps need
LEMMA HeldSwaps ==
  ASSUME NEW v \in ViewRec, NEW w \in ViewRec, ViewOK(v), NEW c0 \in CacheName, LockHeld(v, w, c0)
  PROVE  SwapsRight(w)
<1>1. v.todo \in Seq(HoldRec) /\ v.todo # <<>> /\ w.todo = Tail(v.todo) /\ v.swaps \subseteq CacheName
  BY DEF LockHeld, ViewRec
<1> SUFFICES ASSUME NEW c \in v.swaps
             PROVE  IF v.db = NoDoc THEN c = "regSub" \/ v.dels >= 1 \/ Drops(w.todo, c) = 1
                                    ELSE v.coming \/ Touches(w.todo, c)
  BY DEF SwapsRight, LockHeld
<1>2. IF v.db = NoDoc THEN c = "regSub" \/ v.dels >= 1 \/ Drops(v.todo, c) = 1 ELSE v.coming \/ Touches(v.todo, c)
  BY DEF ViewOK, SwapsRight, LockHeld
<1>3. Head(v.todo).cache # c
  BY DEF LockHeld
<1>4. Touches(v.todo, c) => Touches(w.todo, c)
  BY <1>1, <1>3, HoldsTail
<1>5. Drops(v.todo, c) = 1 => Drops(w.todo, c) = 1
  <2>1. Drops(v.todo, c) <= Drops(w.todo, c)
    BY <1>1, <1>3, HoldsTail
  <2>2. Drops(w.todo, c) \in {0, 1}
    BY DEF Drops
  <2> QED BY <2>1, <2>2
<1> QED BY <1>2, <1>4, <1>5

\* An item was taken out
LEMMA ViewHoldRemoved ==
  ASSUME NEW v \in ViewRec, NEW w \in ViewRec, ViewOK(v), NEW c0 \in CacheName, LockHeld(v, w, c0), Head(v.todo).do = "remove",
         w.items[c0] = IF v.items[c0] = <<>> THEN <<>> ELSE Tail(v.items[c0])
  PROVE  ViewOK(w)
<1>0. v.dels \in Nat /\ v.items \in [CacheName -> Seq(Doc)] /\ v.db \in Doc \cup {NoDoc} /\ v.todo \in Seq(HoldRec) /\ v.todo # <<>>
      /\ w.todo \in Seq(HoldRec) /\ w.todo = Tail(v.todo) /\ Head(v.todo).cache = c0
  BY DEF ViewRec, LockHeld
<1>1. PICK e \in Doc \cup {NoDoc} : Fixes(v.todo, e) /\ (~v.coming => e = v.db) /\ (e # NoDoc /\ v.db = NoDoc => v.dels >= 1)
  BY <1>0 DEF ViewOK, WorkRight
<1>2. /\ w.todo # <<>> => Fixes(w.todo, e) /\ (Head(w.todo).do = "add" => c0 = "pernot")
      /\ w.todo = <<>> => e = NoDoc
      /\ e # NoDoc => \A c : Drops(v.todo, c) = 0
  <2>1. Add("pernot", e).do # "remove" /\ Swap(KindCache(e), e).do # "remove"
    BY DEF Add, Swap
  <2> QED BY <1>0, <1>1, <2>1, FixesTail
<1>3. WorkRight(w)
  BY <1>1, <1>2 DEF WorkRight, LockHeld
<1>4. PICK m, n : m = Len(v.items[c0]) /\ n = Len(w.items[c0])
  OBVIOUS
<1>5. m \in Nat /\ n \in Nat /\ (m = 0 => n = 0 /\ v.items[c0] = <<>>) /\ (m # 0 => n = m - 1) /\ (n = 0 => w.items[c0] = <<>>)
  <2>1. PICK s, t : s = v.items[c0] /\ t = w.items[c0]
    OBVIOUS
  <2>2. s \in Seq(Doc) /\ t \in Seq(Doc)
    BY <1>0, <2>1 DEF ViewRec
  <2>3. Len(s) \in Nat /\ Len(t) \in Nat /\ (Len(s) = 0 <=> s = <<>>) /\ (Len(t) = 0 <=> t = <<>>)
    BY <2>2
  <2>4. s # <<>> => t = Tail(s) /\ Len(t) = Len(s) - 1
    BY <2>1, <2>2, HeadTailProperties
  <2>5. s = <<>> => t = <<>>
    BY <2>1
  <2> QED BY <1>4, <2>1, <2>3, <2>4, <2>5
<1>6. m <= v.dels + Drops(v.todo, c0) + OneMore(v.db # NoDoc /\ ~v.posting)
  BY <1>4 DEF ViewOK, ItemsCounted
<1>7. \A c : Drops(v.todo, c) \in {0, 1} /\ Drops(w.todo, c) \in {0, 1}
  BY DEF Drops
<1>8. PICK x : x = OneMore(v.db # NoDoc /\ ~v.posting)
  OBVIOUS
<1>9. x \in {0, 1} /\ (v.db = NoDoc => x = 0)
  BY <1>8 DEF OneMore
<1>10. ItemsCounted(w)
  <2> SUFFICES ASSUME NEW c \in CacheName
               PROVE  Len(w.items[c]) <= v.dels + Drops(w.todo, c) + x
    BY <1>8 DEF ItemsCounted, LockHeld
  <2>1. CASE c = c0
    <3>1. PICK k, y, z : k = v.dels /\ y = Drops(v.todo, c0) /\ z = Drops(w.todo, c0)
      OBVIOUS
    <3>2. k \in Nat /\ y \in {0, 1} /\ z \in {0, 1} /\ m <= k + y + x
      BY <1>0, <1>6, <1>7, <1>8, <3>1
    <3>3. n <= k + z + x
      BY <1>5, <1>9, <3>2
    <3> QED BY <1>4, <2>1, <3>1, <3>3
  <2>2. CASE c # c0
    <3>1. w.items[c] = v.items[c]
      BY <2>2 DEF LockHeld
    <3>2. Len(v.items[c]) <= v.dels + Drops(v.todo, c) + x
      BY <1>8 DEF ViewOK, ItemsCounted
    <3>3. Drops(v.todo, c) <= Drops(w.todo, c)
      BY <1>0, <2>2, HoldsTail
    <3>4. PICK l, k, y, z : l = Len(v.items[c]) /\ k = v.dels /\ y = Drops(v.todo, c) /\ z = Drops(w.todo, c)
      OBVIOUS
    <3>5. l \in Nat /\ k \in Nat /\ y \in {0, 1} /\ z \in {0, 1} /\ l <= k + y + x /\ y <= z
      BY <1>0, <1>7, <3>2, <3>3, <3>4
    <3>6. l <= k + z + x
      BY <1>9, <3>5
    <3> QED BY <3>1, <3>4, <3>6
  <2> QED BY <2>1, <2>2
<1>11. AddFits(w)
  <2> SUFFICES ASSUME w.todo # <<>>, Head(w.todo).do = "add" PROVE Len(w.items["pernot"]) + OneMore(v.db = NoDoc) <= v.dels
    BY DEF AddFits, LockHeld
  <2>1. c0 = "pernot" /\ Fixes(w.todo, e)
    BY <1>2
  <2>2. e # NoDoc
    <3>1. Head(w.todo) \in Range(w.todo)
      BY <1>0, TailSub
    <3> SUFFICES ASSUME e = NoDoc PROVE FALSE
      OBVIOUS
    <3>2. \A k \in DOMAIN w.todo : w.todo[k].do = "remove"
      <4>1. DOMAIN w.todo = 1..Len(w.todo) /\ Len(w.todo) \in Nat
        BY <1>0
      <4> QED BY <2>1, <4>1 DEF Fixes
    <3> QED BY <3>1, <3>2 DEF Range
  <2>3. Drops(v.todo, c0) = 0
    BY <1>2, <2>2
  <2>4. PICK k, y : k = v.dels /\ y = OneMore(v.db = NoDoc)
    OBVIOUS
  <2>5. k \in Nat /\ m <= k + x /\ (v.db = NoDoc => y = 1 /\ k >= 1) /\ (v.db # NoDoc => y = 0)
    <3>1. k \in Nat /\ m <= k + 0 + x
      BY <1>0, <1>6, <1>8, <2>3, <2>4
    <3>2. (v.db = NoDoc => y = 1 /\ k >= 1) /\ (v.db # NoDoc => y = 0)
      BY <1>1, <2>2, <2>4 DEF OneMore
    <3> QED BY <1>9, <3>1, <3>2
  <2>6. n + y <= k
    <3>1. CASE v.db = NoDoc
      BY <1>5, <1>9, <2>5, <3>1
    <3>2. CASE v.db # NoDoc
      BY <1>5, <1>9, <2>5, <3>2
    <3> QED BY <3>1, <3>2
  <2> QED BY <1>4, <2>1, <2>4, <2>6
<1>12. SwapsRight(w)
  BY HeldSwaps
<1>13. PostsRight(w)
  <2> SUFFICES ASSUME v.posting, ~v.coming, w.todo = <<>> PROVE FALSE
    BY DEF PostsRight, LockHeld
  <2> QED BY <1>1, <1>2 DEF LockHeld
<1>14. NearRight(w)
  <2> SUFFICES ASSUME v.loaded, v.db # NoDoc, ~v.coming, NEW c \in CacheName
               PROVE  w.todo # <<>> /\ (c # KindCache(v.db) /\ ~Touches(w.todo, c) => w.items[c] = <<>>)
    BY DEF NearRight, LockHeld
  <2>1. e = v.db /\ w.todo # <<>> /\ Drops(v.todo, c0) = 0
    BY <1>1, <1>2
  <2>2. CASE c = c0
    <3>1. v.dels = 0
      BY DEF ViewOK
    <3>2. m <= 1
      <4>1. m <= 0 + 0 + x
        BY <1>6, <1>8, <2>1, <3>1
      <4> QED BY <1>5, <1>9, <4>1
    <3>3. n = 0
      BY <1>5, <3>2
    <3>4. w.items[c] = <<>>
      BY <1>5, <2>2, <3>3
    <3> QED BY <2>1, <3>4
  <2>3. CASE c # c0
    <3>1. c # KindCache(v.db) /\ ~Touches(v.todo, c) => v.items[c] = <<>>
      BY <1>0 DEF ViewOK, NearRight, LockHeld
    <3>2. Touches(v.todo, c) => Touches(w.todo, c)
      BY <1>0, <2>3, HoldsTail
    <3> QED BY <2>1, <2>3, <3>1, <3>2 DEF LockHeld
  <2> QED BY <2>2, <2>3
<1>15. (w.last => w.db = NoDoc) /\ (~w.coming => w.dels = 0)
  BY DEF ViewOK, LockHeld
<1> QED BY <1>3, <1>10, <1>11, <1>12, <1>13, <1>14, <1>15 DEF ViewOK

\* The document read was stored: the last of the holds
LEMMA ViewHoldStored ==
  ASSUME NEW v \in ViewRec, NEW w \in ViewRec, ViewOK(v), NEW c0 \in CacheName, NEW d \in Doc, LockHeld(v, w, c0), ~v.posting,
         Head(v.todo).doc = d,
         \/ Head(v.todo).do = "swap" /\ w.items[c0] = Append(IF v.items[c0] = <<>> THEN <<>> ELSE Tail(v.items[c0]), d)
         \/ Head(v.todo).do = "add" /\ w.items[c0] = Append(v.items[c0], d)
  PROVE  ViewOK(w)
<1>0. v.dels \in Nat /\ v.items \in [CacheName -> Seq(Doc)] /\ v.db \in Doc \cup {NoDoc} /\ v.todo \in Seq(HoldRec) /\ v.todo # <<>>
      /\ w.todo \in Seq(HoldRec) /\ w.todo = Tail(v.todo) /\ Head(v.todo).cache = c0 /\ Head(v.todo).do # "remove"
  BY DEF ViewRec, LockHeld
<1>1. PICK e \in Doc \cup {NoDoc} : Fixes(v.todo, e) /\ (~v.coming => e = v.db) /\ (e # NoDoc /\ v.db = NoDoc => v.dels >= 1)
  BY <1>0 DEF ViewOK, WorkRight
<1>2. /\ w.todo = <<>> /\ e = d /\ e # NoDoc /\ c0 = KindCache(d) /\ (Head(v.todo).do = "add" => c0 = "pernot")
      /\ \A c : Drops(v.todo, c) = 0
  <2>1. w.todo = <<>> /\ e # NoDoc
    BY <1>0, <1>1, FixesTail
  <2>2. Head(v.todo) = IF e.kind = "pernot" THEN Add("pernot", e) ELSE Swap(KindCache(e), e)
    BY <1>0, <1>1, <2>1, FixesTail
  <2>3. \A c : Drops(v.todo, c) = 0
    BY <1>0, HoldsTail
  <2>4. e.kind = "pernot" => KindCache(e) = "pernot"
    BY DEF KindCache, TenantSubCacheItemKind
  <2>5. d = e /\ c0 = KindCache(e) /\ (Head(v.todo).do = "add" => c0 = "pernot")
    <3>1. CASE e.kind = "pernot"
      BY <1>0, <2>2, <2>4, <3>1 DEF Add
    <3>2. CASE e.kind # "pernot"
      BY <1>0, <2>2, <3>2 DEF Swap
    <3> QED BY <3>1, <3>2
  <2> QED BY <2>1, <2>3, <2>5
<1>3. \A c : Drops(w.todo, c) = 0 /\ ~Touches(w.todo, c)
  BY <1>2, NoSteps
<1>4. PICK m, n : m = Len(v.items[c0]) /\ n = Len(w.items[c0])
  OBVIOUS
<1>5. /\ m \in Nat /\ n \in Nat /\ (Head(v.todo).do = "add" => n = m + 1) /\ (Head(v.todo).do = "swap" => n = IF m = 0 THEN 1 ELSE m)
      /\ n = 1 => w.items[c0] = <<d>>
  <2>1. PICK s : s = v.items[c0]
    OBVIOUS
  <2>2. s \in Seq(Doc) /\ Len(s) \in Nat /\ (Len(s) = 0 <=> s = <<>>)
    BY <1>0, <2>1
  <2>3. PICK u \in Seq(Doc) : w.items[c0] = Append(u, d) /\ Len(u) \in Nat
                             /\ (Head(v.todo).do = "add" => u = s) /\ (Head(v.todo).do = "swap" => Len(u) = IF Len(s) = 0 THEN 0 ELSE Len(s) - 1)
    <3>1. CASE Head(v.todo).do = "add"
      BY <2>1, <2>2, <3>1
    <3>2. CASE Head(v.todo).do = "swap" /\ s = <<>>
      <4>1. w.items[c0] = Append(<<>>, d)
        BY <2>1, <3>2
      <4>2. <<>> \in Seq(Doc) /\ Len(<<>>) = 0
        OBVIOUS
      <4>3. \E u \in Seq(Doc) : w.items[c0] = Append(u, d) /\ u = <<>>
        BY <4>1, <4>2
      <4>4. Head(v.todo).do # "add" /\ Len(s) = 0
        BY <2>2, <3>2
      <4> QED BY <4>2, <4>3, <4>4
    <3>3. CASE Head(v.todo).do = "swap" /\ s # <<>>
      <4>1. w.items[c0] = Append(Tail(s), d)
        BY <2>1, <3>3
      <4>2. Tail(s) \in Seq(Doc) /\ Len(Tail(s)) = Len(s) - 1
        BY <2>2, <3>3, HeadTailProperties
      <4>3. Len(Tail(s)) \in Nat
        BY <4>2
      <4> QED BY <2>2, <3>3, <4>1, <4>2, <4>3
    <3> QED BY <3>1, <3>2, <3>3
  <2>4. Len(Append(u, d)) = Len(u) + 1 /\ Append(u, d)[Len(u) + 1] = d /\ Append(u, d) \in Seq(Doc)
    BY <2>3, AppendProperties
  <2>5. PICK t : t = Append(u, d)
    OBVIOUS
  <2>6. Len(t) = 1 => t = <<d>>
    <3>1. Len(t) = 1 => Len(u) = 0
      BY <2>3, <2>4, <2>5
    <3>2. Len(u) = 0 => u = <<>>
      OBVIOUS
    <3>3. Append(<<>>, d) = <<d>>
      OBVIOUS
    <3> QED BY <2>5, <3>1, <3>2, <3>3
  <2>7. n = Len(u) + 1
    BY <1>4, <2>3, <2>4
  <2> QED BY <1>4, <2>1, <2>2, <2>3, <2>5, <2>6, <2>7
<1>6. PICK k, x, y : k = v.dels /\ x = OneMore(v.db # NoDoc) /\ y = OneMore(v.db = NoDoc)
  OBVIOUS
<1>7. k \in Nat /\ (v.db = NoDoc => x = 0 /\ y = 1 /\ k >= 1) /\ (v.db # NoDoc => x = 1 /\ y = 0)
  BY <1>0, <1>1, <1>2, <1>6 DEF OneMore
<1>8. \A c \in CacheName : Len(v.items[c]) <= k + 0 + x
  BY <1>2, <1>6 DEF ViewOK, ItemsCounted
<1>9. Head(v.todo).do = "add" => m + y <= k
  BY <1>0, <1>2, <1>4, <1>6 DEF ViewOK, AddFits
<1>10. n <= k + x /\ (v.db # NoDoc /\ k = 0 => n = 1)
  <2>1. m <= k + x
    BY <1>4, <1>5, <1>7, <1>8
  <2>2. CASE Head(v.todo).do = "add"
    BY <1>5, <1>7, <1>9, <2>2
  <2>3. CASE Head(v.todo).do = "swap"
    BY <1>5, <1>7, <2>1, <2>3
  <2> QED BY <2>2, <2>3
<1>11. ItemsCounted(w)
  <2> SUFFICES ASSUME NEW c \in CacheName PROVE Len(w.items[c]) <= k + Drops(w.todo, c) + x
    BY <1>6 DEF ItemsCounted, LockHeld
  <2>1. CASE c = c0
    BY <1>3, <1>4, <1>5, <1>7, <1>10, <2>1
  <2>2. CASE c # c0
    <3>1. w.items[c] = v.items[c]
      BY <2>2 DEF LockHeld
    <3> QED BY <1>3, <1>8, <3>1
  <2> QED BY <2>1, <2>2
<1>12. NearRight(w)
  <2> SUFFICES ASSUME v.loaded, v.db # NoDoc, ~v.coming, NEW c \in CacheName PROVE w.items[c] = Target(w, c)
    BY <1>2 DEF NearRight, LockHeld
  <2>1. v.db = d /\ k = 0 /\ w.db = d /\ d # NoDoc
    BY <1>1, <1>2, <1>6 DEF ViewOK, LockHeld
  <2>2. CASE c = c0
    BY <1>2, <1>5, <1>10, <2>1, <2>2 DEF Target
  <2>3. CASE c # c0
    <3>1. ~Touches(v.todo, c)
      BY <1>0, <1>2, <1>3, <2>3, HoldsTail
    <3>2. v.items[c] = <<>>
      BY <1>0, <1>2, <2>1, <2>3, <3>1 DEF ViewOK, NearRight, LockHeld
    <3> QED BY <1>2, <2>1, <2>3, <3>2 DEF Target, LockHeld
  <2> QED BY <2>2, <2>3
<1>13. SwapsRight(w)
  BY HeldSwaps
<1>14. (w.last => w.db = NoDoc) /\ (~w.coming => w.dels = 0) /\ WorkRight(w) /\ AddFits(w) /\ PostsRight(w)
  BY <1>2 DEF ViewOK, LockHeld, WorkRight, AddFits, PostsRight
<1> QED BY <1>11, <1>12, <1>13, <1>14 DEF ViewOK

-----------------------------------------------------------------------------
(* Caches: the invariant of what they hold *)

KindOK(i, d) == d.kind = "reg" <=> i \in RegId
RegPc == {"cacheReg", "updateReg", "swapReg", "dropReg"}

\* A POST that is to add its record is alone with it; a DELETE that is to drop it has deleted it; a PATCH of a csr
\* subscription has its item
ReqFirm(r) ==
  /\ Posting(r) => req[r].op = "post" /\ db[req[r].id] = req[r].doc /\ req[r].doc # NoDoc /\ InFlight(req[r].id) = {r}
  /\ req[r].pc \in {"drop", "dropPernot", "dropReg"} => db[req[r].id] = NoDoc
  /\ req[r].pc \in {"update", "swapCsr"} => cache[req[r].at]["regSub"][req[r].id] # <<>>
  /\ req[r].doc # NoDoc => KindOK(req[r].id, req[r].doc)
  /\ req[r].pc \notin Ended => (req[r].pc \in RegPc <=> req[r].id \in RegId) /\ phase[req[r].at] = "up"

PhaseFirm(b) ==
  /\ phase[b] # "up" => apply[b] = Idle
  /\ phase[b] \in {"subs", "regs"} => open[b]
  /\ phase[b] = "start" => ~open[b] /\ stream[b] = <<>>
  /\ \A i \in Id, c \in CacheName : ~Loaded(b, i) => cache[b][c][i] = <<>>

\* Registrations and subscriptions do not mix
KindFirm ==
  /\ \A i \in Id : db[i] # NoDoc => KindOK(i, db[i])
  /\ \A b \in Broker, c \in CacheName, i \in Id : cache[b][c][i] # <<>> => (c = "reg" <=> i \in RegId)
  /\ \A b \in Broker : \A h \in Range(apply[b].todo) : h.cache = "reg" <=> apply[b].id \in RegId

Firm == (\A r \in DOMAIN req : ReqFirm(r)) /\ (\A b \in Broker : PhaseFirm(b)) /\ KindFirm /\ crossed \in [Broker -> SUBSET Id]

ViewRight(b, i) == ~missed[b] /\ i \notin crossed[b] => \A v : View(b, i, v) => ViewOK(v)
CacheInv == Firm /\ \A b \in Broker, i \in Id : ViewRight(b, i)

LEMMA Viewed ==
  ASSUME HaTypes, NEW b \in Broker, NEW i \in Id PROVE \E v : View(b, i, v)
<1>1. PICK v : v = [db |-> db[i], coming |-> ComesIn(stream[b], i), dels |-> DelsIn(stream[b], i), last |-> LastDel(stream[b], i),
         reading |-> apply[b].pc = "read" /\ apply[b].id = i, todo |-> Steps(b, i),
         items |-> [c \in CacheName |-> cache[b][c][i]], loaded |-> Loaded(b, i),
         posting |-> Posts(b, i), swaps |-> {c \in CacheName : Swapping(b, i, c)}, dropping |-> Dropping(b, i)]
  OBVIOUS
<1>2. stream[b] \in Seq(EventRec) /\ apply[b] \in ApplyRec /\ db[i] \in Doc \cup {NoDoc} /\ cache \in CacheType
  BY DEF HaTypes, CacheType
<1>3. DelsIn(stream[b], i) \in Nat
  BY <1>2, DelsFacts
<1>4. ComesIn(stream[b], i) \in BOOLEAN /\ LastDel(stream[b], i) \in BOOLEAN /\ (apply[b].pc = "read" /\ apply[b].id = i) \in BOOLEAN
      /\ Loaded(b, i) \in BOOLEAN /\ Posts(b, i) \in BOOLEAN /\ Dropping(b, i) \in BOOLEAN
  BY DEF ComesIn, LastDel, Loaded, Posts, Dropping
<1>5. Steps(b, i) \in Seq(HoldRec)
  <2>1. <<>> \in Seq(HoldRec)
    OBVIOUS
  <2> QED BY <1>2, <2>1 DEF Steps, ApplyRec
<1>6. [c \in CacheName |-> cache[b][c][i]] \in [CacheName -> Seq(Doc)]
  BY <1>2 DEF CacheType
<1>7. v \in ViewRec
  BY <1>1, <1>2, <1>3, <1>4, <1>5, <1>6 DEF ViewRec
<1>8. View(b, i, v)
  BY <1>1, <1>7 DEF View
<1> QED BY <1>8

\* Request r, of record i at broker b, goes on or is begun, and no other is about to add the record
ReqStep(r, b, i) ==
  /\ DOMAIN req' = DOMAIN req \cup {r} /\ (\A q \in DOMAIN req : q # r => req'[q] = req[q])
  /\ req'[r].at = b /\ req'[r].id = i /\ (r \in DOMAIN req => req[r].at = b /\ req[r].id = i /\ req[r].pc \notin Ended)
  /\ \A q \in DOMAIN req : q # r /\ req[q].id = i => ~Posting(q)

SameHere(b, i) ==
  (Posts(b, i)' <=> Posts(b, i)) /\ (Dropping(b, i)' <=> Dropping(b, i)) /\ \A c : Swapping(b, i, c)' <=> Swapping(b, i, c)

LEMMA HereStep ==
  ASSUME NEW r, NEW b, NEW i, ReqStep(r, b, i), NEW y, NEW j
  PROVE  /\ y # b \/ j # i => SameHere(y, j)
         /\ y # b /\ j = i => ~Posts(y, j)
         /\ (Posts(b, i)' <=> Posting(r)') /\ (Posts(b, i) <=> r \in DOMAIN req /\ Posting(r))
         /\ \A c : /\ Swapping(b, i, c)' => Swapping(b, i, c) \/ SwapsIn(r, c)'
                   /\ r \in DOMAIN req /\ SwapsIn(r, c) => Swapping(b, i, c)
         /\ Dropping(b, i) => Dropping(b, i)' \/ (r \in DOMAIN req /\ req[r].pc = "delete")
         /\ (req'[r].pc = "delete" => Dropping(b, i)') 
<1>1. /\ DOMAIN req' = DOMAIN req \cup {r} /\ (\A q \in DOMAIN req : q # r => req'[q] = req[q])
      /\ req'[r].at = b /\ req'[r].id = i /\ (r \in DOMAIN req => req[r].at = b /\ req[r].id = i)
      /\ \A q \in DOMAIN req : q # r /\ req[q].id = i => ~Posting(q)
  BY DEF ReqStep
<1>2. \A q \in DOMAIN req : q # r => (Posting(q)' <=> Posting(q)) /\ \A c : SwapsIn(q, c)' <=> SwapsIn(q, c)
  BY <1>1 DEF Posting, SwapsIn
<1>3. /\ \A q : q \in Here(y, j)' <=> q \in DOMAIN req' /\ req'[q].at = y /\ req'[q].id = j
      /\ \A q : q \in Here(y, j) <=> q \in DOMAIN req /\ req[q].at = y /\ req[q].id = j
      /\ \A q : q \in Here(b, i)' <=> q \in DOMAIN req' /\ req'[q].at = b /\ req'[q].id = i
      /\ \A q : q \in Here(b, i) <=> q \in DOMAIN req /\ req[q].at = b /\ req[q].id = i
  BY DEF Here
<1>4. y # b \/ j # i => Here(y, j)' = Here(y, j) /\ r \notin Here(y, j)
  <2>1. SUFFICES ASSUME y # b \/ j # i PROVE Here(y, j)' = Here(y, j) /\ r \notin Here(y, j)
    OBVIOUS
  <2>2. PICK A : A = Here(y, j)
    OBVIOUS
  <2>3. PICK B : B = Here(y, j)'
    OBVIOUS
  <2>4. r \notin A /\ r \notin B
    BY <1>1, <1>3, <2>1, <2>2, <2>3
  <2>5. ASSUME NEW q, q # r PROVE q \in B <=> q \in A
    <3>1. q \in DOMAIN req' <=> q \in DOMAIN req
      BY <1>1, <2>5
    <3>2. CASE q \in DOMAIN req
      <4>1. req'[q] = req[q]
        BY <1>1, <2>5, <3>2
      <4> QED BY <1>3, <2>2, <2>3, <3>1, <4>1
    <3>3. CASE q \notin DOMAIN req
      BY <1>3, <2>2, <2>3, <3>1, <3>3
    <3> QED BY <3>2, <3>3
  <2>6. A = B
    BY <2>4, <2>5
  <2> QED BY <2>2, <2>3, <2>4, <2>6
<1>5. Here(b, i)' = Here(b, i) \cup {r} /\ (r \in Here(b, i) <=> r \in DOMAIN req)
  <2>2. PICK A : A = Here(b, i)
    OBVIOUS
  <2>3. PICK B : B = Here(b, i)'
    OBVIOUS
  <2>4. r \in B /\ (r \in A <=> r \in DOMAIN req)
    BY <1>1, <1>3, <2>2, <2>3
  <2>5. ASSUME NEW q, q # r PROVE q \in B <=> q \in A
    <3>1. q \in DOMAIN req' <=> q \in DOMAIN req
      BY <1>1, <2>5
    <3>2. CASE q \in DOMAIN req
      <4>1. req'[q] = req[q]
        BY <1>1, <2>5, <3>2
      <4> QED BY <1>3, <2>2, <2>3, <3>1, <4>1
    <3>3. CASE q \notin DOMAIN req
      BY <1>3, <2>2, <2>3, <3>1, <3>3
    <3> QED BY <3>2, <3>3
  <2>6. B = A \cup {r}
    BY <2>4, <2>5
  <2> QED BY <2>2, <2>3, <2>4, <2>6
<1>6. ASSUME NEW q \in Here(b, i) PROVE q \in DOMAIN req /\ (q # r => ~Posting(q))
  <2>1. q \in DOMAIN req /\ req[q].id = i
    BY <1>3
  <2> QED BY <1>1, <2>1
<1>7. ASSUME NEW q \in Here(y, j)
      PROVE  q \in DOMAIN req /\ (y # b \/ j # i => q # r) /\ (y # b /\ j = i => ~Posting(q))
  <2>1. q \in DOMAIN req /\ req[q].at = y /\ req[q].id = j
    BY <1>3
  <2>2. y # b \/ j # i => q # r
    BY <1>1, <2>1
  <2> QED BY <1>1, <2>1, <2>2
<1>8. y # b \/ j # i => /\ (Posts(y, j)' <=> Posts(y, j)) /\ (Dropping(y, j)' <=> Dropping(y, j))
                        /\ \A c : Swapping(y, j, c)' <=> Swapping(y, j, c)
  BY <1>1, <1>2, <1>4, <1>7 DEF Posts, Dropping, Swapping
<1>9. y # b /\ j = i => ~Posts(y, j)
  BY <1>7 DEF Posts
<1>10. (Posts(b, i)' <=> Posting(r)') /\ (Posts(b, i) <=> r \in DOMAIN req /\ Posting(r))
  BY <1>2, <1>5, <1>6 DEF Posts
<1>11. \A c : /\ Swapping(b, i, c)' => Swapping(b, i, c) \/ SwapsIn(r, c)'
              /\ r \in DOMAIN req /\ SwapsIn(r, c) => Swapping(b, i, c)
  BY <1>2, <1>5, <1>6 DEF Swapping
<1>12. /\ Dropping(b, i) => Dropping(b, i)' \/ (r \in DOMAIN req /\ req[r].pc = "delete")
       /\ (req'[r].pc = "delete" => Dropping(b, i)') 
  BY <1>1, <1>5, <1>6 DEF Dropping
<1> QED BY <1>8, <1>9, <1>10, <1>11, <1>12 DEF SameHere

\* What a step does to the records and the streams: nothing, or it writes record i
DbStays == UNCHANGED <<db, stream, missed>>
DbWrites(i, d) == db' = [db EXCEPT ![i] = d] /\ Publish(i, IF d = NoDoc THEN "delete" ELSE "upsert") /\ (d # NoDoc \/ db[i] # NoDoc)

LEMMA StreamStep ==
  ASSUME HaTypes, Firm, Ha, NEW i \in Id, NEW d, DbWrites(i, d), NEW b \in Broker, NEW j \in Id, ~missed'[b]
  PROVE  /\ ~missed[b] /\ db' = [db EXCEPT ![i] = d]
         /\ j # i => /\ (ComesIn(stream[b], j)' <=> ComesIn(stream[b], j)) /\ DelsIn(stream[b], j)' = DelsIn(stream[b], j)
                     /\ (LastDel(stream[b], j)' <=> LastDel(stream[b], j))
         /\ open[b] => /\ ComesIn(stream[b], i)' /\ DelsIn(stream[b], i)' = DelsIn(stream[b], i) + OneMore(d = NoDoc)
                       /\ (LastDel(stream[b], i)' <=> d = NoDoc)
         /\ ~open[b] => phase[b] = "start" /\ stream'[b] = <<>>
<1>1. PICK e : e = [id |-> i, op |-> IF d = NoDoc THEN "delete" ELSE "upsert"]
  OBVIOUS
<1>2. e \in EventRec /\ e.id = i /\ (e.op = "delete" <=> d = NoDoc)
  BY <1>1 DEF EventRec
<1>3. /\ stream'[b] = IF open[b] THEN Append(stream[b], e) ELSE stream[b]
      /\ missed'[b] = (missed[b] \/ (~open[b] /\ phase[b] = "up")) /\ db' = [db EXCEPT ![i] = d]
  BY <1>1 DEF DbWrites, Publish
<1>4. stream[b] \in Seq(EventRec) /\ PhaseFirm(b) /\ phase[b] \in {"start", "subs", "regs", "up"}
  BY DEF HaTypes, Firm
<1>5. PICK s, t : s = stream[b] /\ t = stream'[b]
  OBVIOUS
<1>6. CASE open[b]
  <2>1. t = Append(s, e) /\ s \in Seq(EventRec)
    BY <1>3, <1>4, <1>5, <1>6
  <2>2. /\ ComesIn(t, i) /\ DelsIn(t, i) = DelsIn(s, i) + IF e.op = "delete" THEN 1 ELSE 0
        /\ LastDel(t, i) <=> e.op = "delete"
    BY <1>2, <2>1, DelsAppend
  <2>3. DelsIn(t, i) = DelsIn(s, i) + OneMore(d = NoDoc)
    BY <1>2, <2>2 DEF OneMore
  <2>4. j # i => /\ (ComesIn(t, j) <=> ComesIn(s, j)) /\ (LastDel(t, j) <=> LastDel(s, j))
                 /\ DelsIn(t, j) = DelsIn(s, j) + 0
    BY <1>2, <2>1, DelsAppend
  <2>5. DelsIn(s, j) \in Nat
    BY <2>1, DelsFacts
  <2>6. j # i => DelsIn(t, j) = DelsIn(s, j)
    BY <2>4, <2>5
  <2> QED BY <1>2, <1>3, <1>5, <1>6, <2>2, <2>3, <2>4, <2>6
<1>7. CASE ~open[b]
  <2>1. phase[b] = "start" /\ stream'[b] = <<>> /\ stream'[b] = stream[b]
    BY <1>3, <1>4, <1>7 DEF PhaseFirm
  <2> QED BY <1>3, <1>7, <2>1
<1> QED BY <1>6, <1>7

\* A view of which nothing changes that matters
LEMMA Untouched ==
  ASSUME CacheInv, HaTypes, NEW b \in Broker, NEW i \in Id, ~missed'[b] => ~missed[b], i \notin crossed'[b] => i \notin crossed[b],
         db'[i] = db[i], ~missed'[b] => /\ (ComesIn(stream[b], i)' <=> ComesIn(stream[b], i)) /\ DelsIn(stream[b], i)' = DelsIn(stream[b], i)
                                        /\ (LastDel(stream[b], i)' => LastDel(stream[b], i)),
         (apply[b].pc = "read" /\ apply[b].id = i)' <=> apply[b].pc = "read" /\ apply[b].id = i, Steps(b, i)' = Steps(b, i),
         \A c \in CacheName : cache'[b][c][i] = cache[b][c][i], Loaded(b, i)' <=> Loaded(b, i), Posts(b, i)' <=> Posts(b, i),
         \A c \in CacheName : Swapping(b, i, c)' => Swapping(b, i, c) \/ (db[i] = NoDoc /\ c = "regSub"),
         Dropping(b, i) => Dropping(b, i)' \/ db[i] = NoDoc
  PROVE  ViewRight(b, i)'
<1> SUFFICES ASSUME NEW w, View(b, i, w)', ~missed'[b], i \notin crossed'[b] PROVE ViewOK(w)
  BY DEF ViewRight
<1>1. PICK v : View(b, i, v)
  BY Viewed
<1>2. ViewOK(v)
  BY <1>1 DEF CacheInv, ViewRight
<1>3. v \in ViewRec /\ w \in ViewRec /\ v.swaps \subseteq CacheName /\ w.swaps \subseteq CacheName
      /\ v.items \in [CacheName -> Seq(Doc)] /\ w.items \in [CacheName -> Seq(Doc)]
  BY <1>1 DEF View, ViewRec
<1>4. \A c \in CacheName : w.items[c] = v.items[c]
  BY <1>1 DEF View
<1>5. w.items = v.items
  BY <1>3, <1>4
<1>6. /\ w.db = v.db /\ w.dels = v.dels /\ w.todo = v.todo /\ (w.coming <=> v.coming) /\ (w.last => v.last)
      /\ (w.reading <=> v.reading) /\ (w.loaded <=> v.loaded) /\ (w.posting <=> v.posting)
      /\ (\A c \in w.swaps : c \in v.swaps \/ (v.db = NoDoc /\ c = "regSub")) /\ (v.dropping => w.dropping \/ v.db = NoDoc)
  BY <1>1, <1>3 DEF View
<1>7. w.coming = v.coming /\ w.reading = v.reading /\ w.loaded = v.loaded /\ w.posting = v.posting
  BY <1>3, <1>6 DEF ViewRec
<1> QED BY <1>2, <1>3, <1>5, <1>6, <1>7, ViewQuiet

\* A request's step that leaves the caches alone
LEMMA WriteViews ==
  ASSUME CacheInv, HaTypes, Ha, NEW r, NEW b \in Broker, NEW i \in Id, ReqStep(r, b, i), phase[b] = "up",
         UNCHANGED <<cache, open, phase, apply, crossed>>,
         \/ \E d : DbWrites(i, d) /\ (Posting(r)' => db[i] = NoDoc /\ d # NoDoc)
         \/ /\ DbStays /\ ~Posting(r)' /\ (r \in DOMAIN req => ~Posting(r))
            /\ (\A c \in CacheName : SwapsIn(r, c)' => Swapping(b, i, c) \/ (db[i] = NoDoc /\ c = "regSub"))
            /\ (r \in DOMAIN req /\ req[r].pc = "delete" => db[i] = NoDoc)
  PROVE  \A y \in Broker, j \in Id : ViewRight(y, j)'
<1> SUFFICES ASSUME NEW y \in Broker, NEW j \in Id PROVE ViewRight(y, j)'
  OBVIOUS
<1>1. /\ cache' = cache /\ crossed' = crossed /\ (Loaded(y, j)' <=> Loaded(y, j)) /\ Steps(y, j)' = Steps(y, j)
      /\ ((apply[y].pc = "read" /\ apply[y].id = j)' <=> apply[y].pc = "read" /\ apply[y].id = j)
  BY DEF Loaded, Steps
<1>20. y # b \/ j # i => SameHere(y, j)
  BY HereStep
<1>2. /\ y # b \/ j # i => /\ (Posts(y, j)' <=> Posts(y, j)) /\ (Dropping(y, j)' <=> Dropping(y, j))
                              /\ \A c : Swapping(y, j, c)' <=> Swapping(y, j, c)
      /\ y # b /\ j = i => ~Posts(y, j)
      /\ (Posts(b, i)' <=> Posting(r)') /\ (Posts(b, i) <=> r \in DOMAIN req /\ Posting(r))
      /\ (\A c : Swapping(b, i, c)' => Swapping(b, i, c) \/ SwapsIn(r, c)')
      /\ Dropping(b, i) => Dropping(b, i)' \/ (r \in DOMAIN req /\ req[r].pc = "delete")
  BY <1>20, HereStep DEF SameHere
<1>3. CASE DbStays /\ ~Posting(r)' /\ (r \in DOMAIN req => ~Posting(r))
            /\ (\A c \in CacheName : SwapsIn(r, c)' => Swapping(b, i, c) \/ (db[i] = NoDoc /\ c = "regSub"))
            /\ (r \in DOMAIN req /\ req[r].pc = "delete" => db[i] = NoDoc)
  <2>1. UNCHANGED <<db, stream, missed>>
    BY <1>3 DEF DbStays
  <2>2. (ComesIn(stream[y], j)' <=> ComesIn(stream[y], j)) /\ DelsIn(stream[y], j)' = DelsIn(stream[y], j)
        /\ (LastDel(stream[y], j)' <=> LastDel(stream[y], j))
    BY <2>1
  <2>3. /\ \A c \in CacheName : Swapping(y, j, c)' => Swapping(y, j, c) \/ (db[j] = NoDoc /\ c = "regSub")
        /\ Dropping(y, j) => Dropping(y, j)' \/ db[j] = NoDoc
        /\ Posts(y, j)' <=> Posts(y, j)
    <3>1. CASE y # b \/ j # i
      BY <1>2, <3>1
    <3>2. CASE y = b /\ j = i
      BY <1>2, <1>3, <3>2
    <3> QED BY <3>1, <3>2
  <2> QED BY <1>1, <2>1, <2>2, <2>3, Untouched
<1>4. ASSUME NEW d, DbWrites(i, d), Posting(r)' => db[i] = NoDoc /\ d # NoDoc PROVE ViewRight(y, j)'
  <2> SUFFICES ASSUME ~missed'[y] PROVE ViewRight(y, j)'
    BY DEF ViewRight
  <2>1. /\ ~missed[y] /\ db' = [db EXCEPT ![i] = d]
        /\ j # i => /\ (ComesIn(stream[y], j)' <=> ComesIn(stream[y], j)) /\ DelsIn(stream[y], j)' = DelsIn(stream[y], j)
                    /\ (LastDel(stream[y], j)' <=> LastDel(stream[y], j))
        /\ open[y] => /\ ComesIn(stream[y], i)' /\ DelsIn(stream[y], i)' = DelsIn(stream[y], i) + OneMore(d = NoDoc)
                      /\ (LastDel(stream[y], i)' <=> d = NoDoc)
        /\ ~open[y] => phase[y] = "start" /\ stream'[y] = <<>>
    BY <1>4, StreamStep DEF CacheInv
  <2>2. db \in [Id -> Doc \cup {NoDoc}]
    BY DEF HaTypes
  <2>3. CASE j # i
    <3>1. db'[j] = db[j]
      BY <2>1, <2>2, <2>3
    <3> QED BY <1>1, <1>2, <2>1, <2>3, <3>1, Untouched
  <2>4. CASE j = i /\ open[y]
    <3> SUFFICES ASSUME NEW w, View(y, j, w)', j \notin crossed[y] PROVE ViewOK(w)
      BY <1>1 DEF ViewRight
    <3>1. PICK v : View(y, j, v)
      BY Viewed
    <3>2. ViewOK(v) /\ v \in ViewRec /\ w \in ViewRec
      BY <2>1, <3>1 DEF CacheInv, ViewRight, View
    <3>3. v.items \in [CacheName -> Seq(Doc)] /\ w.items \in [CacheName -> Seq(Doc)] /\ \A c \in CacheName : w.items[c] = v.items[c]
      BY <1>1, <3>1, <3>2 DEF View, ViewRec
    <3>4. w.items = v.items
      BY <3>3
    <3>5. w.db = d /\ v.db = db[i] /\ (v.db # NoDoc \/ w.db # NoDoc)
      BY <1>4, <2>1, <2>2, <2>4, <3>1 DEF View, DbWrites
    <3>6. w.coming /\ w.dels = v.dels + OneMore(d = NoDoc) /\ (w.last => d = NoDoc) /\ w.todo = v.todo
          /\ (w.reading <=> v.reading)
      BY <1>1, <2>1, <2>4, <3>1 DEF View
    <3>7. w.posting => v.db = NoDoc /\ w.db # NoDoc
      <4>1. w.posting <=> Posts(y, i)'
        BY <2>4 DEF View
      <4> QED BY <1>2, <1>4, <2>4, <3>5, <4>1
    <3>8. w.reading = v.reading
      BY <3>2, <3>6 DEF ViewRec
    <3> QED BY <3>2, <3>4, <3>5, <3>6, <3>7, <3>8, ViewWritten
  <2>5. CASE j = i /\ ~open[y]
    <3> SUFFICES ASSUME NEW w, View(y, j, w)' PROVE ViewOK(w)
      BY DEF ViewRight
    <3>1. phase[y] = "start" /\ stream'[y] = <<>> /\ y # b
      BY <2>1, <2>5
    <3>2. /\ apply[y] = Idle /\ (\A c \in CacheName : cache[y][c][i] = <<>>) /\ ~Loaded(y, i)
      BY <3>1 DEF CacheInv, Firm, PhaseFirm, Loaded
    <3>3. \A c : ~Swapping(y, i, c)
      <4> SUFFICES ASSUME NEW c, NEW q \in Here(y, i), SwapsIn(q, c) PROVE FALSE
        BY DEF Swapping
      <4>1. q \in DOMAIN req /\ req[q].pc \notin Ended /\ req[q].at = y
        BY DEF Here, SwapsIn, Ended
      <4> QED BY <3>1, <4>1 DEF CacheInv, Firm, ReqFirm
    <3>4. ~w.loaded /\ w.todo = <<>> /\ ~w.posting /\ (\A c \in CacheName : w.items[c] = <<>>) /\ w \in ViewRec
      <4>1. w.todo = Steps(y, i) /\ (w.loaded <=> Loaded(y, i)) /\ (w.posting <=> Posts(y, i)') /\ w \in ViewRec
            /\ (\A c \in CacheName : w.items[c] = cache[y][c][i])
        BY <1>1, <2>5 DEF View
      <4> QED BY <4>1, <3>1, <3>2, <1>2, <2>5 DEF Steps, Idle
    <3>5. w.swaps = {}
      <4>1. w.swaps \subseteq CacheName /\ \A c \in CacheName : c \in w.swaps <=> Swapping(y, i, c)'
        BY <2>5, <3>4 DEF View, ViewRec
      <4>2. \A c : ~Swapping(y, i, c)'
        BY <3>1, <3>3, <1>2, <2>5
      <4> QED BY <4>1, <4>2
    <3>6. ~w.coming /\ ~w.last /\ w.dels = 0
      <4>1. (w.coming <=> ComesIn(stream'[y], i)) /\ w.dels = DelsIn(stream'[y], i) /\ (w.last <=> LastDel(stream'[y], i))
        BY <2>5 DEF View
      <4> QED BY <4>1, <3>1, DelsEmpty
    <3> QED BY <3>4, <3>5, <3>6, ViewBare
  <2> QED BY <2>3, <2>4, <2>5
<1> QED BY <1>3, <1>4

\* A request's step in a list of its broker: the other views stay
LEMMA OtherViews ==
  ASSUME CacheInv, HaTypes, NEW r, NEW b \in Broker, NEW i \in Id, ReqStep(r, b, i), DbStays, UNCHANGED <<open, phase, apply>>,
         \A y \in Broker : crossed[y] \subseteq crossed'[y],
         \A y \in Broker, c \in CacheName, j \in Id : y # b \/ j # i => cache'[y][c][j] = cache[y][c][j],
         NEW y \in Broker, NEW j \in Id, y # b \/ j # i
  PROVE  ViewRight(y, j)'
<1>1. /\ (Loaded(y, j)' <=> Loaded(y, j)) /\ Steps(y, j)' = Steps(y, j) /\ UNCHANGED <<db, stream, missed>>
      /\ ((apply[y].pc = "read" /\ apply[y].id = j)' <=> apply[y].pc = "read" /\ apply[y].id = j)
  BY DEF Loaded, Steps, DbStays
<1>2. (Posts(y, j)' <=> Posts(y, j)) /\ (Dropping(y, j)' <=> Dropping(y, j)) /\ \A c : Swapping(y, j, c)' <=> Swapping(y, j, c)
  <2>1. SameHere(y, j)
    BY HereStep
  <2> QED BY <2>1 DEF SameHere
<1>3. (ComesIn(stream[y], j)' <=> ComesIn(stream[y], j)) /\ DelsIn(stream[y], j)' = DelsIn(stream[y], j)
      /\ (LastDel(stream[y], j)' <=> LastDel(stream[y], j))
  BY <1>1
<1>4. (~missed'[y] => ~missed[y]) /\ (j \notin crossed'[y] => j \notin crossed[y]) /\ db'[j] = db[j]
      /\ \A c \in CacheName : cache'[y][c][j] = cache[y][c][j]
  BY <1>1
<1> QED BY <1>1, <1>2, <1>3, <1>4, Untouched

\* ... and the one of the record keeps all but what is in the lists, and is about to be
Stir(r, b, i, v, w) ==
  /\ ViewOK(v) /\ v \in ViewRec /\ w \in ViewRec /\ v.db = db[i] /\ w.db = v.db /\ w.coming = v.coming /\ w.dels = v.dels
  /\ w.last = v.last /\ w.reading = v.reading /\ w.todo = v.todo /\ v.todo = Steps(b, i) /\ w.loaded = v.loaded
  /\ (\A c \in CacheName : v.items[c] = cache[b][c][i] /\ w.items[c] = cache'[b][c][i])
  /\ (v.posting <=> r \in DOMAIN req /\ Posting(r)) /\ (w.posting <=> Posting(r)')
  /\ (\A c \in v.swaps : Swapping(b, i, c)) /\ (\A c \in w.swaps : c \in v.swaps \/ SwapsIn(r, c)')
  /\ (\A c \in CacheName : r \in DOMAIN req /\ SwapsIn(r, c) => c \in v.swaps)
  /\ (req'[r].pc = "delete" => w.dropping)

LEMMA Stirred ==
  ASSUME CacheInv, HaTypes, NEW r, NEW b \in Broker, NEW i \in Id, ReqStep(r, b, i), DbStays, UNCHANGED <<open, phase, apply>>,
         ~missed'[b], i \notin crossed[b], NEW w, View(b, i, w)'
  PROVE  \E v : Stir(r, b, i, v, w)
<1>1. PICK v : View(b, i, v)
  BY Viewed
<1>2. UNCHANGED <<db, stream, missed>> /\ (Loaded(b, i)' <=> Loaded(b, i)) /\ Steps(b, i)' = Steps(b, i)
      /\ ((apply[b].pc = "read" /\ apply[b].id = i)' <=> apply[b].pc = "read" /\ apply[b].id = i)
  BY DEF DbStays, Loaded, Steps
<1>3. ViewOK(v) /\ v \in ViewRec /\ w \in ViewRec
  BY <1>1, <1>2 DEF CacheInv, ViewRight, View
<1>4. /\ (Posts(b, i)' <=> Posting(r)') /\ (Posts(b, i) <=> r \in DOMAIN req /\ Posting(r))
      /\ \A c : /\ Swapping(b, i, c)' => Swapping(b, i, c) \/ SwapsIn(r, c)'
                /\ r \in DOMAIN req /\ SwapsIn(r, c) => Swapping(b, i, c)
      /\ (req'[r].pc = "delete" => Dropping(b, i)')
  BY HereStep
<1>5. /\ v.db = db[i] /\ w.db = v.db /\ w.dels = v.dels /\ w.todo = v.todo /\ v.todo = Steps(b, i)
      /\ (w.coming <=> v.coming) /\ (w.last <=> v.last) /\ (w.reading <=> v.reading) /\ (w.loaded <=> v.loaded)
      /\ \A c \in CacheName : v.items[c] = cache[b][c][i] /\ w.items[c] = cache'[b][c][i]
  BY <1>1, <1>2 DEF View
<1>6. w.coming = v.coming /\ w.last = v.last /\ w.reading = v.reading /\ w.loaded = v.loaded /\ v.swaps \subseteq CacheName /\ w.swaps \subseteq CacheName
  BY <1>3, <1>5 DEF ViewRec
<1>7. /\ (v.posting <=> Posts(b, i)) /\ (w.posting <=> Posts(b, i)') /\ (w.dropping <=> Dropping(b, i)')
      /\ \A c \in CacheName : (c \in v.swaps <=> Swapping(b, i, c)) /\ (c \in w.swaps <=> Swapping(b, i, c)')
  BY <1>1 DEF View
<1>8. /\ (v.posting <=> r \in DOMAIN req /\ Posting(r)) /\ (w.posting <=> Posting(r)')
      /\ (\A c \in v.swaps : Swapping(b, i, c)) /\ (\A c \in w.swaps : c \in v.swaps \/ SwapsIn(r, c)')
      /\ (\A c \in CacheName : r \in DOMAIN req /\ SwapsIn(r, c) => c \in v.swaps)
      /\ (req'[r].pc = "delete" => w.dropping)
  BY <1>4, <1>6, <1>7
<1> QED BY <1>3, <1>5, <1>6, <1>8 DEF Stir

\* The first lock hold of a store that adds is one of the periodic cache
LEMMA HeadAdds ==
  ASSUME NEW v \in ViewRec, ViewOK(v), v.todo # <<>>, Head(v.todo).do = "add" PROVE Head(v.todo).cache = "pernot"
<1>1. PICK e \in Doc \cup {NoDoc} : Fixes(v.todo, e)
  BY DEF ViewOK, WorkRight
<1>2. v.todo \in Seq(HoldRec)
  BY DEF ViewRec
<1>3. Tail(v.todo) = <<>> /\ e # NoDoc
  BY <1>1, <1>2, FixesTail
<1>4. Head(v.todo) = IF e.kind = "pernot" THEN Add("pernot", e) ELSE Swap(KindCache(e), e)
  BY <1>1, <1>2, <1>3, FixesTail
<1> QED BY <1>4 DEF Add, Swap

\* A request's last step on the lists of a broker's caches: that of c, and of record i
ListStep(r, b, i, c, s) ==
  /\ ReqStep(r, b, i) /\ DbStays /\ UNCHANGED <<open, phase, apply>> /\ (\A y \in Broker : crossed[y] \subseteq crossed'[y])
  /\ \A y \in Broker, x \in CacheName, j \in Id : cache'[y][x][j] = IF y = b /\ x = c /\ j = i THEN s ELSE cache[y][x][j]

\* What keeps a request from storing its item while the change stream is between taking it out and adding it
Crosses(b, i) == Steps(b, i) # <<>> /\ Head(Steps(b, i)).do = "add"

LEMMA AddViews ==
  ASSUME CacheInv, HaTypes, NEW r \in DOMAIN req, NEW b \in Broker, NEW i \in Id, NEW c \in CacheName, req[r].at = b, req[r].id = i,
         Posting(r), req'[r].pc = "done", c = KindCache(req[r].doc), ListStep(r, b, i, c, Append(cache[b][c][i], req[r].doc)),
         ~missed[b] /\ i \notin crossed[b] => i \in crossed'[b] \/ ~Crosses(b, i)
  PROVE  \A y \in Broker, j \in Id : ViewRight(y, j)'
<1>1. ASSUME NEW y \in Broker, NEW j \in Id, y # b \/ j # i PROVE ViewRight(y, j)'
  <2>1. \A z \in Broker, x \in CacheName, k \in Id : z # b \/ k # i => cache'[z][x][k] = cache[z][x][k]
    BY DEF ListStep
  <2> QED BY <1>1, <2>1, OtherViews DEF ListStep
<1>2. ASSUME ~missed'[b], i \notin crossed'[b], NEW w, View(b, i, w)' PROVE ViewOK(w)
  <2>1. i \notin crossed[b] /\ ReqStep(r, b, i) /\ DbStays /\ UNCHANGED <<open, phase, apply>>
    BY <1>2 DEF ListStep
  <2>0. PICK v : Stir(r, b, i, v, w)
    BY <1>2, <2>1, Stirred
  <2>2. /\ ViewOK(v) /\ v \in ViewRec /\ w \in ViewRec /\ v.db = db[i] /\ w.db = v.db /\ w.coming = v.coming /\ w.dels = v.dels
        /\ w.last = v.last /\ w.reading = v.reading /\ w.todo = v.todo /\ v.todo = Steps(b, i) /\ w.loaded = v.loaded
        /\ (\A x \in CacheName : v.items[x] = cache[b][x][i] /\ w.items[x] = cache'[b][x][i])
        /\ (v.posting <=> r \in DOMAIN req /\ Posting(r)) /\ (w.posting <=> Posting(r)')
        /\ (\A x \in v.swaps : Swapping(b, i, x)) /\ (\A x \in w.swaps : x \in v.swaps \/ SwapsIn(r, x)')
        /\ (\A x \in CacheName : r \in DOMAIN req /\ SwapsIn(r, x) => x \in v.swaps)
        /\ (req'[r].pc = "delete" => w.dropping)
    BY <2>0 DEF Stir
  <2>3. ReqFirm(r)
    BY DEF CacheInv, Firm
  <2>4. v.db = req[r].doc /\ v.db # NoDoc /\ InFlight(i) = {r} /\ v.posting /\ ~w.posting
    BY <2>2, <2>3 DEF ReqFirm, Posting
  <2>5. w.swaps = {}
    <3>1. ASSUME NEW x, Swapping(b, i, x) PROVE FALSE
      <4>1. PICK q \in Here(b, i) : SwapsIn(q, x)
        BY <3>1 DEF Swapping
      <4>2. q \in InFlight(i)
        BY <4>1 DEF Here, InFlight, SwapsIn, Ended
      <4> QED BY <2>4, <4>1, <4>2 DEF SwapsIn, Posting
    <3>2. \A x : ~SwapsIn(r, x)'
      BY DEF SwapsIn
    <3> QED BY <2>2, <3>1, <3>2
  <2>6. v.todo # <<>> => Head(v.todo).do # "add"
    BY <1>2, <2>1, <2>2 DEF DbStays, Crosses
  <2>7. \A x \in CacheName : w.items[x] = IF x = KindCache(v.db) THEN Append(v.items[x], v.db) ELSE v.items[x]
    BY <2>2, <2>4 DEF ListStep
  <2> QED BY <2>2, <2>4, <2>5, <2>6, <2>7, ViewAdded
<1>3. ViewRight(b, i)'
  BY <1>2 DEF ViewRight
<1> QED BY <1>1, <1>3

LEMMA SwapViews ==
  ASSUME CacheInv, HaTypes, NEW r \in DOMAIN req, NEW b \in Broker, NEW i \in Id, NEW c \in CacheName, req[r].at = b, req[r].id = i,
         SwapsIn(r, c), req'[r].pc = "done", req[r].doc \in Doc,
         ListStep(r, b, i, c, Append(IF cache[b][c][i] = <<>> THEN <<>> ELSE Tail(cache[b][c][i]), req[r].doc)),
         i \in crossed'[b] \/ c # "pernot" \/ ~Crosses(b, i)
  PROVE  \A y \in Broker, j \in Id : ViewRight(y, j)'
<1>1. ASSUME NEW y \in Broker, NEW j \in Id, y # b \/ j # i PROVE ViewRight(y, j)'
  <2>1. \A z \in Broker, x \in CacheName, k \in Id : z # b \/ k # i => cache'[z][x][k] = cache[z][x][k]
    BY DEF ListStep
  <2> QED BY <1>1, <2>1, OtherViews DEF ListStep
<1>2. ASSUME ~missed'[b], i \notin crossed'[b], NEW w, View(b, i, w)' PROVE ViewOK(w)
  <2>1. i \notin crossed[b] /\ ReqStep(r, b, i) /\ DbStays /\ UNCHANGED <<open, phase, apply>>
    BY <1>2 DEF ListStep
  <2>0. PICK v : Stir(r, b, i, v, w)
    BY <1>2, <2>1, Stirred
  <2>2. /\ ViewOK(v) /\ v \in ViewRec /\ w \in ViewRec /\ v.db = db[i] /\ w.db = v.db /\ w.coming = v.coming /\ w.dels = v.dels
        /\ w.last = v.last /\ w.reading = v.reading /\ w.todo = v.todo /\ v.todo = Steps(b, i) /\ w.loaded = v.loaded
        /\ (\A x \in CacheName : v.items[x] = cache[b][x][i] /\ w.items[x] = cache'[b][x][i])
        /\ (v.posting <=> r \in DOMAIN req /\ Posting(r)) /\ (w.posting <=> Posting(r)')
        /\ (\A x \in v.swaps : Swapping(b, i, x)) /\ (\A x \in w.swaps : x \in v.swaps \/ SwapsIn(r, x)')
        /\ (\A x \in CacheName : r \in DOMAIN req /\ SwapsIn(r, x) => x \in v.swaps)
        /\ (req'[r].pc = "delete" => w.dropping)
    BY <2>0 DEF Stir
  <2>3. ReqFirm(r)
    BY DEF CacheInv, Firm
  <2>4. ~v.posting /\ ~w.posting /\ c \in v.swaps
    BY <2>2 DEF SwapsIn, Posting
  <2>5. w.swaps \subseteq v.swaps
    <3>2. \A x : ~SwapsIn(r, x)'
      BY DEF SwapsIn
    <3> QED BY <2>2, <3>2
  <2>6. c = "pernot" /\ v.todo # <<>> => Head(v.todo).do # "add"
    BY <1>2, <2>1, <2>2 DEF DbStays, Crosses
  <2>7. c = "regSub" => v.items[c] # <<>>
    BY <2>2, <2>3 DEF ReqFirm, SwapsIn
  <2>8. PICK d : d = req[r].doc
    OBVIOUS
  <2>9. \A x \in CacheName : w.items[x] = IF x = c THEN Append(IF v.items[x] = <<>> THEN <<>> ELSE Tail(v.items[x]), d) ELSE v.items[x]
    BY <2>2, <2>8 DEF ListStep
  <2> QED BY <2>2, <2>4, <2>5, <2>6, <2>7, <2>8, <2>9, ViewSwapped
<1>3. ViewRight(b, i)'
  BY <1>2 DEF ViewRight
<1> QED BY <1>1, <1>3

LEMMA DropViews ==
  ASSUME CacheInv, HaTypes, NEW r, NEW b \in Broker, NEW i \in Id, NEW c \in CacheName,
         ~(r \in DOMAIN req /\ Posting(r)), ~Posting(r)', \A x \in CacheName : ~SwapsIn(r, x)',
         ListStep(r, b, i, c, IF cache[b][c][i] = <<>> THEN <<>> ELSE Tail(cache[b][c][i])),
         db[i] # NoDoc => c = "regSub" /\ cache[b][c][i] # <<>> /\ req'[r].pc = "delete"
  PROVE  \A y \in Broker, j \in Id : ViewRight(y, j)'
<1>1. ASSUME NEW y \in Broker, NEW j \in Id, y # b \/ j # i PROVE ViewRight(y, j)'
  <2>1. \A z \in Broker, x \in CacheName, k \in Id : z # b \/ k # i => cache'[z][x][k] = cache[z][x][k]
    BY DEF ListStep
  <2> QED BY <1>1, <2>1, OtherViews DEF ListStep
<1>2. ASSUME ~missed'[b], i \notin crossed'[b], NEW w, View(b, i, w)' PROVE ViewOK(w)
  <2>1. i \notin crossed[b] /\ ReqStep(r, b, i) /\ DbStays /\ UNCHANGED <<open, phase, apply>>
    BY <1>2 DEF ListStep
  <2>0. PICK v : Stir(r, b, i, v, w)
    BY <1>2, <2>1, Stirred
  <2>2. /\ ViewOK(v) /\ v \in ViewRec /\ w \in ViewRec /\ v.db = db[i] /\ w.db = v.db /\ w.coming = v.coming /\ w.dels = v.dels
        /\ w.last = v.last /\ w.reading = v.reading /\ w.todo = v.todo /\ v.todo = Steps(b, i) /\ w.loaded = v.loaded
        /\ (\A x \in CacheName : v.items[x] = cache[b][x][i] /\ w.items[x] = cache'[b][x][i])
        /\ (v.posting <=> r \in DOMAIN req /\ Posting(r)) /\ (w.posting <=> Posting(r)')
        /\ (\A x \in v.swaps : Swapping(b, i, x)) /\ (\A x \in w.swaps : x \in v.swaps \/ SwapsIn(r, x)')
        /\ (\A x \in CacheName : r \in DOMAIN req /\ SwapsIn(r, x) => x \in v.swaps)
        /\ (req'[r].pc = "delete" => w.dropping)
    BY <2>0 DEF Stir
  <2>3. ~v.posting /\ ~w.posting /\ w.posting = v.posting
    BY <2>2 DEF ViewRec
  <2>4. w.swaps \subseteq v.swaps
    <3>1. w.swaps \subseteq CacheName
      BY <2>2 DEF ViewRec
    <3> QED BY <2>2, <3>1
  <2>5. v.db # NoDoc => c = "regSub" /\ v.items[c] # <<>> /\ w.dropping
    BY <2>2
  <2>6. \A x \in CacheName : w.items[x] = IF x = c THEN (IF v.items[x] = <<>> THEN <<>> ELSE Tail(v.items[x])) ELSE v.items[x]
    BY <2>2 DEF ListStep
  <2> QED BY <2>2, <2>3, <2>4, <2>5, <2>6, ViewRemoved
<1>3. ViewRight(b, i)'
  BY <1>2 DEF ViewRight
<1> QED BY <1>1, <1>3

\* A request's step keeps the rest as firm, if it is itself
LEMMA FirmGoes ==
  ASSUME Firm, HaTypes, \A q \in DOMAIN req : ReqLock(q), NEW r, NEW b \in Broker, NEW i \in Id, ReqStep(r, b, i), ReqFirm(r)',
         phase[b] = "up", UNCHANGED <<apply, phase, open>>, crossed' \in [Broker -> SUBSET Id],
         DbStays \/ \E d : DbWrites(i, d) /\ (d # NoDoc => KindOK(i, d) /\ (db[i] # NoDoc \/ InFlight(i) = {})),
         \A y \in Broker, c \in CacheName, j \in Id : \/ cache'[y][c][j] = cache[y][c][j]
            \/ /\ y = b /\ j = i /\ (cache'[y][c][j] # <<>> => (c = "reg" <=> i \in RegId))
               /\ c = "regSub" /\ cache[y][c][j] # <<>> => cache'[y][c][j] # <<>> \/ LockFree(b, "regSub")
  PROVE  Firm'
<1>1. /\ DOMAIN req' = DOMAIN req \cup {r} /\ (\A q \in DOMAIN req : q # r => req'[q] = req[q])
      /\ req'[r].at = b /\ req'[r].id = i /\ (r \in DOMAIN req => req[r].at = b /\ req[r].id = i)
      /\ \A q \in DOMAIN req : q # r /\ req[q].id = i => ~Posting(q)
  BY DEF ReqStep
<1>2. /\ req \in Seq(ReqRec) /\ DOMAIN req = 1..Len(req) /\ Len(req) \in Nat /\ db \in [Id -> Doc \cup {NoDoc}]
      /\ \A q \in DOMAIN req : req[q].id \in Id /\ req[q].at \in Broker /\ q # Free
  <2>1. req \in Seq(ReqRec) /\ DOMAIN req = 1..Len(req) /\ Len(req) \in Nat /\ db \in [Id -> Doc \cup {NoDoc}]
    BY DEF HaTypes
  <2>2. \A q \in DOMAIN req : req[q] \in ReqRec /\ q # 0
    BY <2>1
  <2> QED BY <2>1, <2>2 DEF ReqRec, Free
<1>3. (\A j \in Id : j # i => db'[j] = db[j]) /\ (db'[i] # NoDoc => KindOK(i, db'[i]))
      /\ (db[i] = NoDoc => db'[i] = NoDoc \/ InFlight(i) = {}) /\ (\A y \in Broker : ~open[y] => stream'[y] = stream[y])
  <2>1. CASE DbStays
    BY <2>1 DEF DbStays, Firm, KindFirm
  <2>2. ASSUME NEW d, DbWrites(i, d), d # NoDoc => KindOK(i, d) /\ (db[i] # NoDoc \/ InFlight(i) = {}) PROVE
          /\ (\A j \in Id : j # i => db'[j] = db[j]) /\ (db'[i] # NoDoc => KindOK(i, db'[i]))
          /\ (db[i] = NoDoc => db'[i] = NoDoc \/ InFlight(i) = {}) /\ (\A y \in Broker : ~open[y] => stream'[y] = stream[y])
    <3>1. db' = [db EXCEPT ![i] = d]
      BY <2>2 DEF DbWrites
    <3>2. \A y \in Broker : ~open[y] => stream'[y] = stream[y]
      BY <2>2 DEF DbWrites, Publish
    <3>3. (\A j \in Id : j # i => db'[j] = db[j]) /\ db'[i] = d
      BY <1>2, <3>1
    <3> QED BY <2>2, <3>2, <3>3
  <2> QED BY <2>1, <2>2
<1>4. ASSUME NEW q \in DOMAIN req', q # r PROVE ReqFirm(q)'
  <2>1. q \in DOMAIN req /\ req'[q] = req[q] /\ req[q].id \in Id /\ req[q].at \in Broker /\ ReqFirm(q) /\ ReqLock(q) /\ q # Free
    BY <1>1, <1>2, <1>4 DEF Firm
  <2>2. CASE req[q].id # i
    <3>1. InFlight(req[q].id)' = InFlight(req[q].id)
      BY <1>1, <2>1, <2>2 DEF InFlight
    <3>2. db'[req[q].id] = db[req[q].id] /\ cache'[req[q].at]["regSub"][req[q].id] = cache[req[q].at]["regSub"][req[q].id]
      BY <1>3, <2>1, <2>2 DEF CacheName
    <3>3. PICK j : j = req[q].id
      OBVIOUS
    <3>4. InFlight(j)' = InFlight(j)
      BY <1>1, <2>2, <3>3 DEF InFlight
    <3> QED BY <2>1, <3>2, <3>3, <3>4 DEF ReqFirm, Posting, InFlight
  <2>3. CASE req[q].id = i
    <3>1. ~Posting(q) /\ ~Posting(q)'
      BY <1>1, <1>4, <2>1, <2>3 DEF Posting
    <3>2. req[q].pc \in {"drop", "dropPernot", "dropReg"} => db'[i] = NoDoc
      <4>1. req[q].pc \in {"drop", "dropPernot", "dropReg"} => q \in InFlight(i)
        BY <2>1, <2>3 DEF InFlight, Ended
      <4> QED BY <1>3, <2>1, <2>3, <4>1 DEF ReqFirm
    <3>3. req[q].pc \in {"update", "swapCsr"} => cache'[req[q].at]["regSub"][i] # <<>>
      <4> SUFFICES ASSUME req[q].pc \in {"update", "swapCsr"} PROVE cache'[req[q].at]["regSub"][i] # <<>>
        OBVIOUS
      <4>1. cache[req[q].at]["regSub"][i] # <<>> /\ lock[req[q].at]["regSub"] # Free /\ "regSub" \in CacheName
        BY <2>1, <2>3 DEF ReqFirm, ReqLock, CacheName
      <4> QED BY <2>1, <4>1 DEF LockFree
    <3> QED BY <2>1, <2>3, <3>1, <3>2, <3>3 DEF ReqFirm
  <2> QED BY <2>2, <2>3
<1>5. ASSUME NEW y \in Broker PROVE PhaseFirm(y)'
  <2>1. PhaseFirm(y)
    BY DEF Firm
  <2>2. \A j \in Id, c \in CacheName : ~Loaded(y, j)' => cache'[y][c][j] = <<>>
    <3> SUFFICES ASSUME NEW j \in Id, NEW c \in CacheName, ~Loaded(y, j)' PROVE cache'[y][c][j] = <<>>
      OBVIOUS
    <3>1. ~Loaded(y, j) /\ y # b
      BY DEF Loaded
    <3> QED BY <2>1, <3>1 DEF PhaseFirm
  <2> QED BY <1>3, <2>1, <2>2 DEF PhaseFirm
<1>6. KindFirm'
  BY <1>3 DEF Firm, KindFirm, KindOK
<1> QED BY <1>1, <1>4, <1>5, <1>6 DEF Firm

\* A request that goes on, a request that is begun
LEMMA GoesOn ==
  ASSUME HaTypes, Firm, NEW r \in DOMAIN req, req[r].pc \notin Ended, NEW n, req' = [req EXCEPT ![r] = n],
         n.at = req[r].at, n.id = req[r].id
  PROVE  /\ req[r].at \in Broker /\ req[r].id \in Id /\ ReqStep(r, req[r].at, req[r].id) /\ req'[r] = n /\ phase[req[r].at] = "up"
         /\ ReqFirm(r) /\ (req[r].doc = NoDoc \/ req[r].doc \in Doc)
<1>1. req \in Seq(ReqRec) /\ req[r] \in ReqRec
  BY DEF HaTypes
<1>2. ReqFirm(r)
  BY DEF Firm
<1>3. \A q \in DOMAIN req : q # r /\ req[q].id = req[r].id => ~Posting(q)
  <2> SUFFICES ASSUME NEW q \in DOMAIN req, q # r, req[q].id = req[r].id, Posting(q) PROVE FALSE
    OBVIOUS
  <2>1. InFlight(req[q].id) = {q}
    BY DEF Firm, ReqFirm
  <2>2. r \in InFlight(req[q].id)
    BY DEF InFlight
  <2> QED BY <2>1, <2>2
<1>4. DOMAIN req' = DOMAIN req /\ req'[r] = n /\ \A q \in DOMAIN req : q # r => req'[q] = req[q]
  BY <1>1
<1>5. ReqStep(r, req[r].at, req[r].id)
  BY <1>3, <1>4 DEF ReqStep
<1> QED BY <1>1, <1>2, <1>4, <1>5 DEF ReqFirm, ReqRec

LEMMA BeginsNow ==
  ASSUME HaTypes, Firm, NEW op, NEW i \in Id, NEW b \in Broker, NEW pc, NEW d, MayBegin(op, i, b), Begin(op, i, b, pc, d)
  PROVE  /\ ReqStep(New, b, i) /\ phase[b] = "up" /\ New \notin DOMAIN req
         /\ req'[New].op = op /\ req'[New].id = i /\ req'[New].at = b /\ req'[New].pc = pc /\ req'[New].doc = d
         /\ (op = "post" => InFlight(i) = {} /\ (pc \notin Ended => InFlight(i)' = {New}))
<1>1. req \in Seq(ReqRec) /\ Len(req) \in Nat /\ DOMAIN req = 1..Len(req) /\ New = Len(req) + 1
  BY DEF HaTypes, New
<1>2. PICK n : /\ n = [op |-> op, id |-> i, at |-> b, pc |-> pc, doc |-> d,
                      kind |-> IF d # NoDoc THEN d.kind ELSE db[i].kind, beside |-> InFlight(i)]
               /\ req' = Append(req, n)
  BY DEF Begin
<1>3. n.op = op /\ n.id = i /\ n.at = b /\ n.pc = pc /\ n.doc = d
  BY <1>2
<1>4. DOMAIN req' = 1..(Len(req) + 1) /\ req'[Len(req) + 1] = n /\ \A q \in 1..Len(req) : req'[q] = req[q]
  BY <1>1, <1>2
<1>5. DOMAIN req' = DOMAIN req \cup {New} /\ New \notin DOMAIN req /\ req'[New] = n /\ \A q \in DOMAIN req : req'[q] = req[q]
  BY <1>1, <1>4
<1>6. \A q \in DOMAIN req : req[q].id = i => ~Posting(q)
  <2> SUFFICES ASSUME NEW q \in DOMAIN req, req[q].id = i, Posting(q) PROVE FALSE
    OBVIOUS
  <2>1. q \in InFlight(i) /\ req[q].op = "post"
    BY DEF InFlight, Posting, Ended, Firm, ReqFirm
  <2> QED BY <2>1 DEF MayBegin
<1>7. ReqStep(New, b, i)
  BY <1>3, <1>5, <1>6 DEF ReqStep
<1>8. op = "post" => InFlight(i) = {}
  BY DEF MayBegin
<1>9. op = "post" /\ pc \notin Ended => InFlight(i)' = {New}
  BY <1>3, <1>5, <1>8 DEF InFlight
<1> QED BY <1>3, <1>5, <1>7, <1>8, <1>9 DEF MayBegin

-----------------------------------------------------------------------------
(* Caches: the actions of requests *)

\* A request that goes on
LEMMA Going ==
  ASSUME NEW k0, PatchInv(k0), CacheInv, NEW r \in DOMAIN req, req[r].pc \notin Ended, NEW n, req' = [req EXCEPT ![r] = n],
         n.at = req[r].at, n.id = req[r].id
  PROVE  /\ req[r].at \in Broker /\ req[r].id \in Id /\ ReqStep(r, req[r].at, req[r].id) /\ phase[req[r].at] = "up" /\ req'[r] = n
         /\ ReqFirm(r) /\ ReqShape(r) /\ ReqLock(r) /\ (req[r].doc # NoDoc => req[r].doc \in Doc)
         /\ HaTypes /\ Firm /\ (\A q \in DOMAIN req : ReqLock(q)) /\ crossed \in [Broker -> SUBSET Id] /\ db \in [Id -> Doc \cup {NoDoc}]
<1>1. HaTypes /\ Firm /\ (\A q \in DOMAIN req : ReqShape(q) /\ ReqLock(q)) /\ crossed \in [Broker -> SUBSET Id] /\ db \in [Id -> Doc \cup {NoDoc}]
  BY DEF PatchInv, CacheInv, Firm, HaTypes
<1> QED BY <1>1, GoesOn

LEMMA GoingTo ==
  ASSUME NEW k0, PatchInv(k0), CacheInv, NEW r \in DOMAIN req, req[r].pc \notin Ended, NEW pc, Goto(r, pc)
  PROVE  \E n : /\ req' = [req EXCEPT ![r] = n] /\ n.at = req[r].at /\ n.id = req[r].id /\ n.pc = pc /\ n.doc = req[r].doc /\ n.op = req[r].op
<1>1. req \in Seq(ReqRec)
  BY DEF PatchInv, HaTypes
<1>2. req[r] \in ReqRec
  BY <1>1
<1>3. PICK n : n = [req[r] EXCEPT !.pc = pc]
  OBVIOUS
<1>4. n.at = req[r].at /\ n.id = req[r].id /\ n.pc = pc /\ n.doc = req[r].doc /\ n.op = req[r].op
  BY <1>2, <1>3 DEF ReqRec
<1> QED BY <1>3, <1>4 DEF Goto

\* A step of a request that leaves the caches alone
LEMMA WriteGoes ==
  ASSUME NEW k0, PatchInv(k0), CacheInv, Ha, NEW r, NEW b \in Broker, NEW i \in Id, ReqStep(r, b, i), ReqFirm(r)', phase[b] = "up",
         UNCHANGED <<cache, open, phase, apply, crossed>>,
         \/ \E d : /\ DbWrites(i, d) /\ (Posting(r)' => db[i] = NoDoc /\ d # NoDoc)
                   /\ d # NoDoc => KindOK(i, d) /\ (db[i] # NoDoc \/ InFlight(i) = {})
         \/ /\ DbStays /\ ~Posting(r)' /\ (r \in DOMAIN req => ~Posting(r))
            /\ (\A c \in CacheName : SwapsIn(r, c)' => Swapping(b, i, c) \/ (db[i] = NoDoc /\ c = "regSub"))
            /\ (r \in DOMAIN req /\ req[r].pc = "delete" => db[i] = NoDoc)
  PROVE  CacheInv'
<1>1. HaTypes /\ Firm /\ (\A q \in DOMAIN req : ReqLock(q)) /\ crossed \in [Broker -> SUBSET Id]
  BY DEF PatchInv, CacheInv, Firm
<1>2. \A y \in Broker, j \in Id : ViewRight(y, j)'
  <2>1. \/ \E d : DbWrites(i, d) /\ (Posting(r)' => db[i] = NoDoc /\ d # NoDoc)
        \/ /\ DbStays /\ ~Posting(r)' /\ (r \in DOMAIN req => ~Posting(r))
           /\ (\A c \in CacheName : SwapsIn(r, c)' => Swapping(b, i, c) \/ (db[i] = NoDoc /\ c = "regSub"))
           /\ (r \in DOMAIN req /\ req[r].pc = "delete" => db[i] = NoDoc)
    OBVIOUS
  <2> QED BY <1>1, <2>1, WriteViews
<1>3. DbStays \/ \E d : DbWrites(i, d) /\ (d # NoDoc => KindOK(i, d) /\ (db[i] # NoDoc \/ InFlight(i) = {}))
  OBVIOUS
<1>4. crossed' \in [Broker -> SUBSET Id] /\ \A y \in Broker, c \in CacheName, j \in Id : cache'[y][c][j] = cache[y][c][j]
  BY <1>1
<1>5. Firm'
  BY <1>1, <1>3, <1>4, FirmGoes
<1> QED BY <1>2, <1>5 DEF CacheInv

LEMMA PostSubscriptionCaches ==
  ASSUME NEW k0, PatchInv(k0), CacheInv, Ha, NEW b \in Broker, NEW i \in Id, NEW k \in Kinds(i) \ {"reg"}, PostSubscription(i, b, k)
  PROVE  CacheInv'
<1>1. PICK d : d = [kind |-> k, has |-> {New}]
  OBVIOUS
<1>2. /\ MayBegin("post", i, b) /\ Begin("post", i, b, "cache", d) /\ db[i] = NoDoc /\ db' = [db EXCEPT ![i] = d] /\ Publish(i, "upsert")
      /\ UNCHANGED <<cache, open, phase, apply, crossed>>
  BY <1>1 DEF PostSubscription, SubscriptionCreate
<1>3. HaTypes /\ Firm /\ db \in [Id -> Doc \cup {NoDoc}]
  BY DEF PatchInv, CacheInv, HaTypes
<1>0. PICK r : r = New
  OBVIOUS
<1>4. /\ ReqStep(r, b, i) /\ phase[b] = "up" /\ r \notin DOMAIN req
      /\ req'[r].op = "post" /\ req'[r].id = i /\ req'[r].at = b /\ req'[r].pc = "cache" /\ req'[r].doc = d
      /\ InFlight(i) = {} /\ InFlight(i)' = {r}
  <2>1. "cache" \notin Ended
    BY DEF Ended
  <2> QED BY <1>0, <1>2, <1>3, <2>1, BeginsNow
<1>5. d # NoDoc /\ KindOK(i, d) /\ i \notin RegId /\ db'[i] = d
  <2>1. i \notin RegId /\ k # "reg" /\ k # "none"
    BY HaAssumption DEF Kinds, Kind
  <2>2. d.kind = k /\ NoDoc.kind = "none"
    BY <1>1 DEF NoDoc
  <2> QED BY <1>2, <1>3, <2>1, <2>2 DEF KindOK
<1>6. DbWrites(i, d)
  BY <1>2, <1>5 DEF DbWrites
<1>7. ReqFirm(r)'
  BY <1>2, <1>4, <1>5 DEF ReqFirm, Posting, RegPc
<1> QED BY <1>2, <1>4, <1>5, <1>6, <1>7, WriteGoes

LEMMA PostCsourceRegistrationCaches ==
  ASSUME NEW k0, PatchInv(k0), CacheInv, Ha, NEW b \in Broker, NEW i \in Id, PostCsourceRegistration(i, b)
  PROVE  CacheInv'
<1>1. PICK d : d = [kind |-> "reg", has |-> {New}]
  OBVIOUS
<1>2. /\ MayBegin("post", i, b) /\ Begin("post", i, b, "cacheReg", d) /\ db[i] = NoDoc /\ db' = [db EXCEPT ![i] = d] /\ Publish(i, "upsert")
      /\ UNCHANGED <<cache, open, phase, apply, crossed>> /\ i \in RegId
  BY <1>1 DEF PostCsourceRegistration, RegistrationCreate
<1>3. HaTypes /\ Firm /\ db \in [Id -> Doc \cup {NoDoc}]
  BY DEF PatchInv, CacheInv, HaTypes
<1>0. PICK r : r = New
  OBVIOUS
<1>4. /\ ReqStep(r, b, i) /\ phase[b] = "up" /\ r \notin DOMAIN req
      /\ req'[r].op = "post" /\ req'[r].id = i /\ req'[r].at = b /\ req'[r].pc = "cacheReg" /\ req'[r].doc = d
      /\ InFlight(i) = {} /\ InFlight(i)' = {r}
  <2>1. "cacheReg" \notin Ended
    BY DEF Ended
  <2> QED BY <1>0, <1>2, <1>3, <2>1, BeginsNow
<1>5. d # NoDoc /\ KindOK(i, d) /\ db'[i] = d
  <2>2. d.kind = "reg" /\ NoDoc.kind = "none"
    BY <1>1 DEF NoDoc
  <2> QED BY <1>2, <1>3, <2>2 DEF KindOK
<1>6. DbWrites(i, d)
  BY <1>2, <1>5 DEF DbWrites
<1>7. ReqFirm(r)'
  BY <1>2, <1>4, <1>5 DEF ReqFirm, Posting, RegPc
<1> QED BY <1>2, <1>4, <1>5, <1>6, <1>7, WriteGoes

\* A request is begun that adds nothing and writes nothing, or deletes
LEMMA BareCaches ==
  ASSUME NEW k0, PatchInv(k0), CacheInv, Ha, NEW b \in Broker, NEW i \in Id, NEW op, NEW d, d # NoDoc => KindOK(i, d),
         NEW pc \in {"lock", "lockPernot", "updateReg", "update", "drop", "dropReg"}, MayBegin(op, i, b), Begin(op, i, b, pc, d),
         UNCHANGED <<cache, open, phase, apply, crossed>>, pc \in RegPc <=> i \in RegId,
         pc = "update" => cache[b]["regSub"][i] # <<>>,
         IF pc \in {"drop", "dropReg"} THEN db[i] # NoDoc /\ db' = [db EXCEPT ![i] = NoDoc] /\ Publish(i, "delete") ELSE DbStays
  PROVE  CacheInv'
<1>1. HaTypes /\ Firm /\ db \in [Id -> Doc \cup {NoDoc}]
  BY DEF PatchInv, CacheInv, HaTypes
<1>0. PICK r : r = New
  OBVIOUS
<1>2. /\ ReqStep(r, b, i) /\ phase[b] = "up" /\ r \notin DOMAIN req
      /\ req'[r].op = op /\ req'[r].id = i /\ req'[r].at = b /\ req'[r].pc = pc /\ req'[r].doc = d
  BY <1>0, <1>1, BeginsNow
<1>3. ~Posting(r)' /\ \A c : ~SwapsIn(r, c)'
  BY <1>2 DEF Posting, SwapsIn
<1>4. pc \in {"drop", "dropReg"} => DbWrites(i, NoDoc) /\ db'[i] = NoDoc
  BY <1>1 DEF DbWrites
<1>5. ReqFirm(r)'
  BY <1>2, <1>3, <1>4 DEF ReqFirm
<1>6. CASE pc \in {"drop", "dropReg"}
  BY <1>2, <1>3, <1>4, <1>5, <1>6, WriteGoes
<1>7. CASE pc \notin {"drop", "dropReg"}
  BY <1>2, <1>3, <1>5, <1>7, WriteGoes
<1> QED BY <1>6, <1>7

LEMMA PatchSubscriptionCaches ==
  ASSUME NEW k0, PatchInv(k0), CacheInv, Ha, NEW b \in Broker, NEW i \in Id, PatchSubscription(i, b)
  PROVE  CacheInv'
<1>1. PICK pc : pc = IF cache[b]["pernot"][i] = <<>> THEN "lock" ELSE "lockPernot"
  OBVIOUS
<1>2. pc \in {"lock", "lockPernot"} /\ MayBegin("patch", i, b) /\ Begin("patch", i, b, pc, NoDoc) /\ DbStays
      /\ UNCHANGED <<cache, open, phase, apply, crossed>> /\ i \notin RegId
  BY <1>1, HaAssumption DEF PatchSubscription, DbStays
<1>3. pc \notin RegPc
  BY <1>2 DEF RegPc
<1> QED BY <1>2, <1>3, BareCaches

LEMMA DeleteSubscriptionCaches ==
  ASSUME NEW k0, PatchInv(k0), CacheInv, Ha, NEW b \in Broker, NEW i \in Id, DeleteSubscription(i, b)
  PROVE  CacheInv'
<1>1. MayBegin("delete", i, b) /\ Begin("delete", i, b, "drop", NoDoc) /\ db[i] # NoDoc /\ db' = [db EXCEPT ![i] = NoDoc] /\ Publish(i, "delete")
      /\ UNCHANGED <<cache, open, phase, apply, crossed>> /\ i \notin RegId
  BY HaAssumption DEF DeleteSubscription, SubscriptionDelete
<1>2. "drop" \notin RegPc
  BY DEF RegPc
<1> QED BY <1>1, <1>2, BareCaches

LEMMA DeleteCsourceRegistrationCaches ==
  ASSUME NEW k0, PatchInv(k0), CacheInv, Ha, NEW b \in Broker, NEW i \in Id, DeleteCsourceRegistration(i, b)
  PROVE  CacheInv'
<1>1. MayBegin("delete", i, b) /\ Begin("delete", i, b, "dropReg", NoDoc) /\ db[i] # NoDoc /\ db' = [db EXCEPT ![i] = NoDoc] /\ Publish(i, "delete")
      /\ UNCHANGED <<cache, open, phase, apply, crossed>> /\ i \in RegId
  BY DEF DeleteCsourceRegistration, RegistrationDelete
<1>2. "dropReg" \in RegPc
  BY DEF RegPc
<1> QED BY <1>1, <1>2, BareCaches

LEMMA PatchCsourceRegistrationCaches ==
  ASSUME NEW k0, PatchInv(k0), CacheInv, Ha, NEW b \in Broker, NEW i \in Id, PatchCsourceRegistration(i, b)
  PROVE  CacheInv'
<1>1. PICK d : d = [db[i] EXCEPT !.has = @ \cup {New}]
  OBVIOUS
<1>2. MayBegin("patch", i, b) /\ Begin("patch", i, b, "updateReg", d) /\ DbStays
      /\ UNCHANGED <<cache, open, phase, apply, crossed>> /\ i \in RegId /\ db[i] # NoDoc
  BY <1>1 DEF PatchCsourceRegistration, DbStays
<1>3. KindOK(i, d)
  <2>1. KindOK(i, db[i]) /\ db[i] \in Doc
    BY <1>2 DEF CacheInv, Firm, KindFirm, PatchInv, HaTypes
  <2>2. d.kind = db[i].kind
    BY <1>1, <2>1 DEF Doc
  <2> QED BY <2>1, <2>2 DEF KindOK
<1>4. "updateReg" \in RegPc
  BY DEF RegPc
<1> QED BY <1>2, <1>3, <1>4, BareCaches

LEMMA PatchCsourceSubscriptionCaches ==
  ASSUME NEW k0, PatchInv(k0), CacheInv, Ha, NEW b \in Broker, NEW i \in Id, PatchCsourceSubscription(i, b)
  PROVE  CacheInv'
<1>0. PICK g : g = Head(cache[b]["regSub"][i])
  OBVIOUS
<1>1. PICK d : d = [g EXCEPT !.has = @ \cup {New}]
  OBVIOUS
<1>2. MayBegin("patchCsr", i, b) /\ Begin("patchCsr", i, b, "update", d) /\ DbStays
      /\ UNCHANGED <<cache, open, phase, apply, crossed>> /\ i \notin RegId /\ cache[b]["regSub"][i] # <<>>
  BY <1>0, <1>1, HaAssumption DEF PatchCsourceSubscription, DbStays
<1>3. KindOK(i, d)
  <2>1. cache[b]["regSub"][i] \in Seq(Doc) /\ CacheDocs(k0, b) /\ "regSub" \in CacheName
    BY DEF PatchInv, HaTypes, CacheName
  <2>2. g \in Range(cache[b]["regSub"][i]) /\ g \in Doc
    BY <1>0, <1>2, <2>1, TailSub
  <2>3. g.kind = "csr"
    BY <2>1, <2>2 DEF CacheDocs
  <2>4. d.kind = "csr"
    BY <1>1, <2>2, <2>3 DEF Doc
  <2> QED BY <1>2, <2>4 DEF KindOK
<1>4. "update" \notin RegPc
  BY DEF RegPc
<1> QED BY <1>2, <1>3, <1>4, BareCaches

\* A request goes on that writes nothing, or the document it has, or deletes the record
LEMMA StepCaches ==
  ASSUME NEW k0, PatchInv(k0), CacheInv, Ha, NEW r \in DOMAIN req, req[r].pc \notin Ended, ~Posting(r), NEW n, req' = [req EXCEPT ![r] = n],
         n.at = req[r].at, n.id = req[r].id, n.pc \notin {"cache", "cacheReg", "drop", "dropPernot", "dropReg", "update"},
         n.pc = "swapCsr" => req[r].pc = "update",
         n.doc # NoDoc => KindOK(req[r].id, n.doc),
         n.pc \in Ended \/ (n.pc \in RegPc <=> req[r].pc \in RegPc), UNCHANGED <<cache, open, phase, apply, crossed>>,
         \/ /\ DbStays /\ (req[r].pc = "delete" => db[req[r].id] = NoDoc)
            /\ n.pc \notin {"swap", "swapPernot", "swapReg"} /\ (n.pc = "swapCsr" => db[req[r].id] = NoDoc)
         \/ \E d : DbWrites(req[r].id, d) /\ db[req[r].id] # NoDoc /\ (d # NoDoc => KindOK(req[r].id, d))
  PROVE  CacheInv'
<1>1. PICK b, i : b = req[r].at /\ i = req[r].id
  OBVIOUS
<1>2. /\ b \in Broker /\ i \in Id /\ ReqStep(r, b, i) /\ phase[b] = "up" /\ req'[r] = n /\ ReqFirm(r) /\ req[r].at = b /\ req[r].id = i
  BY <1>1, Going
<1>3. ~Posting(r)'
  BY <1>2 DEF Posting
<1>4. ReqFirm(r)'
  BY <1>1, <1>2, <1>3 DEF ReqFirm
<1>5. CASE /\ DbStays /\ (req[r].pc = "delete" => db[i] = NoDoc)
           /\ n.pc \notin {"swap", "swapPernot", "swapReg"} /\ (n.pc = "swapCsr" => db[i] = NoDoc)
  <2>1. \A c \in CacheName : SwapsIn(r, c)' => Swapping(b, i, c) \/ (db[i] = NoDoc /\ c = "regSub")
    BY <1>2, <1>5 DEF SwapsIn
  <2> QED BY <1>2, <1>3, <1>4, <1>5, <2>1, WriteGoes
<1>6. ASSUME NEW d, DbWrites(i, d), db[i] # NoDoc, d # NoDoc => KindOK(i, d) PROVE CacheInv'
  BY <1>2, <1>3, <1>4, <1>6, WriteGoes
<1> QED BY <1>1, <1>5, <1>6

LEMMA PatchSubscriptionRetrieveCaches ==
  ASSUME NEW k0, PatchInv(k0), CacheInv, Ha, NEW r \in DOMAIN req, PatchSubscriptionRetrieve(r)
  PROVE  CacheInv'
<1>1. req[r].pc \in {"lock", "lockPernot"} /\ DbStays /\ UNCHANGED <<cache, open, phase, apply, crossed>>
  BY DEF PatchSubscriptionRetrieve, DbStays
<1>2. req[r].pc \notin Ended /\ req[r].pc \notin RegPc /\ ~Posting(r) /\ req[r].pc # "delete"
  BY <1>1 DEF Ended, RegPc, Posting
<1>3. req \in Seq(ReqRec) /\ db \in [Id -> Doc \cup {NoDoc}] /\ KindFirm /\ ReqFirm(r)
  BY DEF PatchInv, HaTypes, CacheInv, Firm
<1>4. req[r] \in ReqRec /\ req \in [1..Len(req) -> ReqRec] /\ r \in 1..Len(req)
  BY <1>3
<1>5. CASE Goto(r, "refused")
  <2>1. PICK n : /\ req' = [req EXCEPT ![r] = n] /\ n.at = req[r].at /\ n.id = req[r].id /\ n.pc = "refused" /\ n.doc = req[r].doc
    BY <1>2, <1>5, GoingTo
  <2>2. "refused" \in Ended /\ (n.doc # NoDoc => KindOK(req[r].id, n.doc))
    BY <1>3, <2>1 DEF Ended, ReqFirm
  <2> QED BY <1>1, <1>2, <2>1, <2>2, StepCaches
<1>6. CASE /\ db[req[r].id] # NoDoc
           /\ req' = [req EXCEPT ![r].doc = [db[req[r].id] EXCEPT !.has = @ \cup {r}],
                                 ![r].pc = IF req[r].pc = "lock" THEN "replace" ELSE "replacePernot"]
  <2>1. PICK i, g, e, pc : i = req[r].id /\ g = db[i] /\ e = [g EXCEPT !.has = @ \cup {r}] /\ pc = (IF req[r].pc = "lock" THEN "replace" ELSE "replacePernot")
    OBVIOUS
  <2>2. i \in Id /\ g \in Doc /\ KindOK(i, g)
    BY <1>3, <1>4, <1>6, <2>1 DEF ReqRec, KindFirm
  <2>3. KindOK(i, e)
    <3>1. e.kind = g.kind
      BY <2>1, <2>2 DEF Doc
    <3> QED BY <2>2, <3>1 DEF KindOK
  <2>4. PICK n : n = [req[r] EXCEPT !.doc = e, !.pc = pc]
    OBVIOUS
  <2>5. n.at = req[r].at /\ n.id = req[r].id /\ n.pc = pc /\ n.doc = e /\ pc \in {"replace", "replacePernot"}
    BY <1>4, <2>1, <2>4 DEF ReqRec
  <2>6. req' = [req EXCEPT ![r] = n]
    <3>1. req' = [req EXCEPT ![r].doc = e, ![r].pc = pc]
      BY <1>6, <2>1
    <3> QED BY <1>4, <2>4, <3>1 DEF ReqRec
  <2>7. pc \notin RegPc
    BY <2>5 DEF RegPc
  <2> QED BY <1>1, <1>2, <2>1, <2>3, <2>5, <2>6, <2>7, StepCaches
<1> QED BY <1>5, <1>6 DEF PatchSubscriptionRetrieve

\* One that gives up
LEMMA RefusedCaches ==
  ASSUME NEW k0, PatchInv(k0), CacheInv, Ha, NEW r \in DOMAIN req, req[r].pc \notin Ended, ~Posting(r), req[r].pc # "delete", Goto(r, "refused"),
         DbStays, UNCHANGED <<cache, open, phase, apply, crossed>>
  PROVE  CacheInv'
<1>1. PICK n : /\ req' = [req EXCEPT ![r] = n] /\ n.at = req[r].at /\ n.id = req[r].id /\ n.pc = "refused" /\ n.doc = req[r].doc
  BY GoingTo
<1>2. "refused" \in Ended /\ (n.doc # NoDoc => KindOK(req[r].id, n.doc))
  BY <1>1 DEF CacheInv, Firm, Ended, ReqFirm
<1> QED BY <1>1, <1>2, StepCaches

\* ... and one that has stored its document
LEMMA StoredCaches ==
  ASSUME NEW k0, PatchInv(k0), CacheInv, Ha, NEW r \in DOMAIN req, req[r].pc \in {"replace", "replacePernot", "update", "updateReg"},
         NEW pc, Goto(r, pc), pc = CASE req[r].pc = "replace" -> "swap" [] req[r].pc = "replacePernot" -> "swapPernot"
                                     [] req[r].pc = "update" -> "swapCsr" [] req[r].pc = "updateReg" -> "swapReg",
         db[req[r].id] # NoDoc, db' = [db EXCEPT ![req[r].id] = req[r].doc], Publish(req[r].id, "upsert"),
         UNCHANGED <<cache, open, phase, apply, crossed>>
  PROVE  CacheInv'
<1>1. req[r].pc \notin Ended /\ ~Posting(r)
  BY DEF Ended, Posting
<1>2. PICK n : /\ req' = [req EXCEPT ![r] = n] /\ n.at = req[r].at /\ n.id = req[r].id /\ n.pc = pc /\ n.doc = req[r].doc
  BY <1>1, GoingTo
<1>3. ReqFirm(r) /\ ReqShape(r)
  BY DEF CacheInv, Firm, PatchInv
<1>4. req[r].doc # NoDoc /\ KindOK(req[r].id, req[r].doc)
  BY <1>3 DEF ReqFirm, ReqShape
<1>5. DbWrites(req[r].id, req[r].doc)
  BY <1>4 DEF DbWrites
<1>6. pc \in {"swap", "swapPernot", "swapCsr", "swapReg"} /\ (pc \in RegPc <=> req[r].pc \in RegPc) /\ (pc = "swapCsr" => req[r].pc = "update")
  BY DEF RegPc
<1> QED BY <1>1, <1>2, <1>4, <1>5, <1>6, StepCaches

LEMMA PatchSubscriptionReplaceCaches ==
  ASSUME NEW k0, PatchInv(k0), CacheInv, Ha, NEW r \in DOMAIN req, PatchSubscriptionReplace(r)
  PROVE  CacheInv'
<1>1. req[r].pc \in {"replace", "replacePernot"} /\ UNCHANGED <<cache, open, phase, apply, crossed>>
  BY DEF PatchSubscriptionReplace
<1>2. req[r].pc \notin Ended /\ ~Posting(r) /\ req[r].pc # "delete"
  BY <1>1 DEF Ended, Posting
<1>3. CASE Goto(r, "refused") /\ UNCHANGED <<db, stream, missed>>
  BY <1>1, <1>2, <1>3, RefusedCaches DEF DbStays
<1>4. CASE SubscriptionReplace(req[r].id, req[r].doc) /\ Goto(r, IF req[r].pc = "replace" THEN "swap" ELSE "swapPernot")
  <2>1. PICK pc : pc = IF req[r].pc = "replace" THEN "swap" ELSE "swapPernot"
    OBVIOUS
  <2>2. pc = CASE req[r].pc = "replace" -> "swap" [] req[r].pc = "replacePernot" -> "swapPernot"
                                     [] req[r].pc = "update" -> "swapCsr" [] req[r].pc = "updateReg" -> "swapReg"
    BY <1>1, <2>1
  <2>3. Goto(r, pc) /\ db[req[r].id] # NoDoc /\ db' = [db EXCEPT ![req[r].id] = req[r].doc] /\ Publish(req[r].id, "upsert")
    BY <1>4, <2>1 DEF SubscriptionReplace
  <2> QED BY <1>1, <2>2, <2>3, StoredCaches
<1> QED BY <1>3, <1>4 DEF PatchSubscriptionReplace

LEMMA PatchCsourceSubscriptionUpdateCaches ==
  ASSUME NEW k0, PatchInv(k0), CacheInv, Ha, NEW r \in DOMAIN req, PatchCsourceSubscriptionUpdate(r)
  PROVE  CacheInv'
<1>1. req[r].pc = "update" /\ UNCHANGED <<cache, open, phase, apply, crossed>>
  BY DEF PatchCsourceSubscriptionUpdate
<1>2. req[r].pc \notin Ended /\ ~Posting(r) /\ req[r].pc # "delete" /\ req[r].pc \notin RegPc
  BY <1>1 DEF Ended, Posting, RegPc
<1>3. CASE Goto(r, "refused") /\ UNCHANGED <<db, stream, missed>>
  BY <1>1, <1>2, <1>3, RefusedCaches DEF DbStays
<1>4. CASE SubscriptionUpdate(req[r].id, req[r].doc) /\ Goto(r, "swapCsr") /\ db[req[r].id] = NoDoc
  <2>1. PICK n : /\ req' = [req EXCEPT ![r] = n] /\ n.at = req[r].at /\ n.id = req[r].id /\ n.pc = "swapCsr" /\ n.doc = req[r].doc
    BY <1>2, <1>4, GoingTo
  <2>2. n.doc # NoDoc => KindOK(req[r].id, n.doc)
    BY <2>1 DEF CacheInv, Firm, ReqFirm
  <2>3. DbStays
    BY <1>4 DEF SubscriptionUpdate, DbStays
  <2>4. "swapCsr" \notin RegPc
    BY DEF RegPc
  <2> QED BY <1>1, <1>2, <1>4, <2>1, <2>2, <2>3, <2>4, StepCaches
<1>5. CASE SubscriptionUpdate(req[r].id, req[r].doc) /\ Goto(r, "swapCsr") /\ db[req[r].id] # NoDoc
  <2>1. PICK pc : pc = "swapCsr"
    OBVIOUS
  <2>2. pc = CASE req[r].pc = "replace" -> "swap" [] req[r].pc = "replacePernot" -> "swapPernot"
                                     [] req[r].pc = "update" -> "swapCsr" [] req[r].pc = "updateReg" -> "swapReg"
    BY <1>1, <2>1
  <2>3. Goto(r, pc) /\ db' = [db EXCEPT ![req[r].id] = req[r].doc] /\ Publish(req[r].id, "upsert")
    BY <1>5, <2>1 DEF SubscriptionUpdate
  <2> QED BY <1>1, <1>5, <2>2, <2>3, StoredCaches
<1> QED BY <1>3, <1>4, <1>5 DEF PatchCsourceSubscriptionUpdate

LEMMA PatchCsourceRegistrationUpdateCaches ==
  ASSUME NEW k0, PatchInv(k0), CacheInv, Ha, NEW r \in DOMAIN req, PatchCsourceRegistrationUpdate(r)
  PROVE  CacheInv'
<1>1. req[r].pc = "updateReg" /\ UNCHANGED <<cache, open, phase, apply, crossed>>
  BY DEF PatchCsourceRegistrationUpdate
<1>2. req[r].pc \notin Ended /\ ~Posting(r) /\ req[r].pc # "delete"
  BY <1>1 DEF Ended, Posting
<1>3. CASE Goto(r, "refused") /\ UNCHANGED <<db, stream, missed>>
  BY <1>1, <1>2, <1>3, RefusedCaches DEF DbStays
<1>4. CASE RegistrationUpdate(req[r].id, req[r].doc) /\ Goto(r, "swapReg")
  <2>1. PICK pc : pc = "swapReg"
    OBVIOUS
  <2>2. pc = CASE req[r].pc = "replace" -> "swap" [] req[r].pc = "replacePernot" -> "swapPernot"
                                     [] req[r].pc = "update" -> "swapCsr" [] req[r].pc = "updateReg" -> "swapReg"
    BY <1>1, <2>1
  <2>3. Goto(r, pc) /\ db[req[r].id] # NoDoc /\ db' = [db EXCEPT ![req[r].id] = req[r].doc] /\ Publish(req[r].id, "upsert")
    BY <1>4, <2>1 DEF RegistrationUpdate
  <2> QED BY <1>1, <2>2, <2>3, StoredCaches
<1> QED BY <1>3, <1>4 DEF PatchCsourceRegistrationUpdate

LEMMA DeleteCsourceSubscriptionStoredCaches ==
  ASSUME NEW k0, PatchInv(k0), CacheInv, Ha, NEW r \in DOMAIN req, DeleteCsourceSubscriptionStored(r)
  PROVE  CacheInv'
<1>1. req[r].pc = "delete" /\ UNCHANGED <<cache, open, phase, apply, crossed>> /\ Goto(r, "done")
      /\ IF db[req[r].id] = NoDoc THEN DbStays ELSE SubscriptionDelete(req[r].id)
  BY DEF DeleteCsourceSubscriptionStored, DbStays
<1>2. req[r].pc \notin Ended /\ ~Posting(r) /\ "done" \in Ended
  BY <1>1 DEF Ended, Posting
<1>3. PICK n : /\ req' = [req EXCEPT ![r] = n] /\ n.at = req[r].at /\ n.id = req[r].id /\ n.pc = "done" /\ n.doc = req[r].doc
  BY <1>1, <1>2, GoingTo
<1>4. n.doc # NoDoc => KindOK(req[r].id, n.doc)
  BY <1>3 DEF CacheInv, Firm, ReqFirm
<1>5. CASE db[req[r].id] = NoDoc
  BY <1>1, <1>2, <1>3, <1>4, <1>5, StepCaches
<1>6. CASE db[req[r].id] # NoDoc
  <2>1. DbWrites(req[r].id, NoDoc)
    BY <1>1, <1>6 DEF SubscriptionDelete, DbWrites
  <2> QED BY <1>1, <1>2, <1>3, <1>4, <1>6, <2>1, StepCaches
<1> QED BY <1>5, <1>6

\* A step of a request on a list: what is firm
LEMMA ListFirm ==
  ASSUME NEW k0, PatchInv(k0), CacheInv, NEW r, NEW b \in Broker, NEW i \in Id, NEW c \in CacheName, NEW s, ListStep(r, b, i, c, s), ReqFirm(r)',
         phase[b] = "up", crossed' \in [Broker -> SUBSET Id], s # <<>> => (c = "reg" <=> i \in RegId),
         c = "regSub" => s # <<>> \/ LockFree(b, "regSub")
  PROVE  Firm'
<1>1. HaTypes /\ Firm /\ (\A q \in DOMAIN req : ReqLock(q))
  BY DEF PatchInv, CacheInv
<1>2. ReqStep(r, b, i) /\ DbStays /\ UNCHANGED <<apply, phase, open>>
      /\ \A y \in Broker, x \in CacheName, j \in Id : cache'[y][x][j] = IF y = b /\ x = c /\ j = i THEN s ELSE cache[y][x][j]
  BY DEF ListStep
<1>3. \A y \in Broker, x \in CacheName, j \in Id : \/ cache'[y][x][j] = cache[y][x][j]
            \/ /\ y = b /\ j = i /\ (cache'[y][x][j] # <<>> => (x = "reg" <=> i \in RegId))
               /\ x = "regSub" /\ cache[y][x][j] # <<>> => cache'[y][x][j] # <<>> \/ LockFree(b, "regSub")
  BY <1>2
<1> QED BY <1>1, <1>2, <1>3, FirmGoes

\* The list an operation of a cache leaves
OpLeaves(b, c, i, s) ==
  \/ \E d \in Doc : ItemAdd(b, c, i, d) /\ s = Append(cache[b][c][i], d)
  \/ ItemRemove(b, c, i) /\ s = (IF cache[b][c][i] = <<>> THEN <<>> ELSE Tail(cache[b][c][i]))
  \/ \E d \in Doc : ItemSwap(b, c, i, d) /\ s = Append(IF cache[b][c][i] = <<>> THEN <<>> ELSE Tail(cache[b][c][i]), d)

LEMMA ListOps ==
  ASSUME HaTypes, NEW b \in Broker, NEW c \in CacheName, NEW i \in Id, NEW s,
         OpLeaves(b, c, i, s)
  PROVE  /\ cache' = [cache EXCEPT ![b][c][i] = s]
         /\ \A y \in Broker, x \in CacheName, j \in Id : cache'[y][x][j] = IF y = b /\ x = c /\ j = i THEN s ELSE cache[y][x][j]
<1>1. cache \in [Broker -> [CacheName -> [Id -> Seq(Doc)]]]
  BY DEF HaTypes
<1>2. PICK t : t = cache[b][c][i]
  OBVIOUS
<1>3. t \in Seq(Doc)
  BY <1>1, <1>2
<1>4. s \in Seq(Doc)
  <2>0. <<>> \in Seq(Doc)
    OBVIOUS
  <2>1. t # <<>> => Tail(t) \in Seq(Doc)
    BY <1>3, TailSub
  <2>2. \A u \in Seq(Doc), d \in Doc : Append(u, d) \in Seq(Doc)
    OBVIOUS
  <2>3. PICK u : u = IF t = <<>> THEN <<>> ELSE Tail(t)
    OBVIOUS
  <2>4. u \in Seq(Doc)
    BY <2>0, <2>1, <2>3
  <2>5. s = u \/ \E d \in Doc : s = Append(t, d) \/ s = Append(u, d)
    BY <1>2, <2>3 DEF OpLeaves
  <2> QED BY <1>3, <2>2, <2>4, <2>5
<1>5. cache' = [cache EXCEPT ![b][c][i] = s]
  <2>1. CASE \E d \in Doc : ItemAdd(b, c, i, d) /\ s = Append(cache[b][c][i], d)
    BY <2>1 DEF ItemAdd
  <2>2. CASE ItemRemove(b, c, i) /\ s = (IF cache[b][c][i] = <<>> THEN <<>> ELSE Tail(cache[b][c][i]))
    <3>1. cache' = [cache EXCEPT ![b][c][i] = IF cache[b][c][i] = <<>> THEN cache[b][c][i] ELSE Tail(cache[b][c][i])]
      BY <2>2 DEF ItemRemove
    <3>2. (IF cache[b][c][i] = <<>> THEN cache[b][c][i] ELSE Tail(cache[b][c][i])) = s
      BY <2>2
    <3> QED BY <3>1, <3>2
  <2>3. CASE \E d \in Doc : ItemSwap(b, c, i, d) /\ s = Append(IF cache[b][c][i] = <<>> THEN <<>> ELSE Tail(cache[b][c][i]), d)
    <3>1. PICK d \in Doc : ItemSwap(b, c, i, d) /\ s = Append(IF cache[b][c][i] = <<>> THEN <<>> ELSE Tail(cache[b][c][i]), d)
      BY <2>3
    <3>2. cache' = [cache EXCEPT ![b][c][i] = Append(IF cache[b][c][i] = <<>> THEN cache[b][c][i] ELSE Tail(cache[b][c][i]), d)]
      BY <3>1 DEF ItemSwap
    <3>3. (IF cache[b][c][i] = <<>> THEN cache[b][c][i] ELSE Tail(cache[b][c][i])) = (IF cache[b][c][i] = <<>> THEN <<>> ELSE Tail(cache[b][c][i]))
      OBVIOUS
    <3> QED BY <3>1, <3>2, <3>3
  <2> QED BY <2>1, <2>2, <2>3 DEF OpLeaves
<1> QED BY <1>1, <1>4, <1>5, OneList

LEMMA AppendMore ==
  ASSUME NEW t \in Seq(Doc), NEW d \in Doc PROVE Append(t, d) # <<>>
<1>1. Len(Append(t, d)) = Len(t) + 1 /\ Len(t) \in Nat
  OBVIOUS
<1>2. Len(<<>>) = 0
  OBVIOUS
<1> SUFFICES ASSUME Append(t, d) = <<>> PROVE FALSE
  OBVIOUS
<1>3. Len(t) + 1 = 0
  BY <1>1, <1>2
<1> QED BY <1>1, <1>3

\* A POST adds its item
LEMMA AddCaches ==
  ASSUME NEW k0, PatchInv(k0), CacheInv, NEW r \in DOMAIN req, Posting(r), Goto(r, "done"),
         ItemAdd(req[r].at, KindCache(req[r].doc), req[r].id, req[r].doc),
         UNCHANGED <<db, stream, open, phase, apply, missed>>, crossed' \in [Broker -> SUBSET Id],
         \A y \in Broker : crossed[y] \subseteq crossed'[y],
         ~missed[req[r].at] /\ req[r].id \notin crossed[req[r].at] => req[r].id \in crossed'[req[r].at] \/ ~Crosses(req[r].at, req[r].id)
  PROVE  CacheInv'
<1>1. PICK b, i, d : b = req[r].at /\ i = req[r].id /\ d = req[r].doc
  OBVIOUS
<1>2. req[r].pc \notin Ended
  BY DEF Posting, Ended
<1>3. PICK n : /\ req' = [req EXCEPT ![r] = n] /\ n.at = req[r].at /\ n.id = req[r].id /\ n.pc = "done" /\ n.doc = req[r].doc
  BY <1>2, GoingTo
<1>4. /\ b \in Broker /\ i \in Id /\ ReqStep(r, b, i) /\ phase[b] = "up" /\ req'[r] = n /\ ReqFirm(r)
      /\ (req[r].doc # NoDoc => req[r].doc \in Doc) /\ HaTypes
  BY <1>1, <1>2, <1>3, Going
<1>5. d # NoDoc /\ d \in Doc /\ KindOK(i, d)
  BY <1>1, <1>4 DEF ReqFirm
<1>6. KindCache(d) \in CacheName /\ (KindCache(d) = "reg" <=> i \in RegId) /\ (KindCache(d) = "regSub" => TRUE)
  BY <1>5 DEF KindCache, Doc, Kind, KindOK, CacheName, TenantSubCacheItemKind
<1>7. PICK c, s : c = KindCache(d) /\ s = Append(cache[b][c][i], d)
  OBVIOUS
<1>8. /\ ItemAdd(b, c, i, d) /\ c \in CacheName
      /\ \A y \in Broker, x \in CacheName, j \in Id : cache'[y][x][j] = IF y = b /\ x = c /\ j = i THEN s ELSE cache[y][x][j]
  <2>1. ItemAdd(b, c, i, d) /\ c \in CacheName
    BY <1>1, <1>6, <1>7
  <2>2. OpLeaves(b, c, i, s)
    BY <1>5, <1>7, <2>1 DEF OpLeaves
  <2> QED BY <1>4, <2>1, <2>2, ListOps
<1>9. ListStep(r, b, i, c, s)
  BY <1>4, <1>8 DEF ListStep, DbStays
<1>10. s # <<>>
  <2>1. cache[b][c][i] \in Seq(Doc)
    BY <1>4, <1>8 DEF HaTypes
  <2> QED BY <1>5, <1>7, <2>1, AppendMore
<1>11. ReqFirm(r)'
  BY <1>1, <1>3, <1>4, <1>5 DEF ReqFirm, Posting, Ended
<1>12. Firm'
  BY <1>4, <1>6, <1>7, <1>8, <1>9, <1>10, <1>11, ListFirm
<1>13. \A y \in Broker, j \in Id : ViewRight(y, j)'
  <2>1. req[r].at = b /\ req[r].id = i /\ req'[r].pc = "done" /\ c = KindCache(req[r].doc) /\ ListStep(r, b, i, c, Append(cache[b][c][i], req[r].doc))
        /\ (~missed[b] /\ i \notin crossed[b] => i \in crossed'[b] \/ ~Crosses(b, i))
    BY <1>1, <1>3, <1>4, <1>7, <1>9
  <2> QED BY <1>4, <1>8, <2>1, AddViews
<1> QED BY <1>12, <1>13 DEF CacheInv

\* What CrossedBy makes of the record and of the others
LEMMA CrossesBy ==
  ASSUME HaTypes, crossed \in [Broker -> SUBSET Id], NEW q \in ReqRec, CrossedBy(q)
  PROVE  /\ crossed' \in [Broker -> SUBSET Id] /\ \A y \in Broker : crossed[y] \subseteq crossed'[y]
         /\ q.id \in crossed'[q.at] \/ ~Crosses(q.at, q.id)
<1>1. q.at \in Broker /\ q.id \in Id
  BY DEF ReqRec
<1>2. PICK b, i, p : b = q.at /\ i = q.id /\ (p <=> apply[b].id = i /\ apply[b].todo # <<>> /\ Head(apply[b].todo).do = "add") /\ p \in BOOLEAN
  OBVIOUS
<1>3. crossed' = [crossed EXCEPT ![b] = crossed[b] \cup (IF p THEN {i} ELSE {})]
  BY <1>2 DEF CrossedBy
<1>4. Crosses(b, i) => p
  <2>1. Steps(b, i) # <<>> => Steps(b, i) = apply[b].todo /\ apply[b].id = i
    BY DEF Steps
  <2> QED BY <1>2, <2>1 DEF Crosses
<1> QED BY <1>1, <1>2, <1>3, <1>4

LEMMA PostSubscriptionCachedCaches ==
  ASSUME NEW k0, PatchInv(k0), CacheInv, NEW r \in DOMAIN req, PostSubscriptionCached(r) \/ PostCsourceSubscriptionCached(r)
  PROVE  CacheInv'
<1>1. /\ Posting(r) /\ Goto(r, "done") /\ CrossedBy(req[r]) /\ UNCHANGED <<db, stream, open, phase, apply, missed>>
      /\ ItemAdd(req[r].at, KindCache(req[r].doc), req[r].id, req[r].doc)
  BY DEF PostSubscriptionCached, PostCsourceSubscriptionCached, Posting, KindCache, TenantSubCacheItemKind
<1>2. HaTypes /\ crossed \in [Broker -> SUBSET Id] /\ req[r] \in ReqRec
  <2>1. req \in Seq(ReqRec)
    BY DEF PatchInv, HaTypes
  <2> QED BY <2>1 DEF PatchInv, CacheInv, Firm
<1>3. /\ crossed' \in [Broker -> SUBSET Id] /\ (\A y \in Broker : crossed[y] \subseteq crossed'[y])
      /\ req[r].id \in crossed'[req[r].at] \/ ~Crosses(req[r].at, req[r].id)
  BY <1>1, <1>2, CrossesBy
<1> QED BY <1>1, <1>3, AddCaches

\* The change stream's thread adds no registration
LEMMA RegNotCrossed ==
  ASSUME HaTypes, CacheInv, NEW b \in Broker, NEW i \in RegId, ~missed[b], i \notin crossed[b] PROVE ~Crosses(b, i)
<1>1. i \in Id
  BY DEF Id
<1>2. PICK v : View(b, i, v)
  BY <1>1, Viewed
<1>3. v \in ViewRec /\ ViewOK(v) /\ v.todo = Steps(b, i)
  BY <1>1, <1>2 DEF View, CacheInv, ViewRight
<1> SUFFICES ASSUME Crosses(b, i) PROVE FALSE
  OBVIOUS
<1>4. v.todo # <<>> /\ Head(v.todo).do = "add" /\ v.todo \in Seq(HoldRec)
  BY <1>3 DEF Crosses, ViewRec
<1>5. Head(v.todo).cache = "pernot" /\ Head(v.todo) \in Range(v.todo)
  BY <1>3, <1>4, HeadAdds, TailSub
<1>6. v.todo = apply[b].todo /\ apply[b].id = i
  BY <1>3, <1>4 DEF Steps
<1> QED BY <1>5, <1>6 DEF CacheInv, Firm, KindFirm

LEMMA PostCsourceRegistrationCachedCaches ==
  ASSUME NEW k0, PatchInv(k0), CacheInv, NEW r \in DOMAIN req, PostCsourceRegistrationCached(r)
  PROVE  CacheInv'
<1>1. req[r].pc = "cacheReg" /\ Goto(r, "done") /\ UNCHANGED <<db, stream, open, phase, apply, missed, crossed>>
      /\ ItemAdd(req[r].at, "reg", req[r].id, req[r].doc)
  BY DEF PostCsourceRegistrationCached
<1>2. HaTypes /\ crossed \in [Broker -> SUBSET Id] /\ req[r] \in ReqRec /\ ReqFirm(r)
  <2>1. req \in Seq(ReqRec)
    BY DEF PatchInv, HaTypes
  <2> QED BY <2>1 DEF PatchInv, CacheInv, Firm
<1>3. Posting(r) /\ req[r].id \in RegId /\ req[r].at \in Broker /\ KindOK(req[r].id, req[r].doc)
  BY <1>1, <1>2 DEF Posting, ReqFirm, Ended, RegPc, ReqRec
<1>4. KindCache(req[r].doc) = "reg"
  BY <1>3 DEF KindOK, KindCache, TenantSubCacheItemKind
<1>5. ~missed[req[r].at] /\ req[r].id \notin crossed[req[r].at] => ~Crosses(req[r].at, req[r].id)
  BY <1>2, <1>3, RegNotCrossed
<1> QED BY <1>1, <1>2, <1>3, <1>4, <1>5, AddCaches

\* A PATCH swaps its item in
LEMMA SwapCaches ==
  ASSUME NEW k0, PatchInv(k0), CacheInv, NEW r \in DOMAIN req, NEW c \in CacheName, SwapsIn(r, c), Goto(r, "done"),
         ItemSwap(req[r].at, c, req[r].id, req[r].doc),
         UNCHANGED <<db, stream, open, phase, apply, missed>>, crossed' \in [Broker -> SUBSET Id],
         \A y \in Broker : crossed[y] \subseteq crossed'[y],
         c # "pernot" \/ req[r].id \in crossed'[req[r].at] \/ ~Crosses(req[r].at, req[r].id)
  PROVE  CacheInv'
<1>1. PICK b, i, d : b = req[r].at /\ i = req[r].id /\ d = req[r].doc
  OBVIOUS
<1>2. req[r].pc \notin Ended
  BY DEF SwapsIn, Ended
<1>3. PICK n : /\ req' = [req EXCEPT ![r] = n] /\ n.at = req[r].at /\ n.id = req[r].id /\ n.pc = "done" /\ n.doc = req[r].doc
  BY <1>2, GoingTo
<1>4. /\ b \in Broker /\ i \in Id /\ ReqStep(r, b, i) /\ phase[b] = "up" /\ req'[r] = n /\ ReqFirm(r) /\ ReqShape(r)
      /\ (req[r].doc # NoDoc => req[r].doc \in Doc) /\ HaTypes
  BY <1>1, <1>2, <1>3, Going
<1>5. d # NoDoc /\ d \in Doc
  BY <1>1, <1>4 DEF ReqShape, SwapsIn
<1>6. c = "reg" <=> i \in RegId
  BY <1>1, <1>2, <1>4 DEF ReqFirm, SwapsIn, RegPc
<1>7. PICK s : s = Append(IF cache[b][c][i] = <<>> THEN <<>> ELSE Tail(cache[b][c][i]), d)
  OBVIOUS
<1>8. \A y \in Broker, x \in CacheName, j \in Id : cache'[y][x][j] = IF y = b /\ x = c /\ j = i THEN s ELSE cache[y][x][j]
  <2>1. ItemSwap(b, c, i, d)
    BY <1>1
  <2>2. OpLeaves(b, c, i, s)
    BY <1>5, <1>7, <2>1 DEF OpLeaves
  <2> QED BY <1>4, <2>2, ListOps
<1>9. ListStep(r, b, i, c, s)
  BY <1>4, <1>8 DEF ListStep, DbStays
<1>10. s # <<>>
  <2>1. PICK t : t = cache[b][c][i]
    OBVIOUS
  <2>2. t \in Seq(Doc)
    BY <1>4, <2>1 DEF HaTypes
  <2>3. PICK u : u = IF t = <<>> THEN <<>> ELSE Tail(t)
    OBVIOUS
  <2>4. u \in Seq(Doc)
    <3>1. t # <<>> => Tail(t) \in Seq(Doc)
      BY <2>2, TailSub
    <3>2. <<>> \in Seq(Doc)
      OBVIOUS
    <3> QED BY <2>3, <3>1, <3>2
  <2> QED BY <1>5, <1>7, <2>1, <2>3, <2>4, AppendMore
<1>11. ReqFirm(r)'
  BY <1>1, <1>3, <1>4, <1>5 DEF ReqFirm, Posting, Ended
<1>12. Firm'
  BY <1>4, <1>6, <1>9, <1>10, <1>11, ListFirm
<1>13. \A y \in Broker, j \in Id : ViewRight(y, j)'
  <2>1. req[r].at = b /\ req[r].id = i /\ req'[r].pc = "done" /\ req[r].doc \in Doc
        /\ ListStep(r, b, i, c, Append(IF cache[b][c][i] = <<>> THEN <<>> ELSE Tail(cache[b][c][i]), req[r].doc))
        /\ (i \in crossed'[b] \/ c # "pernot" \/ ~Crosses(b, i))
    BY <1>1, <1>3, <1>4, <1>5, <1>7, <1>9
  <2> QED BY <1>4, <2>1, SwapViews
<1> QED BY <1>12, <1>13 DEF CacheInv

LEMMA PatchSubscriptionSwapCaches ==
  ASSUME NEW k0, PatchInv(k0), CacheInv, NEW r \in DOMAIN req, PatchSubscriptionSwap(r)
  PROVE  CacheInv'
<1>1. PICK c : /\ c \in {"sub", "pernot"} /\ SwapsIn(r, c) /\ ItemSwap(req[r].at, c, req[r].id, req[r].doc)
  BY DEF PatchSubscriptionSwap, SwapsIn
<1>2. Goto(r, "done") /\ CrossedBy(req[r]) /\ UNCHANGED <<db, stream, open, phase, apply, missed>>
  BY DEF PatchSubscriptionSwap
<1>3. HaTypes /\ crossed \in [Broker -> SUBSET Id] /\ req[r] \in ReqRec
  <2>1. req \in Seq(ReqRec)
    BY DEF PatchInv, HaTypes
  <2> QED BY <2>1 DEF PatchInv, CacheInv, Firm
<1>4. /\ crossed' \in [Broker -> SUBSET Id] /\ (\A y \in Broker : crossed[y] \subseteq crossed'[y])
      /\ req[r].id \in crossed'[req[r].at] \/ ~Crosses(req[r].at, req[r].id)
  BY <1>2, <1>3, CrossesBy
<1>5. c \in CacheName
  BY <1>1 DEF CacheName
<1> QED BY <1>1, <1>2, <1>4, <1>5, SwapCaches

LEMMA PatchCsourceSwapCaches ==
  ASSUME NEW k0, PatchInv(k0), CacheInv, NEW r \in DOMAIN req, PatchCsourceSubscriptionSwap(r) \/ PatchCsourceRegistrationSwap(r)
  PROVE  CacheInv'
<1>1. PICK c : /\ c \in {"regSub", "reg"} /\ SwapsIn(r, c) /\ ItemSwap(req[r].at, c, req[r].id, req[r].doc)
  BY DEF PatchCsourceSubscriptionSwap, PatchCsourceRegistrationSwap, SwapsIn
<1>2. Goto(r, "done") /\ UNCHANGED <<db, stream, open, phase, apply, missed, crossed>>
  BY DEF PatchCsourceSubscriptionSwap, PatchCsourceRegistrationSwap
<1>3. crossed' \in [Broker -> SUBSET Id] /\ (\A y \in Broker : crossed[y] \subseteq crossed'[y])
  BY <1>2 DEF CacheInv, Firm
<1>5. c \in CacheName /\ c # "pernot"
  BY <1>1 DEF CacheName
<1> QED BY <1>1, <1>2, <1>3, <1>5, SwapCaches

\* A DELETE drops the item of a record it has deleted
LEMMA DropCaches ==
  ASSUME NEW k0, PatchInv(k0), CacheInv, NEW r \in DOMAIN req, NEW pc, Goto(r, pc), NEW c \in CacheName \ {"regSub"},
         req[r].pc \in {"drop", "dropPernot", "dropReg"}, pc = "done" \/ (pc = "dropPernot" /\ req[r].pc = "drop"),
         ItemRemove(req[r].at, c, req[r].id), UNCHANGED <<db, stream, open, phase, apply, missed, crossed>>
  PROVE  CacheInv'
<1>1. PICK b, i : b = req[r].at /\ i = req[r].id
  OBVIOUS
<1>2. req[r].pc \notin Ended /\ ~Posting(r)
  BY DEF Posting, Ended
<1>3. PICK n : /\ req' = [req EXCEPT ![r] = n] /\ n.at = req[r].at /\ n.id = req[r].id /\ n.pc = pc /\ n.doc = req[r].doc
  BY <1>2, GoingTo
<1>4. /\ b \in Broker /\ i \in Id /\ ReqStep(r, b, i) /\ phase[b] = "up" /\ req'[r] = n /\ ReqFirm(r) /\ HaTypes
      /\ crossed' \in [Broker -> SUBSET Id]
  BY <1>1, <1>2, <1>3, Going
<1>5. db[i] = NoDoc
  BY <1>1, <1>4 DEF ReqFirm
<1>6. PICK s : s = IF cache[b][c][i] = <<>> THEN <<>> ELSE Tail(cache[b][c][i])
  OBVIOUS
<1>7. \A y \in Broker, x \in CacheName, j \in Id : cache'[y][x][j] = IF y = b /\ x = c /\ j = i THEN s ELSE cache[y][x][j]
  <2>1. OpLeaves(b, c, i, s)
    BY <1>1, <1>6 DEF OpLeaves
  <2> QED BY <1>4, <2>1, ListOps
<1>8. ListStep(r, b, i, c, s)
  BY <1>4, <1>7 DEF ListStep, DbStays
<1>9. s # <<>> => (c = "reg" <=> i \in RegId)
  BY <1>4, <1>6 DEF CacheInv, Firm, KindFirm
<1>10. ~Posting(r)' /\ \A x \in CacheName : ~SwapsIn(r, x)'
  BY <1>3, <1>4 DEF Posting, SwapsIn
<1>11. ReqFirm(r)'
  BY <1>1, <1>2, <1>3, <1>4, <1>5, <1>10 DEF ReqFirm, Ended, RegPc
<1>12. Firm'
  BY <1>4, <1>8, <1>9, <1>11, ListFirm
<1>13. \A y \in Broker, j \in Id : ViewRight(y, j)'
  <2>1. ListStep(r, b, i, c, IF cache[b][c][i] = <<>> THEN <<>> ELSE Tail(cache[b][c][i]))
    BY <1>6, <1>8
  <2> QED BY <1>2, <1>4, <1>5, <1>10, <2>1, DropViews
<1> QED BY <1>12, <1>13 DEF CacheInv

LEMMA DeleteDropCaches ==
  ASSUME NEW k0, PatchInv(k0), CacheInv, NEW r \in DOMAIN req, DeleteSubscriptionDrop(r) \/ DeleteCsourceRegistrationDrop(r)
  PROVE  CacheInv'
<1>1. PICK c, pc : /\ c \in {"sub", "pernot", "reg"} /\ Goto(r, pc) /\ ItemRemove(req[r].at, c, req[r].id)
                   /\ req[r].pc \in {"drop", "dropPernot", "dropReg"} /\ (pc = "done" \/ (pc = "dropPernot" /\ req[r].pc = "drop"))
  BY DEF DeleteSubscriptionDrop, DeleteCsourceRegistrationDrop
<1>2. UNCHANGED <<db, stream, open, phase, apply, missed, crossed>>
  BY DEF DeleteSubscriptionDrop, DeleteCsourceRegistrationDrop
<1>3. c \in CacheName \ {"regSub"}
  BY <1>1 DEF CacheName
<1> QED BY <1>1, <1>2, <1>3, DropCaches

LEMMA DeleteCsourceSubscriptionCaches ==
  ASSUME NEW k0, PatchInv(k0), CacheInv, NEW b \in Broker, NEW i \in Id, DeleteCsourceSubscription(i, b)
  PROVE  CacheInv'
<1>1. MayBegin("deleteCsr", i, b) /\ Begin("deleteCsr", i, b, "delete", NoDoc) /\ i \notin RegId /\ LockFree(b, "regSub")
      /\ cache[b]["regSub"][i] # <<>> /\ ItemRemove(b, "regSub", i) /\ UNCHANGED <<db, stream, open, phase, apply, missed, crossed>>
  BY HaAssumption DEF DeleteCsourceSubscription
<1>2. HaTypes /\ Firm /\ crossed' \in [Broker -> SUBSET Id]
  BY <1>1 DEF PatchInv, CacheInv, Firm
<1>0. PICK r : r = New
  OBVIOUS
<1>3. /\ ReqStep(r, b, i) /\ phase[b] = "up" /\ r \notin DOMAIN req
      /\ req'[r].id = i /\ req'[r].at = b /\ req'[r].pc = "delete" /\ req'[r].doc = NoDoc
  BY <1>0, <1>1, <1>2, BeginsNow
<1>4. PICK c, s : c = "regSub" /\ s = IF cache[b][c][i] = <<>> THEN <<>> ELSE Tail(cache[b][c][i])
  OBVIOUS
<1>5. c \in CacheName /\ \A y \in Broker, x \in CacheName, j \in Id : cache'[y][x][j] = IF y = b /\ x = c /\ j = i THEN s ELSE cache[y][x][j]
  <2>1. c \in CacheName /\ OpLeaves(b, c, i, s)
    BY <1>1, <1>4 DEF CacheName, OpLeaves
  <2> QED BY <1>2, <2>1, ListOps
<1>6. ListStep(r, b, i, c, s)
  BY <1>1, <1>3, <1>5 DEF ListStep, DbStays
<1>7. ~Posting(r)' /\ \A x \in CacheName : ~SwapsIn(r, x)'
  BY <1>3 DEF Posting, SwapsIn
<1>8. ReqFirm(r)'
  BY <1>1, <1>3, <1>7 DEF ReqFirm, RegPc
<1>9. Firm'
  BY <1>1, <1>2, <1>3, <1>4, <1>5, <1>6, <1>8, ListFirm
<1>10. \A y \in Broker, j \in Id : ViewRight(y, j)'
  <2>1. ListStep(r, b, i, c, IF cache[b][c][i] = <<>> THEN <<>> ELSE Tail(cache[b][c][i]))
    BY <1>4, <1>6
  <2> QED BY <1>1, <1>2, <1>3, <1>4, <1>5, <1>7, <2>1, DropViews
<1> QED BY <1>9, <1>10 DEF CacheInv

-----------------------------------------------------------------------------
(* Caches: the change stream's thread *)

\* A thread of broker b works: what is firm
LEMMA ThreadFirm ==
  ASSUME HaTypes, Firm, UNCHANGED <<db, req, phase>>, NEW b \in Broker, phase[b] = "up",
         \A y \in Broker : y # b => apply'[y] = apply[y] /\ open'[y] = open[y] /\ stream'[y] = stream[y],
         crossed' \in [Broker -> SUBSET Id],
         \A y \in Broker, c \in CacheName, j \in Id : \/ cache'[y][c][j] = cache[y][c][j]
            \/ /\ y = b /\ (cache'[y][c][j] # <<>> => (c = "reg" <=> j \in RegId))
               /\ c = "regSub" => \A r \in DOMAIN req : req[r].at = b /\ req[r].id = j => req[r].pc \notin {"update", "swapCsr"},
         \A h \in Range(apply'[b].todo) : h.cache = "reg" <=> apply'[b].id \in RegId
  PROVE  Firm'
<1>1. \A r \in DOMAIN req : req[r].id \in Id /\ req[r].at \in Broker
  <2>1. \A r \in DOMAIN req : req[r] \in ReqRec
    BY DEF HaTypes
  <2> QED BY <2>1 DEF ReqRec
<1>2. ASSUME NEW r \in DOMAIN req PROVE ReqFirm(r)'
  <2>1. ReqFirm(r) /\ "regSub" \in CacheName
    BY DEF Firm, CacheName
  <2>2. req[r].pc \in {"update", "swapCsr"} => cache'[req[r].at]["regSub"][req[r].id] = cache[req[r].at]["regSub"][req[r].id]
    BY <1>1, <2>1
  <2>3. InFlight(req[r].id)' = InFlight(req[r].id)
    BY DEF InFlight
  <2> QED BY <2>1, <2>2, <2>3 DEF ReqFirm, Posting
<1>3. ASSUME NEW y \in Broker PROVE PhaseFirm(y)'
  <2>1. PhaseFirm(y)
    BY DEF Firm
  <2>2. CASE y = b
    BY <2>2 DEF PhaseFirm, Loaded
  <2>3. CASE y # b
    <3>1. \A i \in Id, c \in CacheName : cache'[y][c][i] = cache[y][c][i]
      BY <2>3
    <3>2. apply'[y] = apply[y] /\ open'[y] = open[y] /\ stream'[y] = stream[y]
      BY <2>3
    <3>3. \A i \in Id : Loaded(y, i)' <=> Loaded(y, i)
      BY DEF Loaded
    <3> QED BY <2>1, <3>1, <3>2, <3>3 DEF PhaseFirm
  <2> QED BY <2>2, <2>3
<1>4. KindFirm'
  <2>1. \A i \in Id : db'[i] # NoDoc => KindOK(i, db'[i])
    BY DEF Firm, KindFirm
  <2>2. \A y \in Broker, c \in CacheName, i \in Id : cache'[y][c][i] # <<>> => (c = "reg" <=> i \in RegId)
    BY DEF Firm, KindFirm
  <2>3. ASSUME NEW y \in Broker PROVE \A h \in Range(apply'[y].todo) : h.cache = "reg" <=> apply'[y].id \in RegId
    <3>1. CASE y = b
      BY <3>1
    <3>2. CASE y # b
      <4>1. apply'[y] = apply[y]
        BY <3>2
      <4> QED BY <4>1 DEF Firm, KindFirm
    <3> QED BY <3>1, <3>2
  <2> QED BY <2>1, <2>2, <2>3 DEF KindFirm, KindOK
<1> QED BY <1>2, <1>3, <1>4 DEF Firm

\* ... and what is the same of a record that its requests and the caches leave alone
LEMMA SameWork ==
  ASSUME UNCHANGED req, NEW b, NEW i
  PROVE  /\ Posts(b, i)' <=> Posts(b, i)
         /\ \A c : Swapping(b, i, c)' <=> Swapping(b, i, c)
         /\ Dropping(b, i)' <=> Dropping(b, i)
         /\ InFlight(i)' = InFlight(i)
<1>1. Here(b, i)' = Here(b, i)
  BY DEF Here
<1> QED BY <1>1 DEF Posts, Swapping, Dropping, Posting, SwapsIn, InFlight

LEMMA IdleViews ==
  ASSUME CacheInv, HaTypes, UNCHANGED <<db, req>>, NEW b \in Broker, NEW i \in Id, ~missed'[b] => ~missed[b], i \notin crossed'[b] => i \notin crossed[b],
         ~missed'[b] => stream'[b] = stream[b],
         apply'[b] = apply[b] \/ ((apply[b].pc = "idle" \/ apply[b].id # i) /\ (apply'[b].pc = "idle" \/ apply'[b].id # i)),
         Loaded(b, i)' <=> Loaded(b, i), \A c \in CacheName : cache'[b][c][i] = cache[b][c][i]
  PROVE  ViewRight(b, i)'
<1>1. /\ Posts(b, i)' <=> Posts(b, i)
      /\ \A c : Swapping(b, i, c)' <=> Swapping(b, i, c)
      /\ Dropping(b, i)' <=> Dropping(b, i)
  BY SameWork
<1>2. Steps(b, i)' = Steps(b, i) /\ ((apply[b].pc = "read" /\ apply[b].id = i)' <=> apply[b].pc = "read" /\ apply[b].id = i)
  <2>1. CASE apply'[b] = apply[b]
    BY <2>1 DEF Steps
  <2>2. CASE (apply[b].pc = "idle" \/ apply[b].id # i) /\ (apply'[b].pc = "idle" \/ apply'[b].id # i)
    BY <2>2 DEF Steps
  <2> QED BY <2>1, <2>2
<1>3. ~missed'[b] => /\ (ComesIn(stream[b], i)' <=> ComesIn(stream[b], i)) /\ DelsIn(stream[b], i)' = DelsIn(stream[b], i)
                     /\ (LastDel(stream[b], i)' => LastDel(stream[b], i))
  <2> SUFFICES ASSUME ~missed'[b] PROVE /\ (ComesIn(stream[b], i)' <=> ComesIn(stream[b], i)) /\ DelsIn(stream[b], i)' = DelsIn(stream[b], i)
                     /\ (LastDel(stream[b], i)' => LastDel(stream[b], i))
    OBVIOUS
  <2>1. PICK s : s = stream[b]
    OBVIOUS
  <2>2. stream'[b] = s
    BY <2>1
  <2>3. (ComesIn(stream'[b], i) <=> ComesIn(s, i)) /\ DelsIn(stream'[b], i) = DelsIn(s, i) /\ (LastDel(stream'[b], i) <=> LastDel(s, i))
    BY <2>2
  <2> QED BY <2>1, <2>3
<1> QED BY <1>1, <1>2, <1>3, Untouched

LEMMA HomesOf ==
  ASSUME HaTypes, Firm, NEW b \in Broker, NEW i \in Id, NEW v, View(b, i, v)
  PROVE  HomesRight(v, Homes(i)) /\ Homes(i) \in SUBSET CacheName
<1>1. v \in ViewRec /\ v.db = db[i] /\ (\A c \in CacheName : v.items[c] = cache[b][c][i]) /\ (\A c \in CacheName : c \in v.swaps <=> Swapping(b, i, c))
  BY DEF View
<1>2. \A c : c \in Homes(i) <=> c \in CacheName /\ (c = "reg" <=> i \in RegId)
  BY DEF Homes, CacheName
<1>3. \A c \in CacheName \ Homes(i) : v.items[c] = <<>>
  BY <1>1, <1>2 DEF Firm, KindFirm
<1>4. v.swaps \subseteq Homes(i)
  <2> SUFFICES ASSUME NEW c \in v.swaps PROVE c \in Homes(i)
    OBVIOUS
  <2>1. c \in CacheName /\ Swapping(b, i, c)
    BY <1>1 DEF ViewRec
  <2>2. PICK r \in DOMAIN req : req[r].id = i /\ SwapsIn(r, c)
    BY <2>1 DEF Swapping, Here
  <2>3. req[r].pc \in RegPc <=> i \in RegId
    BY <2>2 DEF Firm, ReqFirm, SwapsIn, Ended
  <2>4. c = "reg" <=> req[r].pc \in RegPc
    BY <2>2 DEF SwapsIn, RegPc
  <2> QED BY <1>2, <2>1, <2>3, <2>4
<1>5. v.db # NoDoc => KindCache(v.db) \in Homes(i)
  <2> SUFFICES ASSUME db[i] # NoDoc PROVE KindCache(db[i]) \in Homes(i)
    BY <1>1
  <2>1. db[i] \in Doc /\ KindOK(i, db[i])
    BY DEF HaTypes, Firm, KindFirm
  <2>2. db[i].kind \in Kind
    BY <2>1 DEF Doc
  <2>3. KindCache(db[i]) \in CacheName /\ (KindCache(db[i]) = "reg" <=> db[i].kind = "reg")
    BY <2>2 DEF Kind, KindCache, TenantSubCacheItemKind, CacheName
  <2> QED BY <1>2, <2>1, <2>3 DEF KindOK
<1> QED BY <1>2, <1>3, <1>4, <1>5 DEF HomesRight

\* The lock holds of a drop
LEMMA DropsFix ==
  ASSUME NEW i, NEW t, t = IF i \in RegId THEN TenantRegCacheItemDrop ELSE TenantSubCacheItemDrop
  PROVE  /\ Fixes(t, NoDoc) /\ (\A h \in Range(t) : h.do = "remove" /\ (h.cache = "reg" <=> i \in RegId)) /\ \A c \in Homes(i) : Touches(t, c)
         /\ t # <<>> /\ Head(t).do # "add"
<1>1. CASE i \in RegId
  <2>1. PICK w : w = Remove("reg")
    OBVIOUS
  <2>2. t = <<w>> /\ w.do = "remove" /\ w.cache = "reg"
    BY <1>1, <2>1 DEF TenantRegCacheItemDrop, Remove
  <2>3. t # <<>> /\ Head(t) = w /\ Len(t) = 1 /\ DOMAIN t = {1} /\ t[1] = w
    BY <2>2
  <2>4. \A h : h \in Range(t) <=> h = w
    BY <2>3 DEF Range
  <2> QED BY <1>1, <2>2, <2>3, <2>4 DEF Fixes, Homes, Touches
<1>2. CASE i \notin RegId
  <2>1. PICK x, y, z : x = Remove("sub") /\ y = Remove("regSub") /\ z = Remove("pernot")
    OBVIOUS
  <2>2. /\ t = <<x, y, z>> /\ x.do = "remove" /\ x.cache = "sub" /\ y.do = "remove" /\ y.cache = "regSub"
        /\ z.do = "remove" /\ z.cache = "pernot"
    BY <1>2, <2>1 DEF TenantSubCacheItemDrop, Remove
  <2>3. t # <<>> /\ Head(t) = x /\ Len(t) = 3 /\ DOMAIN t = {1, 2, 3} /\ t[1] = x /\ t[2] = y /\ t[3] = z
    BY <2>2
  <2>4. \A h : h \in Range(t) <=> h = x \/ h = y \/ h = z
    BY <2>3 DEF Range
  <2>5. \A c \in Homes(i) : Touches(t, c)
    BY <1>2, <2>2, <2>4 DEF Homes, Touches, CacheName
  <2>6. Fixes(t, NoDoc)
    BY <2>2, <2>3 DEF Fixes
  <2> QED BY <1>2, <2>2, <2>3, <2>4, <2>5, <2>6
<1> QED BY <1>1, <1>2

\* ... and of a store
LEMMA TwoInOne ==
  ASSUME NEW S, NEW s \in Seq(S), NEW t \in Seq(S), NEW u \in Seq(S), NEW m \in Nat, NEW n \in Nat, Len(s) = m, Len(t) = n, Len(u) = m + n,
         \A k \in 1..(m + n) : u[k] = IF k <= m THEN s[k] ELSE t[k - m]
  PROVE  s \o t = u
<1>1. PICK w : w = s \o t
  OBVIOUS
<1>2. w \in Seq(S) /\ Len(w) = m + n /\ \A k \in 1..(m + n) : w[k] = IF k <= m THEN s[k] ELSE t[k - m]
  BY <1>1, ConcatProperties
<1>3. w = u
  BY <1>2, SeqEqual
<1> QED BY <1>1, <1>3

LEMMA Concats ==
  ASSUME NEW a, NEW b, NEW c, NEW d
  PROVE  /\ ((<<a>> \o <<>>) \o <<b>>) \o <<c>> = <<a, b, c>>
         /\ ((<<a>> \o <<b>>) \o <<>>) \o <<c>> = <<a, b, c>>
         /\ ((<<>> \o <<a>>) \o <<b>>) \o <<c, d>> = <<a, b, c, d>>
<1>0. PICK S : S = {a, b, c, d}
  OBVIOUS
<1>6. PICK x, y, w, xy, cd, xyc, all : x = <<a>> /\ y = <<b>> /\ w = <<c>> /\ xy = <<a, b>> /\ cd = <<c, d>> /\ xyc = <<a, b, c>> /\ all = <<a, b, c, d>>
  OBVIOUS
<1>7. x \in Seq(S) /\ Len(x) = 1 /\ x[1] = a /\ y \in Seq(S) /\ Len(y) = 1 /\ y[1] = b /\ w \in Seq(S) /\ Len(w) = 1 /\ w[1] = c
  BY <1>0, <1>6
<1>8. xy \in Seq(S) /\ Len(xy) = 2 /\ xy[1] = a /\ xy[2] = b /\ cd \in Seq(S) /\ Len(cd) = 2 /\ cd[1] = c /\ cd[2] = d
  BY <1>0, <1>6
<1>9. xyc \in Seq(S) /\ Len(xyc) = 3 /\ xyc[1] = a /\ xyc[2] = b /\ xyc[3] = c
  BY <1>0, <1>6
<1>10. all \in Seq(S) /\ Len(all) = 4 /\ all[1] = a /\ all[2] = b /\ all[3] = c /\ all[4] = d
  BY <1>0, <1>6
<1>1. x \o <<>> = x /\ <<>> \o x = x /\ xy \o <<>> = xy
  BY <1>7, <1>8, ConcatEmptySeq
<1>2. x \o y = xy
  <2>1. Len(xy) = 1 + 1 /\ \A k \in 1..(1 + 1) : xy[k] = IF k <= 1 THEN x[k] ELSE y[k - 1]
    BY <1>7, <1>8
  <2>2. PICK m : m = 1
    OBVIOUS
  <2>3. m \in Nat /\ Len(x) = m /\ Len(y) = m /\ Len(xy) = m + m
    BY <1>7, <2>1, <2>2
  <2>4. \A k \in 1..(m + m) : xy[k] = IF k <= m THEN x[k] ELSE y[k - m]
    BY <2>1, <2>2
  <2>5. x \in Seq(S) /\ y \in Seq(S) /\ xy \in Seq(S)
    BY <1>7, <1>8
  <2> QED BY <2>3, <2>4, <2>5, TwoInOne
<1>3. PICK l, m : l = 1 /\ m = 2
  OBVIOUS
<1>4. xy \o w = xyc
  <2>1. Len(xyc) = m + l /\ \A k \in 1..(m + l) : xyc[k] = IF k <= m THEN xy[k] ELSE w[k - m]
    BY <1>3, <1>7, <1>8, <1>9
  <2>2. m \in Nat /\ l \in Nat /\ Len(xy) = m /\ Len(w) = l
    BY <1>3, <1>7, <1>8
  <2>3. xyc \in Seq(S) /\ xy \in Seq(S) /\ w \in Seq(S)
    BY <1>7, <1>8, <1>9
  <2> QED BY <2>1, <2>2, <2>3, TwoInOne
<1>5. xy \o cd = all
  <2>1. Len(all) = m + m /\ \A k \in 1..(m + m) : all[k] = IF k <= m THEN xy[k] ELSE cd[k - m]
    BY <1>3, <1>8, <1>10
  <2>2. m \in Nat /\ Len(xy) = m /\ Len(cd) = m
    BY <1>3, <1>8
  <2>3. all \in Seq(S) /\ xy \in Seq(S) /\ cd \in Seq(S)
    BY <1>8, <1>10
  <2> QED BY <2>1, <2>2, <2>3, TwoInOne
<1> QED BY <1>1, <1>2, <1>4, <1>5, <1>6

LEMMA StoreFixes ==
  ASSUME NEW d \in Doc, d.kind # "reg", NEW t, t = TenantSubCacheItemStore(d)
  PROVE  /\ Fixes(t, d) /\ (\A c \in CacheName \ {"reg"} : Touches(t, c)) /\ (\A h \in Range(t) : h.cache # "reg")
         /\ t # <<>> /\ Head(t).do # "add"
<1>0. PICK p, x, y, g, w : p = Remove("pernot") /\ x = Remove("sub") /\ y = Remove("regSub") /\ g = Add("pernot", d) /\ w = Swap(KindCache(d), d)
  OBVIOUS
<1>1. /\ p.do = "remove" /\ p.cache = "pernot" /\ x.do = "remove" /\ x.cache = "sub" /\ y.do = "remove" /\ y.cache = "regSub"
      /\ g.do = "add" /\ g.cache = "pernot" /\ w.do = "swap" /\ w.cache = KindCache(d)
  BY <1>0 DEF Remove, Add, Swap
<1>2. d # NoDoc
  BY NoDocFacts
<1>3. CASE d.kind = "entity"
  <2>1. t = ((<<p>> \o <<>>) \o <<y>>) \o <<w>> /\ KindCache(d) = "sub"
    BY <1>0, <1>3 DEF TenantSubCacheItemStore, TenantSubCacheItemKind, KindCache
  <2>2. t = <<p, y, w>>
    BY <2>1, Concats
  <2>3. t # <<>> /\ Head(t) = p /\ Len(t) = 3 /\ DOMAIN t = {1, 2, 3} /\ t[1] = p /\ t[2] = y /\ t[3] = w
    BY <2>2
  <2>4. \A h : h \in Range(t) <=> h = p \/ h = y \/ h = w
    BY <2>3 DEF Range
  <2>5. Fixes(t, d)
    BY <1>0, <1>1, <1>2, <1>3, <2>3 DEF Fixes
  <2>6. \A c \in CacheName \ {"reg"} : Touches(t, c)
    BY <1>1, <2>1, <2>4 DEF Touches, CacheName
  <2> QED BY <1>1, <2>1, <2>3, <2>4, <2>5, <2>6
<1>4. CASE d.kind = "csr"
  <2>1. t = ((<<p>> \o <<x>>) \o <<>>) \o <<w>> /\ KindCache(d) = "regSub"
    BY <1>0, <1>4 DEF TenantSubCacheItemStore, TenantSubCacheItemKind, KindCache
  <2>2. t = <<p, x, w>>
    BY <2>1, Concats
  <2>3. t # <<>> /\ Head(t) = p /\ Len(t) = 3 /\ DOMAIN t = {1, 2, 3} /\ t[1] = p /\ t[2] = x /\ t[3] = w
    BY <2>2
  <2>4. \A h : h \in Range(t) <=> h = p \/ h = x \/ h = w
    BY <2>3 DEF Range
  <2>5. Fixes(t, d)
    BY <1>0, <1>1, <1>2, <1>4, <2>3 DEF Fixes
  <2>6. \A c \in CacheName \ {"reg"} : Touches(t, c)
    BY <1>1, <2>1, <2>4 DEF Touches, CacheName
  <2> QED BY <1>1, <2>1, <2>3, <2>4, <2>5, <2>6
<1>5. CASE d.kind = "pernot"
  <2>1. t = ((<<>> \o <<x>>) \o <<y>>) \o <<p, g>>
    BY <1>0, <1>5 DEF TenantSubCacheItemStore, TenantSubCacheItemKind
  <2>2. t = <<x, y, p, g>>
    BY <2>1, Concats
  <2>3. t # <<>> /\ Head(t) = x /\ Len(t) = 4 /\ DOMAIN t = {1, 2, 3, 4} /\ t[1] = x /\ t[2] = y /\ t[3] = p /\ t[4] = g
    BY <2>2
  <2>4. \A h : h \in Range(t) <=> h = x \/ h = y \/ h = p \/ h = g
    BY <2>3 DEF Range
  <2>5. Fixes(t, d)
    BY <1>0, <1>1, <1>2, <1>5, <2>3 DEF Fixes
  <2>6. \A c \in CacheName \ {"reg"} : Touches(t, c)
    BY <1>1, <2>4 DEF Touches, CacheName
  <2> QED BY <1>1, <2>3, <2>4, <2>5, <2>6
<1> QED BY <1>3, <1>4, <1>5 DEF Doc, Kind

-----------------------------------------------------------------------------
(* Caches: the change stream's thread, step by step *)

\* What a view keeps when no request goes on, and where the rest of it is read
ThreadStir(b, i, v, w) ==
  /\ View(b, i, v) /\ ViewOK(v) /\ v \in ViewRec /\ w \in ViewRec
  /\ v.db = db[i] /\ w.db = v.db /\ w.loaded = v.loaded /\ w.posting = v.posting /\ w.swaps = v.swaps /\ w.dropping = v.dropping
  /\ (w.coming <=> ComesIn(stream'[b], i)) /\ w.dels = DelsIn(stream'[b], i) /\ (w.last <=> LastDel(stream'[b], i))
  /\ (w.reading <=> apply'[b].pc = "read" /\ apply'[b].id = i)
  /\ w.todo = IF apply'[b].pc = "todo" /\ apply'[b].id = i THEN apply'[b].todo ELSE <<>>
  /\ \A c \in CacheName : v.items[c] = cache[b][c][i] /\ w.items[c] = cache'[b][c][i]

LEMMA ThreadStirred ==
  ASSUME CacheInv, HaTypes, UNCHANGED <<db, req, phase>>, NEW b \in Broker, NEW i \in Id, ~missed[b], i \notin crossed[b],
         NEW w, View(b, i, w)'
  PROVE  \E v : ThreadStir(b, i, v, w)
<1>1. PICK v : View(b, i, v)
  BY Viewed
<1>2. ViewOK(v) /\ v \in ViewRec /\ w \in ViewRec /\ v.swaps \subseteq CacheName /\ w.swaps \subseteq CacheName
  BY <1>1 DEF CacheInv, ViewRight, View, ViewRec
<1>3. /\ Posts(b, i)' <=> Posts(b, i)
      /\ \A c : Swapping(b, i, c)' <=> Swapping(b, i, c)
      /\ Dropping(b, i)' <=> Dropping(b, i)
  BY SameWork
<1>4. Loaded(b, i)' <=> Loaded(b, i)
  BY DEF Loaded
<1>5. /\ v.db = db[i] /\ w.db = v.db
      /\ (w.coming <=> ComesIn(stream'[b], i)) /\ w.dels = DelsIn(stream'[b], i) /\ (w.last <=> LastDel(stream'[b], i))
      /\ (w.reading <=> apply'[b].pc = "read" /\ apply'[b].id = i)
      /\ w.todo = IF apply'[b].pc = "todo" /\ apply'[b].id = i THEN apply'[b].todo ELSE <<>>
      /\ \A c \in CacheName : v.items[c] = cache[b][c][i] /\ w.items[c] = cache'[b][c][i]
  BY <1>1 DEF View, Steps
<1>6. /\ (w.loaded <=> v.loaded) /\ (w.posting <=> v.posting) /\ (w.dropping <=> v.dropping) /\ \A c \in CacheName : c \in w.swaps <=> c \in v.swaps
  BY <1>1, <1>3, <1>4 DEF View
<1>7. w.loaded = v.loaded /\ w.posting = v.posting /\ w.dropping = v.dropping /\ w.swaps = v.swaps
  BY <1>2, <1>6 DEF ViewRec
<1> QED BY <1>1, <1>2, <1>5, <1>7 DEF ThreadStir

\* ... of a record whose lists stay
LEMMA LooksOn ==
  ASSUME NEW b, NEW i, NEW v, NEW w, ThreadStir(b, i, v, w), cache' = cache, w.last => v.last
  PROVE  Onlooking(v, w)
<1>1. v.items \in [CacheName -> Seq(Doc)] /\ w.items \in [CacheName -> Seq(Doc)] /\ \A c \in CacheName : w.items[c] = v.items[c]
  BY DEF ThreadStir, ViewRec
<1>2. w.items = v.items
  BY <1>1
<1> QED BY <1>2 DEF ThreadStir, Onlooking

LEMMA EventTreatCaches ==
  ASSUME NEW k0, PatchInv(k0), CacheInv, NEW b \in Broker, EventTreat(b)
  PROVE  CacheInv'
<1>0. HaTypes /\ Firm /\ crossed \in [Broker -> SUBSET Id] /\ stream \in [Broker -> Seq(EventRec)] /\ apply \in [Broker -> ApplyRec]
  BY DEF PatchInv, CacheInv, Firm, HaTypes
<1>1. PICK s, e, t : s = stream[b] /\ e = Head(s) /\ t = Tail(s)
  OBVIOUS
<1>2. PICK d : d = IF e.id \in RegId THEN TenantRegCacheItemDrop ELSE TenantSubCacheItemDrop
  OBVIOUS
<1>3. PICK a : a = [pc |-> IF e.op = "delete" THEN "todo" ELSE "read", id |-> e.id, todo |-> IF e.op # "delete" THEN <<>> ELSE d]
  OBVIOUS
<1>4. /\ phase[b] = "up" /\ apply[b] = Idle /\ s # <<>> /\ s \in Seq(EventRec)
      /\ apply' = [apply EXCEPT ![b] = a] /\ stream' = [stream EXCEPT ![b] = t]
      /\ UNCHANGED <<db, cache, lock, req, open, phase, missed, crossed, fault>>
  BY <1>0, <1>1, <1>2, <1>3 DEF EventTreat
<1>5. e \in EventRec /\ e.id \in Id /\ t \in Seq(EventRec)
  <2>1. e \in EventRec /\ t \in Seq(EventRec)
    BY <1>1, <1>4, TailSub
  <2> QED BY <2>1 DEF EventRec
<1>6. /\ apply'[b] = a /\ stream'[b] = t /\ stream[b] = s
      /\ \A y \in Broker : y # b => apply'[y] = apply[y] /\ stream'[y] = stream[y]
  BY <1>0, <1>1, <1>4
<1>7. a.id = e.id /\ (a.pc = "read" <=> e.op # "delete") /\ (a.pc = "todo" <=> e.op = "delete") /\ a.todo = IF e.op # "delete" THEN <<>> ELSE d
  BY <1>3
<1>8. /\ Fixes(d, NoDoc) /\ (\A h \in Range(d) : h.do = "remove" /\ (h.cache = "reg" <=> e.id \in RegId)) /\ \A c \in Homes(e.id) : Touches(d, c)
  BY <1>2, DropsFix
<1>9. Idle.pc = "idle" /\ Idle.todo = <<>> /\ Idle.id = "none" /\ Range(<<>>) = {}
  BY IdleTyped
<1>10. Firm'
  <2>1. \A h \in Range(apply'[b].todo) : h.cache = "reg" <=> apply'[b].id \in RegId
    BY <1>6, <1>7, <1>8, <1>9
  <2> QED BY <1>0, <1>4, <1>6, <2>1, ThreadFirm
<1>11. ASSUME NEW j \in Id
       PROVE  /\ ComesIn(s, j) <=> ComesIn(t, j) \/ e.id = j
              /\ DelsIn(s, j) = DelsIn(t, j) + IF e.id = j /\ e.op = "delete" THEN 1 ELSE 0
              /\ LastDel(t, j) => LastDel(s, j)
              /\ e.id = j /\ e.op = "delete" /\ ~ComesIn(t, j) => LastDel(s, j)
              /\ DelsIn(t, j) \in Nat /\ (~ComesIn(t, j) => DelsIn(t, j) = 0)
  BY <1>1, <1>4, <1>5, DelsTail, DelsFacts
<1>12. ASSUME NEW y \in Broker, NEW j \in Id, y # b \/ j # e.id PROVE ViewRight(y, j)'
  <2>1. /\ Posts(y, j)' <=> Posts(y, j)
        /\ \A c : Swapping(y, j, c)' <=> Swapping(y, j, c)
        /\ Dropping(y, j)' <=> Dropping(y, j)
    BY <1>4, SameWork
  <2>2. Loaded(y, j)' <=> Loaded(y, j)
    BY <1>4 DEF Loaded
  <2>3. Steps(y, j)' = Steps(y, j) /\ ((apply[y].pc = "read" /\ apply[y].id = j)' <=> apply[y].pc = "read" /\ apply[y].id = j)
    <3>1. CASE y = b
      BY <1>4, <1>6, <1>7, <1>9, <1>12, <3>1 DEF Steps
    <3>2. CASE y # b
      BY <1>6, <3>2 DEF Steps
    <3> QED BY <3>1, <3>2
  <2>4. /\ (ComesIn(stream[y], j)' <=> ComesIn(stream[y], j)) /\ DelsIn(stream[y], j)' = DelsIn(stream[y], j)
        /\ (LastDel(stream[y], j)' => LastDel(stream[y], j))
    <3>1. CASE y = b
      <4>1. (ComesIn(t, j) <=> ComesIn(s, j)) /\ DelsIn(t, j) = DelsIn(s, j) /\ (LastDel(t, j) => LastDel(s, j))
        BY <1>11, <1>12, <3>1
      <4> QED BY <1>6, <3>1, <4>1
    <3>2. CASE y # b
      BY <1>6, <3>2
    <3> QED BY <3>1, <3>2
  <2> QED BY <1>0, <1>4, <2>1, <2>2, <2>3, <2>4, Untouched
<1>13. ViewRight(b, e.id)'
  <2>0. PICK i : i = e.id
    OBVIOUS
  <2> SUFFICES ASSUME ~missed[b], i \notin crossed[b], NEW w, View(b, i, w)' PROVE ViewOK(w)
    BY <1>4, <2>0 DEF ViewRight
  <2>1. PICK v : ThreadStir(b, i, v, w)
    BY <1>0, <1>4, <1>5, <2>0, ThreadStirred
  <2>2. /\ View(b, i, v) /\ ViewOK(v) /\ v \in ViewRec /\ w \in ViewRec
        /\ (w.coming <=> ComesIn(t, i)) /\ w.dels = DelsIn(t, i) /\ (w.last <=> LastDel(t, i))
        /\ (w.reading <=> e.op # "delete") /\ w.todo = IF e.op = "delete" THEN d ELSE <<>>
    BY <1>6, <1>7, <2>0, <2>1 DEF ThreadStir
  <2>3. /\ (v.coming <=> ComesIn(s, i)) /\ v.dels = DelsIn(s, i) /\ (v.last <=> LastDel(s, i))
        /\ ~v.reading /\ v.todo = <<>>
    BY <1>1, <1>4, <1>9, <2>2 DEF View, Steps
  <2>4. /\ v.coming /\ v.dels = w.dels + (IF e.op = "delete" THEN 1 ELSE 0) /\ (w.last => v.last)
        /\ (e.op = "delete" /\ ~w.coming => v.last) /\ w.dels \in Nat /\ (~w.coming => w.dels = 0)
    BY <1>5, <1>11, <2>0, <2>2, <2>3
  <2>5. Onlooking(v, w)
    BY <1>4, <2>1, <2>4, LooksOn
  <2>6. CASE e.op = "delete"
    <3>1. HomesRight(v, Homes(i)) /\ Homes(i) \in SUBSET CacheName
      BY <1>0, <1>5, <2>0, <2>2, HomesOf
    <3>2. w.todo = d /\ ~w.reading /\ v.dels = w.dels + 1
      BY <2>2, <2>4, <2>6
    <3>3. ~w.coming => v.last /\ w.dels = 0
      BY <2>4, <2>6
    <3>4. Fixes(w.todo, NoDoc) /\ (\A h \in Range(w.todo) : h.do = "remove") /\ \A c \in Homes(i) : Touches(w.todo, c)
      BY <1>8, <2>0, <3>2
    <3> QED BY <2>2, <2>3, <2>4, <2>5, <3>1, <3>2, <3>3, <3>4, ViewDeleteTaken
  <2>7. CASE e.op # "delete"
    <3>1. w.todo = <<>> /\ w.reading /\ v.dels = w.dels
      BY <2>2, <2>4, <2>7
    <3> QED BY <2>2, <2>3, <2>4, <2>5, <3>1, ViewUpsertTaken
  <2> QED BY <2>6, <2>7
<1> QED BY <1>10, <1>12, <1>13 DEF CacheInv

LEMMA SubOrReg == \A i \in Id : (i \in SubId <=> i \notin RegId)
BY HaAssumption DEF Id

\* The record re-read, or gone
LEMMA RefreshCaches ==
  ASSUME NEW k0, PatchInv(k0), CacheInv, NEW b \in Broker, TenantSubCacheItemRefresh(b) \/ TenantRegCacheItemRefresh(b)
  PROVE  CacheInv'
<1>0. HaTypes /\ Firm /\ crossed \in [Broker -> SUBSET Id] /\ db \in [Id -> Doc \cup {NoDoc}] /\ apply \in [Broker -> ApplyRec]
  BY DEF PatchInv, CacheInv, Firm, HaTypes
<1>1. PICK i, d : i = apply[b].id /\ d = db[i]
  OBVIOUS
<1>2. i \in Id /\ (TenantSubCacheItemRefresh(b) => i \notin RegId) /\ (TenantRegCacheItemRefresh(b) => i \in RegId)
      /\ (d # NoDoc => d \in Doc /\ KindOK(i, d)) /\ apply[b].pc = "read"
  <2>1. i \in Id /\ (TenantSubCacheItemRefresh(b) => i \notin RegId) /\ (TenantRegCacheItemRefresh(b) => i \in RegId)
    BY <1>1, HaAssumption DEF TenantSubCacheItemRefresh, TenantRegCacheItemRefresh, Id
  <2>2. d # NoDoc => d \in Doc /\ KindOK(i, d)
    BY <1>0, <1>1, <2>1 DEF Firm, KindFirm
  <2> QED BY <2>1, <2>2 DEF TenantSubCacheItemRefresh, TenantRegCacheItemRefresh
<1>3. PICK t : /\ apply' = [apply EXCEPT ![b].pc = "todo", ![b].todo = t]
               /\ Fixes(t, d) /\ Head(t).do # "add" /\ (\A c \in Homes(i) : Touches(t, c))
               /\ \A h \in Range(t) : h.cache = "reg" <=> i \in RegId
  <2>1. CASE d = NoDoc
    <3>1. PICK t : t = IF i \in RegId THEN TenantRegCacheItemDrop ELSE TenantSubCacheItemDrop
      OBVIOUS
    <3>2. apply' = [apply EXCEPT ![b].pc = "todo", ![b].todo = t]
      BY <1>1, <1>2, <2>1, <3>1 DEF TenantSubCacheItemRefresh, TenantRegCacheItemRefresh
    <3>3. /\ Fixes(t, NoDoc) /\ (\A h \in Range(t) : h.do = "remove" /\ (h.cache = "reg" <=> i \in RegId))
          /\ (\A c \in Homes(i) : Touches(t, c)) /\ Head(t).do # "add"
      BY <3>1, DropsFix
    <3> QED BY <2>1, <3>2, <3>3
  <2>2. CASE d # NoDoc /\ i \notin RegId
    <3>1. PICK t : t = TenantSubCacheItemStore(d)
      OBVIOUS
    <3>2. apply' = [apply EXCEPT ![b].pc = "todo", ![b].todo = t]
      BY <1>1, <1>2, <2>2, <3>1 DEF TenantSubCacheItemRefresh
    <3>3. d \in Doc /\ d.kind # "reg"
      BY <1>2, <2>2 DEF KindOK
    <3>4. /\ Fixes(t, d) /\ (\A c \in CacheName \ {"reg"} : Touches(t, c)) /\ (\A h \in Range(t) : h.cache # "reg") /\ Head(t).do # "add"
      BY <3>1, <3>3, StoreFixes
    <3>5. \A c \in Homes(i) : Touches(t, c)
      BY <2>2, <3>4 DEF Homes
    <3> QED BY <2>2, <3>2, <3>4, <3>5
  <2>3. CASE d # NoDoc /\ i \in RegId
    <3>1. PICK h : h = Swap("reg", d)
      OBVIOUS
    <3>2. apply' = [apply EXCEPT ![b].pc = "todo", ![b].todo = <<h>>]
      BY <1>1, <1>2, <2>3, <3>1 DEF TenantRegCacheItemRefresh
    <3>3. d.kind = "reg" /\ h.do = "swap" /\ h.cache = "reg" /\ KindCache(d) = "reg"
      <4>1. d.kind = "reg"
        BY <1>2, <2>3 DEF KindOK
      <4> QED BY <3>1, <4>1 DEF Swap, KindCache, TenantSubCacheItemKind
    <3>4. PICK t : t = <<h>>
      OBVIOUS
    <3>5. t # <<>> /\ Head(t) = h /\ Len(t) = 1 /\ DOMAIN t = {1} /\ t[1] = h
      BY <3>4
    <3>6. \A x : x \in Range(t) <=> x = h
      BY <3>5 DEF Range
    <3>7. Fixes(t, d)
      BY <2>3, <3>1, <3>3, <3>5 DEF Fixes
    <3> QED BY <2>3, <3>2, <3>3, <3>4, <3>5, <3>6, <3>7 DEF Homes, Touches
  <2> QED BY <2>1, <2>2, <2>3
<1>4. UNCHANGED <<db, cache, req, stream, open, phase, missed, crossed>>
  BY DEF TenantSubCacheItemRefresh, TenantRegCacheItemRefresh
<1>5. phase[b] = "up"
  BY <1>0, <1>2, IdleTyped DEF Firm, PhaseFirm
<1>6. /\ apply'[b].id = i /\ apply'[b].pc = "todo" /\ apply'[b].todo = t
      /\ \A y \in Broker : y # b => apply'[y] = apply[y]
  BY <1>0, <1>1, <1>3 DEF ApplyRec
<1>7. Firm'
  <2>1. \A h \in Range(apply'[b].todo) : h.cache = "reg" <=> apply'[b].id \in RegId
    BY <1>3, <1>6
  <2> QED BY <1>0, <1>4, <1>5, <1>6, <2>1, ThreadFirm
<1>8. ASSUME NEW y \in Broker, NEW j \in Id, y # b \/ j # i PROVE ViewRight(y, j)'
  <2>1. apply'[y] = apply[y] \/ (apply[y].id # j /\ apply'[y].id # j)
    BY <1>1, <1>6, <1>8
  <2>2. Loaded(y, j)' <=> Loaded(y, j)
    BY <1>4 DEF Loaded
  <2> QED BY <1>0, <1>4, <2>1, <2>2, IdleViews
<1>9. ViewRight(b, i)'
  <2> SUFFICES ASSUME ~missed[b], i \notin crossed[b], NEW w, View(b, i, w)' PROVE ViewOK(w)
    BY <1>4 DEF ViewRight
  <2>1. PICK v : ThreadStir(b, i, v, w)
    BY <1>0, <1>2, <1>4, ThreadStirred
  <2>2. /\ View(b, i, v) /\ ViewOK(v) /\ v \in ViewRec /\ w \in ViewRec /\ v.db = d
        /\ (w.coming <=> ComesIn(stream[b], i)) /\ w.dels = DelsIn(stream[b], i) /\ (w.last <=> LastDel(stream[b], i))
        /\ ~w.reading /\ w.todo = t
    BY <1>1, <1>4, <1>6, <2>1 DEF ThreadStir
  <2>3. /\ (v.coming <=> ComesIn(stream[b], i)) /\ v.dels = DelsIn(stream[b], i) /\ (v.last <=> LastDel(stream[b], i))
        /\ v.reading /\ v.todo = <<>>
    BY <1>1, <1>2, <2>2 DEF View, Steps
  <2>4. w.coming = v.coming /\ w.dels = v.dels /\ (w.last => v.last)
    BY <2>2, <2>3 DEF ViewRec
  <2>5. Onlooking(v, w)
    BY <1>4, <2>1, <2>4, LooksOn
  <2>6. HomesRight(v, Homes(i)) /\ Homes(i) \in SUBSET CacheName
    BY <1>0, <1>2, <2>2, HomesOf
  <2> QED BY <1>3, <2>2, <2>3, <2>4, <2>5, <2>6, ViewReread
<1> QED BY <1>7, <1>8, <1>9 DEF CacheInv

\* The record could not be read; the stream breaks, and is opened again
LEMMA HaEventNotAppliedCaches ==
  ASSUME NEW k0, PatchInv(k0), CacheInv, NEW b \in Broker, HaEventNotApplied(b)
  PROVE  CacheInv'
<1>0. HaTypes /\ Firm /\ crossed \in [Broker -> SUBSET Id] /\ missed \in [Broker -> BOOLEAN] /\ apply \in [Broker -> ApplyRec]
  BY DEF PatchInv, CacheInv, Firm, HaTypes
<1>1. /\ apply[b].pc = "read" /\ apply' = [apply EXCEPT ![b] = Idle] /\ missed' = [missed EXCEPT ![b] = TRUE]
      /\ UNCHANGED <<db, cache, req, stream, open, phase, crossed>>
  BY DEF HaEventNotApplied
<1>2. phase[b] = "up"
  BY <1>0, <1>1, IdleTyped DEF Firm, PhaseFirm
<1>3. apply'[b] = Idle /\ missed'[b] /\ \A y \in Broker : y # b => apply'[y] = apply[y] /\ missed'[y] = missed[y]
  BY <1>0, <1>1
<1>4. Firm'
  <2>1. \A h \in Range(apply'[b].todo) : h.cache = "reg" <=> apply'[b].id \in RegId
    BY <1>3, IdleTyped
  <2> QED BY <1>0, <1>1, <1>2, <1>3, <2>1, ThreadFirm
<1>5. ASSUME NEW y \in Broker, NEW j \in Id PROVE ViewRight(y, j)'
  <2>1. CASE y = b
    BY <1>3, <2>1 DEF ViewRight
  <2>2. CASE y # b
    <3>1. Loaded(y, j)' <=> Loaded(y, j)
      BY <1>1 DEF Loaded
    <3> QED BY <1>0, <1>1, <1>3, <2>2, <3>1, IdleViews
  <2> QED BY <2>1, <2>2
<1> QED BY <1>4, <1>5 DEF CacheInv

LEMMA StreamCaches ==
  ASSUME NEW k0, PatchInv(k0), CacheInv, NEW b \in Broker, StreamBreak(b) \/ StreamReopen(b)
  PROVE  CacheInv'
<1>0. /\ HaTypes /\ Firm /\ crossed \in [Broker -> SUBSET Id] /\ missed \in [Broker -> BOOLEAN] /\ stream \in [Broker -> Seq(EventRec)]
      /\ open \in [Broker -> BOOLEAN]
  BY DEF PatchInv, CacheInv, Firm, HaTypes
<1>1. phase[b] = "up" /\ UNCHANGED <<db, cache, req, phase, apply, crossed>>
  BY DEF StreamBreak, StreamReopen
<1>2. /\ \A y \in Broker : y # b => open'[y] = open[y] /\ stream'[y] = stream[y] /\ missed'[y] = missed[y]
      /\ ~missed'[b] => ~missed[b] /\ stream'[b] = stream[b]
  BY <1>0 DEF StreamBreak, StreamReopen
<1>3. Firm'
  <2>1. \A h \in Range(apply'[b].todo) : h.cache = "reg" <=> apply'[b].id \in RegId
    BY <1>0, <1>1 DEF Firm, KindFirm
  <2> QED BY <1>0, <1>1, <1>2, <2>1, ThreadFirm
<1>4. ASSUME NEW y \in Broker, NEW j \in Id PROVE ViewRight(y, j)'
  <2>1. Loaded(y, j)' <=> Loaded(y, j)
    BY <1>1 DEF Loaded
  <2>2. (~missed'[y] => ~missed[y]) /\ (~missed'[y] => stream'[y] = stream[y])
    BY <1>2
  <2> QED BY <1>0, <1>1, <2>1, <2>2, IdleViews
<1> QED BY <1>3, <1>4 DEF CacheInv

\* A lock that is free is no request's
LEMMA LockedNot ==
  ASSUME HaTypes, \A q \in DOMAIN req : ReqLock(q), NEW b \in Broker, NEW c \in CacheName, LockFree(b, c), NEW r \in DOMAIN req, req[r].at = b
  PROVE  /\ c = "sub" => req[r].pc # "swap"
         /\ c = "regSub" => req[r].pc \notin {"update", "swapCsr"}
         /\ c = "reg" => req[r].pc \notin {"cacheReg", "swapReg"}
<1>1. r # 0
  BY DEF HaTypes
<1> QED BY <1>1 DEF ReqLock, LockFree, Free

\* One lock hold of the store or drop
LEMMA HaEventAppliedCaches ==
  ASSUME NEW k0, PatchInv(k0), CacheInv, NEW b \in Broker, HaEventApplied(b)
  PROVE  CacheInv'
<1>0. /\ HaTypes /\ Firm /\ (\A r \in DOMAIN req : ReqLock(r)) /\ ApplyDocs(k0, b) /\ crossed \in [Broker -> SUBSET Id]
      /\ apply \in [Broker -> ApplyRec] /\ apply[b] \in ApplyRec
  BY DEF PatchInv, CacheInv, Firm, HaTypes
<1>1. PICK i, t, s, c0, u : i = apply[b].id /\ t = apply[b].todo /\ s = Head(t) /\ c0 = s.cache /\ u = Tail(t)
  OBVIOUS
<1>2. apply[b].pc = "todo" /\ i \in Id /\ t \in Seq(HoldRec) /\ t # <<>> /\ LockFree(b, c0)
  BY <1>0, <1>1 DEF HaEventApplied, ApplyDocs, ApplyRec
<1>3. s \in Range(t) /\ s \in HoldRec /\ u \in Seq(HoldRec) /\ Range(u) \subseteq Range(t)
  BY <1>1, <1>2, TailSub
<1>4. c0 \in CacheName /\ s.do \in {"remove", "swap", "add"} /\ (c0 = "reg" <=> i \in RegId) /\ (s.do # "remove" => s.doc \in Doc)
  <2>1. c0 \in CacheName /\ s.do \in {"remove", "swap", "add"}
    BY <1>1, <1>3 DEF HoldRec
  <2>2. c0 = "reg" <=> i \in RegId
    BY <1>0, <1>1, <1>3 DEF Firm, KindFirm
  <2>3. s.do # "remove" => s.doc \in Doc
    BY <1>0, <1>1, <1>3 DEF ApplyDocs, DocOf
  <2> QED BY <2>1, <2>2, <2>3
<1>5. UNCHANGED <<db, req, stream, open, phase, missed>>
  BY DEF HaEventApplied
<1>6. PICK old, new : /\ old = cache[b][c0][i]
                      /\ new = IF s.do = "remove" THEN (IF old = <<>> THEN <<>> ELSE Tail(old))
                               ELSE IF s.do = "swap" THEN Append(IF old = <<>> THEN <<>> ELSE Tail(old), s.doc) ELSE Append(old, s.doc)
  OBVIOUS
<1>7. \A y \in Broker, x \in CacheName, j \in Id : cache'[y][x][j] = IF y = b /\ x = c0 /\ j = i THEN new ELSE cache[y][x][j]
  <2>1. (s.do = "remove" => ItemRemove(b, c0, i)) /\ (s.do = "swap" => ItemSwap(b, c0, i, s.doc)) /\ (s.do = "add" => ItemAdd(b, c0, i, s.doc))
    BY <1>1 DEF HaEventApplied
  <2>2. OpLeaves(b, c0, i, new)
    BY <1>4, <1>6, <2>1 DEF OpLeaves
  <2> QED BY <1>0, <1>2, <1>4, <2>2, ListOps
<1>8. /\ crossed' \in [Broker -> SUBSET Id] /\ (\A y \in Broker : y # b => crossed'[y] = crossed[y]) /\ crossed[b] \subseteq crossed'[b]
      /\ \A r \in InFlight(i) : req[r].at = b /\ (req[r].pc = "swapPernot" \/ (s.do # "remove" /\ req[r].pc = "cache")) => i \in crossed'[b]
  <2>1. PICK more : more = {j \in {i} : \E r \in InFlight(j) : req[r].at = b /\ (req[r].pc = "swapPernot" \/ (s.do # "remove" /\ req[r].pc = "cache"))}
    OBVIOUS
  <2>2. crossed' = [crossed EXCEPT ![b] = @ \cup more]
    BY <1>1, <2>1 DEF HaEventApplied
  <2> QED BY <1>0, <1>2, <2>1, <2>2
<1>9. /\ \A y \in Broker : y # b => apply'[y] = apply[y]
      /\ apply'[b] = IF u = <<>> THEN Idle ELSE [apply[b] EXCEPT !.todo = u]
  <2>1. apply' = [apply EXCEPT ![b] = IF Len(t) = 1 THEN Idle ELSE [apply[b] EXCEPT !.todo = u]]
    BY <1>1 DEF HaEventApplied
  <2>2. u = <<>> <=> Len(t) = 1
    <3>1. Len(u) = Len(t) - 1 /\ Len(t) \in Nat /\ Len(u) \in Nat
      BY <1>1, <1>2, <1>3, HeadTailProperties
    <3>2. u = <<>> <=> Len(u) = 0
      BY <1>3
    <3>3. PICK m, n : m = Len(t) /\ n = Len(u)
      OBVIOUS
    <3>4. m \in Nat /\ n = m - 1 /\ (u = <<>> <=> n = 0)
      BY <3>1, <3>2, <3>3
    <3> QED BY <3>3, <3>4
  <2> QED BY <1>0, <2>1, <2>2
<1>10. /\ u = <<>> => apply'[b].pc = "idle" /\ apply'[b].todo = <<>>
       /\ u # <<>> => apply'[b].pc = "todo" /\ apply'[b].id = i /\ apply'[b].todo = u
  BY <1>0, <1>1, <1>2, <1>9, IdleTyped DEF ApplyRec
<1>11. phase[b] = "up"
  BY <1>0, <1>2, IdleTyped DEF Firm, PhaseFirm
<1>12. \A r \in DOMAIN req : req[r].at = b =>
          /\ c0 = "sub" => req[r].pc # "swap"
          /\ c0 = "regSub" => req[r].pc \notin {"update", "swapCsr"}
          /\ c0 = "reg" => req[r].pc \notin {"cacheReg", "swapReg"}
  BY <1>0, <1>2, <1>4, LockedNot
<1>13. Firm'
  <2>1. \A h \in Range(apply'[b].todo) : h.cache = "reg" <=> apply'[b].id \in RegId
    <3>1. \A h \in Range(t) : h.cache = "reg" <=> i \in RegId
      BY <1>0, <1>1 DEF Firm, KindFirm
    <3>2. CASE u = <<>>
      BY <1>10, <3>2, IdleTyped
    <3>3. CASE u # <<>>
      BY <1>3, <1>10, <3>1, <3>3
    <3> QED BY <3>2, <3>3
  <2>2. ASSUME NEW y \in Broker, NEW c \in CacheName, NEW j \in Id
        PROVE  \/ cache'[y][c][j] = cache[y][c][j]
               \/ /\ y = b /\ (cache'[y][c][j] # <<>> => (c = "reg" <=> j \in RegId))
                  /\ c = "regSub" => \A r \in DOMAIN req : req[r].at = b /\ req[r].id = j => req[r].pc \notin {"update", "swapCsr"}
    <3>1. CASE y = b /\ c = c0 /\ j = i
      BY <1>4, <1>12, <3>1
    <3>2. CASE ~(y = b /\ c = c0 /\ j = i)
      BY <1>7, <3>2
    <3> QED BY <3>1, <3>2
  <2>3. \A y \in Broker : y # b => apply'[y] = apply[y] /\ open'[y] = open[y] /\ stream'[y] = stream[y]
    BY <1>5, <1>9
  <2> QED BY <1>0, <1>5, <1>8, <1>11, <2>1, <2>2, <2>3, ThreadFirm
<1>14. ASSUME NEW y \in Broker, NEW j \in Id, y # b \/ j # i PROVE ViewRight(y, j)'
  <2>1. apply'[y] = apply[y] \/ ((apply[y].pc = "idle" \/ apply[y].id # j) /\ (apply'[y].pc = "idle" \/ apply'[y].id # j))
    BY <1>1, <1>9, <1>10, <1>14
  <2>2. Loaded(y, j)' <=> Loaded(y, j)
    BY <1>5 DEF Loaded
  <2>3. \A c \in CacheName : cache'[y][c][j] = cache[y][c][j]
    BY <1>7, <1>14
  <2>4. j \notin crossed'[y] => j \notin crossed[y]
    BY <1>8
  <2> QED BY <1>0, <1>5, <2>1, <2>2, <2>3, <2>4, IdleViews
<1>15. ViewRight(b, i)'
  <2> SUFFICES ASSUME ~missed[b], i \notin crossed'[b], NEW w, View(b, i, w)' PROVE ViewOK(w)
    BY <1>5 DEF ViewRight
  <2>1. PICK v : ThreadStir(b, i, v, w)
    BY <1>0, <1>2, <1>5, <1>8, ThreadStirred
  <2>2. /\ View(b, i, v) /\ ViewOK(v) /\ v \in ViewRec /\ w \in ViewRec /\ v.db = db[i] /\ w.db = v.db /\ w.loaded = v.loaded
        /\ w.posting = v.posting /\ w.swaps = v.swaps /\ w.dropping = v.dropping
        /\ (w.coming <=> ComesIn(stream[b], i)) /\ w.dels = DelsIn(stream[b], i) /\ (w.last <=> LastDel(stream[b], i))
        /\ \A c \in CacheName : v.items[c] = cache[b][c][i] /\ w.items[c] = cache'[b][c][i]
    BY <1>5, <2>1 DEF ThreadStir
  <2>3. ~w.reading /\ w.todo = u
    <3>1. /\ (w.reading <=> apply'[b].pc = "read" /\ apply'[b].id = i)
          /\ w.todo = IF apply'[b].pc = "todo" /\ apply'[b].id = i THEN apply'[b].todo ELSE <<>>
      BY <2>1 DEF ThreadStir
    <3>2. CASE u = <<>>
      BY <1>10, <3>1, <3>2
    <3>3. CASE u # <<>>
      BY <1>10, <3>1, <3>3
    <3> QED BY <3>2, <3>3
  <2>4. /\ (v.coming <=> ComesIn(stream[b], i)) /\ v.dels = DelsIn(stream[b], i) /\ (v.last <=> LastDel(stream[b], i))
        /\ ~v.reading /\ v.todo = t /\ (v.posting <=> Posts(b, i)) /\ (\A c \in CacheName : c \in v.swaps <=> Swapping(b, i, c))
    BY <1>1, <1>2, <2>2 DEF View, Steps
  <2>5. w.coming = v.coming /\ w.dels = v.dels /\ (w.last => v.last)
    BY <2>2, <2>4 DEF ViewRec
  <2>6. \A r \in Here(b, i) : r \in DOMAIN req /\ req[r].at = b /\ req[r].id = i /\ (req[r].pc \notin Ended => r \in InFlight(i))
    BY DEF Here, InFlight
  <2>7. c0 \notin v.swaps
    <3> SUFFICES ASSUME Swapping(b, i, c0) PROVE FALSE
      BY <1>4, <2>4
    <3>1. PICK r \in Here(b, i) : SwapsIn(r, c0)
      BY DEF Swapping
    <3>2. req[r].pc = "swapPernot"
      BY <1>12, <2>6, <3>1 DEF SwapsIn
    <3>3. r \in InFlight(i)
      BY <2>6, <3>2 DEF Ended
    <3> QED BY <1>8, <2>6, <3>2, <3>3
  <2>8. v.posting => v.db # NoDoc
    <3> SUFFICES ASSUME Posts(b, i) PROVE db[i] # NoDoc
      BY <2>2, <2>4
    <3>1. PICK r \in Here(b, i) : Posting(r)
      BY DEF Posts
    <3>2. ReqFirm(r)
      BY <1>0, <2>6 DEF Firm
    <3> QED BY <2>6, <3>1, <3>2 DEF ReqFirm
  <2>9. LockHeld(v, w, c0)
    BY <1>1, <1>2, <1>7, <2>2, <2>3, <2>4, <2>5, <2>7, <2>8 DEF LockHeld
  <2>10. v.items[c0] = old /\ w.items[c0] = new /\ v.todo = t /\ Head(v.todo) = s
    <3>1. v.todo = t /\ Head(v.todo) = s
      BY <1>1, <2>4
    <3>2. cache[b][c0][i] = old /\ cache'[b][c0][i] = new
      BY <1>2, <1>4, <1>6, <1>7
    <3> QED BY <1>4, <2>2, <3>1, <3>2
  <2>11. CASE s.do = "remove"
    <3>1. w.items[c0] = IF v.items[c0] = <<>> THEN <<>> ELSE Tail(v.items[c0])
      BY <1>6, <2>10, <2>11
    <3>2. Head(v.todo).do = "remove"
      BY <2>10, <2>11
    <3> QED BY <1>4, <2>2, <2>9, <3>1, <3>2, ViewHoldRemoved
  <2>12. CASE s.do # "remove"
    <3>1. PICK d : d = s.doc
      OBVIOUS
    <3>2. /\ Head(v.todo).doc = d /\ d \in Doc
          /\ \/ Head(v.todo).do = "swap" /\ w.items[c0] = Append(IF v.items[c0] = <<>> THEN <<>> ELSE Tail(v.items[c0]), d)
             \/ Head(v.todo).do = "add" /\ w.items[c0] = Append(v.items[c0], d)
      <4>1. CASE s.do = "swap"
        BY <1>4, <1>6, <2>10, <3>1, <4>1
      <4>2. CASE s.do = "add"
        BY <1>4, <1>6, <2>10, <3>1, <4>2
      <4> QED BY <1>4, <2>12, <4>1, <4>2
    <3>3. ~v.posting
      <4> SUFFICES ASSUME Posts(b, i) PROVE FALSE
        BY <2>2, <2>4 DEF ViewRec
      <4>1. PICK r \in Here(b, i) : Posting(r)
        BY DEF Posts
      <4>2. CASE req[r].pc = "cache"
        <5>1. r \in InFlight(i)
          BY <2>6, <4>2 DEF Ended
        <5> QED BY <1>8, <2>6, <2>12, <4>2, <5>1
      <4>3. CASE req[r].pc = "cacheReg"
        <5>1. ReqFirm(r)
          BY <1>0, <2>6 DEF Firm
        <5>2. i \in RegId
          BY <2>6, <4>3, <5>1 DEF ReqFirm, Ended, RegPc
        <5> QED BY <1>4, <1>12, <2>6, <4>3, <5>2
      <4> QED BY <4>1, <4>2, <4>3 DEF Posting
    <3> QED BY <1>4, <2>2, <2>9, <3>2, <3>3, ViewHoldStored
  <2> QED BY <2>11, <2>12
<1> QED BY <1>13, <1>14, <1>15 DEF CacheInv

-----------------------------------------------------------------------------
(* Caches: the start, and what goes wrong *)

\* A broker that is not up has no request in work
LEMMA NoWork ==
  ASSUME Firm, NEW b, phase[b] # "up", NEW i
  PROVE  /\ (\A r \in DOMAIN req : req[r].at = b => req[r].pc \in Ended)
         /\ ~Posts(b, i) /\ (\A c : ~Swapping(b, i, c)) /\ ~Dropping(b, i)
<1>1. \A r \in DOMAIN req : req[r].at = b => req[r].pc \in Ended
  BY DEF Firm, ReqFirm
<1>2. \A r \in Here(b, i) : req[r].pc \in {"done", "refused", "lost"}
  BY <1>1 DEF Here, Ended
<1> QED BY <1>1, <1>2 DEF Posts, Swapping, Dropping, Posting, SwapsIn

\* Broker b goes on starting: what is firm
LEMMA StartFirm ==
  ASSUME HaTypes, Firm, UNCHANGED <<db, req, apply, crossed>>, NEW b \in Broker, phase[b] # "up", \A y \in Broker : y # b => phase'[y] = phase[y],
         \A y \in Broker : y # b => open'[y] = open[y] /\ stream'[y] = stream[y], PhaseFirm(b)',
         \A y \in Broker, c \in CacheName, j \in Id : \/ cache'[y][c][j] = cache[y][c][j]
                                                      \/ y = b /\ (cache'[y][c][j] # <<>> => (c = "reg" <=> j \in RegId))
  PROVE  Firm'
<1>1. \A r \in DOMAIN req : req[r].id \in Id /\ req[r].at \in Broker
  <2>1. \A r \in DOMAIN req : req[r] \in ReqRec
    BY DEF HaTypes
  <2> QED BY <2>1 DEF ReqRec
<1>2. ASSUME NEW r \in DOMAIN req PROVE ReqFirm(r)'
  <2>1. ReqFirm(r) /\ "regSub" \in CacheName /\ (req[r].at = b => req[r].pc \in {"done", "refused", "lost"})
    BY NoWork DEF Firm, CacheName, Ended
  <2>2. req[r].at # b => cache'[req[r].at]["regSub"][req[r].id] = cache[req[r].at]["regSub"][req[r].id] /\ phase'[req[r].at] = phase[req[r].at]
    BY <1>1, <2>1
  <2>3. InFlight(req[r].id)' = InFlight(req[r].id)
    BY DEF InFlight
  <2> QED BY <2>1, <2>2, <2>3 DEF ReqFirm, Posting, Ended
<1>3. ASSUME NEW y \in Broker PROVE PhaseFirm(y)'
  <2>1. PhaseFirm(y)
    BY DEF Firm
  <2>2. CASE y # b
    <3>1. \A i \in Id, c \in CacheName : cache'[y][c][i] = cache[y][c][i]
      BY <2>2
    <3>2. phase'[y] = phase[y] /\ open'[y] = open[y] /\ stream'[y] = stream[y]
      BY <2>2
    <3>3. \A i \in Id : Loaded(y, i)' <=> Loaded(y, i)
      BY <3>2 DEF Loaded
    <3> QED BY <2>1, <3>1, <3>2, <3>3 DEF PhaseFirm
  <2> QED BY <2>2
<1>4. KindFirm'
  BY DEF Firm, KindFirm, KindOK
<1> QED BY <1>2, <1>3, <1>4 DEF Firm

LEMMA HaInitCaches ==
  ASSUME NEW k0, PatchInv(k0), CacheInv, Ha, NEW b \in Broker, HaInit(b)
  PROVE  CacheInv'
<1>0. /\ HaTypes /\ Firm /\ phase \in [Broker -> {"start", "subs", "regs", "up"}] /\ open \in [Broker -> BOOLEAN]
  BY DEF PatchInv, CacheInv, HaTypes
<1>1. /\ phase[b] = "start" /\ open' = [open EXCEPT ![b] = TRUE] /\ phase' = [phase EXCEPT ![b] = "subs"]
      /\ UNCHANGED <<db, cache, req, stream, apply, missed, crossed>>
  BY DEF HaInit
<1>2. phase'[b] = "subs" /\ open'[b] /\ \A y \in Broker : y # b => phase'[y] = phase[y] /\ open'[y] = open[y]
  BY <1>0, <1>1
<1>3. \A y \in Broker, i \in Id : Loaded(y, i)' <=> Loaded(y, i)
  BY <1>1, <1>2 DEF Loaded
<1>4. PhaseFirm(b)'
  <2>1. PhaseFirm(b)
    BY <1>0 DEF Firm
  <2> QED BY <1>1, <1>2, <1>3, <2>1 DEF PhaseFirm
<1>5. Firm'
  BY <1>0, <1>1, <1>2, <1>4, StartFirm
<1>6. ASSUME NEW y \in Broker, NEW i \in Id PROVE ViewRight(y, i)'
  BY <1>0, <1>1, <1>3, IdleViews
<1> QED BY <1>5, <1>6 DEF CacheInv

\* A load: from nothing to the records there are
LEMMA Loads ==
  ASSUME HaTypes, NEW b \in Broker, NEW ids, Load(b, ids), \A i \in Id, c \in CacheName : i \in ids => cache[b][c][i] = <<>>
  PROVE  /\ \A y \in Broker, c \in CacheName, i \in Id : y # b \/ i \notin ids => cache'[y][c][i] = cache[y][c][i]
         /\ \A c \in CacheName, i \in Id : i \in ids => cache'[b][c][i] = IF db[i] # NoDoc /\ KindCache(db[i]) = c THEN <<db[i]>> ELSE <<>>
<1>1. cache \in [Broker -> [CacheName -> [Id -> Seq(Doc)]]] /\ db \in [Id -> Doc \cup {NoDoc}]
  BY DEF HaTypes
<1> DEFINE more(c, i) == IF i \in ids /\ db[i] # NoDoc /\ TenantSubCacheItemKind[db[i].kind] = c THEN <<db[i]>> ELSE <<>>
<1>2. cache' = [cache EXCEPT ![b] = [c \in CacheName |-> [i \in Id |-> cache[b][c][i] \o more(c, i)]]]
  BY DEF Load
<1>3. \A c, i : i \notin ids => more(c, i) = <<>>
  OBVIOUS
<1>4. ASSUME NEW c \in CacheName, NEW i \in Id PROVE more(c, i) \in Seq(Doc)
  <2>1. CASE i \in ids /\ db[i] # NoDoc /\ TenantSubCacheItemKind[db[i].kind] = c
    <3>1. PICK d : d = db[i]
      OBVIOUS
    <3>2. d \in Doc /\ more(c, i) = <<d>>
      BY <1>1, <2>1, <3>1
    <3> HIDE DEF more
    <3> QED BY <3>2
  <2>2. CASE ~(i \in ids /\ db[i] # NoDoc /\ TenantSubCacheItemKind[db[i].kind] = c)
    <3>1. more(c, i) = <<>>
      BY <2>2
    <3> HIDE DEF more
    <3> QED BY <3>1
  <2> QED BY <2>1, <2>2
<1>5. \A c, i : i \in ids => more(c, i) = IF db[i] # NoDoc /\ KindCache(db[i]) = c THEN <<db[i]>> ELSE <<>>
  BY DEF KindCache
<1> HIDE DEF more
<1>6. \A c \in CacheName, i \in Id : cache'[b][c][i] = cache[b][c][i] \o more(c, i)
  BY <1>1, <1>2
<1>7. \A y \in Broker : y # b => cache'[y] = cache[y]
  BY <1>1, <1>2
<1>8. ASSUME NEW c \in CacheName, NEW i \in Id
      PROVE  (i \notin ids => cache'[b][c][i] = cache[b][c][i]) /\ (i \in ids => cache'[b][c][i] = more(c, i))
  <2>1. PICK s, t : s = cache[b][c][i] /\ t = more(c, i)
    OBVIOUS
  <2>2. s \in Seq(Doc) /\ t \in Seq(Doc) /\ cache'[b][c][i] = s \o t
    BY <1>1, <1>4, <1>6, <2>1
  <2>3. s \o <<>> = s /\ <<>> \o t = t
    BY <2>2, ConcatEmptySeq
  <2>4. (i \notin ids => t = <<>>) /\ (i \in ids => s = <<>>)
    BY <1>3, <2>1
  <2> QED BY <2>1, <2>2, <2>3, <2>4
<1> QED BY <1>5, <1>7, <1>8

LEMMA LoadCaches ==
  ASSUME NEW k0, PatchInv(k0), CacheInv, NEW b \in Broker, TenantSubCacheReload(b) \/ TenantRegCacheReload(b)
  PROVE  CacheInv'
<1>0. /\ HaTypes /\ Firm /\ PhaseFirm(b) /\ phase \in [Broker -> {"start", "subs", "regs", "up"}] /\ db \in [Id -> Doc \cup {NoDoc}]
  BY DEF PatchInv, CacheInv, Firm, HaTypes
<1>1. PICK ids, p : /\ phase' = [phase EXCEPT ![b] = p] /\ Load(b, ids) /\ p \in {"regs", "up"}
                    /\ phase[b] = (IF p = "regs" THEN "subs" ELSE "regs") /\ ids = (IF p = "regs" THEN SubId ELSE RegId)
                    /\ UNCHANGED <<db, req, stream, open, apply, missed, crossed>>
  BY DEF TenantSubCacheReload, TenantRegCacheReload
<1>2. /\ phase'[b] = p /\ (\A y \in Broker : y # b => phase'[y] = phase[y]) /\ phase[b] # "up" /\ apply[b] = Idle /\ open[b]
  BY <1>0, <1>1 DEF PhaseFirm
<1>3. /\ \A y \in Broker, j \in Id : y # b \/ j \notin ids => (Loaded(y, j)' <=> Loaded(y, j))
      /\ \A j \in Id : j \in ids => ~Loaded(b, j)
      /\ \A j \in Id : ~Loaded(b, j)' => ~Loaded(b, j) /\ j \notin ids
  BY <1>1, <1>2, SubOrReg DEF Loaded
<1>4. \A j \in Id, c \in CacheName : ~Loaded(b, j) => cache[b][c][j] = <<>>
  BY <1>0 DEF PhaseFirm
<1>5. /\ \A y \in Broker, c \in CacheName, j \in Id : y # b \/ j \notin ids => cache'[y][c][j] = cache[y][c][j]
      /\ \A c \in CacheName, j \in Id : j \in ids => cache'[b][c][j] = IF db[j] # NoDoc /\ KindCache(db[j]) = c THEN <<db[j]>> ELSE <<>>
  BY <1>0, <1>1, <1>3, <1>4, Loads
<1>6. PhaseFirm(b)'
  BY <1>1, <1>2, <1>3, <1>4, <1>5 DEF PhaseFirm
<1>7. Firm'
  <2>1. ASSUME NEW c \in CacheName, NEW j \in Id, j \in ids, cache'[b][c][j] # <<>> PROVE c = "reg" <=> j \in RegId
    <3>1. db[j] # NoDoc /\ KindCache(db[j]) = c
      BY <1>5, <2>1
    <3>2. db[j] \in Doc /\ KindOK(j, db[j])
      BY <1>0, <3>1 DEF Firm, KindFirm
    <3>3. db[j].kind \in Kind
      BY <3>2 DEF Doc
    <3>4. KindCache(db[j]) = "reg" <=> db[j].kind = "reg"
      BY <3>3 DEF Kind, KindCache, TenantSubCacheItemKind
    <3> QED BY <3>1, <3>2, <3>4 DEF KindOK
  <2>2. \A y \in Broker, c \in CacheName, j \in Id :
          (cache'[y][c][j] = cache[y][c][j]) \/ (y = b /\ (cache'[y][c][j] # <<>> => (c = "reg" <=> j \in RegId)))
    BY <1>5, <2>1
  <2> QED BY <1>0, <1>1, <1>2, <1>6, <2>2, StartFirm
<1>8. ASSUME NEW y \in Broker, NEW j \in Id, y # b \/ j \notin ids PROVE ViewRight(y, j)'
  BY <1>0, <1>1, <1>3, <1>5, <1>8, IdleViews
<1>9. ASSUME NEW j \in Id, j \in ids PROVE ViewRight(b, j)'
  <2> SUFFICES ASSUME ~missed[b], j \notin crossed[b], NEW w, View(b, j, w)' PROVE ViewOK(w)
    BY <1>1 DEF ViewRight
  <2>1. PICK v : View(b, j, v)
    BY <1>0, Viewed
  <2>2. v.last => db[j] = NoDoc
    BY <2>1 DEF CacheInv, ViewRight, ViewOK, View
  <2>3. stream[b] \in Seq(EventRec)
    BY <1>0 DEF HaTypes
  <2>4. (w.last => w.db = NoDoc) /\ (~w.coming => w.dels = 0) /\ w.db = db[j] /\ w \in ViewRec
    <3>1. /\ (v.last <=> LastDel(stream[b], j)) /\ w.db = db[j] /\ (w.coming <=> ComesIn(stream[b], j)) /\ w.dels = DelsIn(stream[b], j)
          /\ (w.last <=> LastDel(stream[b], j)) /\ w \in ViewRec
      BY <1>1, <2>1 DEF View
    <3>2. ~ComesIn(stream[b], j) => DelsIn(stream[b], j) = 0
      BY <2>3, DelsFacts
    <3> QED BY <2>2, <3>1, <3>2
  <2>5. w.todo = <<>>
    BY <1>1, <1>2, IdleTyped DEF View, Steps
  <2>6. ~w.posting /\ w.swaps = {}
    <3>1. ~Posts(b, j) /\ \A c : ~Swapping(b, j, c)
      BY <1>0, <1>2, NoWork
    <3>2. ~Posts(b, j)' /\ \A c : ~Swapping(b, j, c)'
      BY <1>1, <3>1, SameWork
    <3>3. (w.posting <=> Posts(b, j)') /\ (\A c \in CacheName : c \in w.swaps <=> Swapping(b, j, c)') /\ w.swaps \subseteq CacheName
      BY <2>4 DEF View, ViewRec
    <3> QED BY <3>2, <3>3
  <2>7. \A c \in CacheName : w.items[c] = Target(w, c)
    <3>1. \A c \in CacheName : w.items[c] = cache'[b][c][j]
      BY DEF View
    <3> QED BY <1>5, <1>9, <2>4, <3>1 DEF Target
  <2> QED BY <2>4, <2>5, <2>6, <2>7, ViewLoaded
<1> QED BY <1>7, <1>8, <1>9 DEF CacheInv

LEMMA RestartCaches ==
  ASSUME NEW k0, PatchInv(k0), CacheInv, NEW b \in Broker, Restart(b)
  PROVE  CacheInv'
<1>0. /\ HaTypes /\ Firm /\ db' = db /\ crossed \in [Broker -> SUBSET Id] /\ \A r \in DOMAIN req : req[r] \in ReqRec
  BY DEF PatchInv, CacheInv, Firm, HaTypes, Restart
<1>1. /\ phase'[b] = "start" /\ ~open'[b] /\ stream'[b] = <<>> /\ apply'[b] = Idle /\ \A c \in CacheName, i \in Id : cache'[b][c][i] = <<>>
      /\ phase[b] = "up"
  BY <1>0 DEF Restart, HaTypes
<1>2. \A y \in Broker : y # b => /\ phase'[y] = phase[y] /\ open'[y] = open[y] /\ stream'[y] = stream[y] /\ apply'[y] = apply[y]
                                 /\ cache'[y] = cache[y] /\ missed'[y] = missed[y] /\ crossed'[y] = crossed[y]
  BY <1>0 DEF Restart, HaTypes
<1>3. crossed' \in [Broker -> SUBSET Id]
  BY <1>0 DEF Restart
<1>4. /\ DOMAIN req' = DOMAIN req
      /\ \A r \in DOMAIN req : /\ req'[r].op = req[r].op /\ req'[r].id = req[r].id /\ req'[r].at = req[r].at /\ req'[r].doc = req[r].doc
                               /\ req'[r].pc = IF req[r].at = b /\ req[r].pc \notin Ended THEN "lost" ELSE req[r].pc
  BY <1>0, Restarted
<1>5. ASSUME NEW r \in DOMAIN req, req[r].at = b PROVE req'[r].pc \in {"done", "refused", "lost"}
  BY <1>4, <1>5 DEF Ended
<1>6. ASSUME NEW r \in DOMAIN req PROVE ReqFirm(r)'
  <2>1. ReqFirm(r) /\ req[r].at \in Broker /\ req[r].id \in Id /\ "regSub" \in CacheName
    BY <1>0 DEF Firm, ReqRec, CacheName
  <2>2. CASE req[r].at = b
    <3>1. req'[r].pc \in {"done", "refused", "lost"}
      BY <1>5, <2>2
    <3> QED BY <1>0, <1>4, <2>1, <3>1 DEF ReqFirm, Posting, Ended, KindOK
  <2>3. CASE req[r].at # b
    <3>1. req'[r].pc = req[r].pc /\ req'[r].at = req[r].at /\ req'[r].id = req[r].id /\ req'[r].doc = req[r].doc /\ req'[r].op = req[r].op
      BY <1>4, <2>3
    <3>2. Posting(r)' => Posting(r)
      BY <3>1 DEF Posting
    <3>9. PICK j : j = req[r].id
      OBVIOUS
    <3>3. ASSUME InFlight(j) = {r}, req[r].pc \notin Ended PROVE InFlight(j)' = {r}
      <4>1. ASSUME NEW q \in DOMAIN req', req'[q].id = j, req'[q].pc \notin Ended PROVE q = r
        <5>1. q \in DOMAIN req /\ req[q].id = j /\ req[q].pc \notin Ended
          BY <1>4, <4>1
        <5> QED BY <5>1, <3>3 DEF InFlight
      <4>2. r \in DOMAIN req' /\ req'[r].pc \notin Ended /\ req'[r].id = j
        BY <1>4, <3>1, <3>3, <3>9
      <4> QED BY <4>1, <4>2 DEF InFlight
    <3>4. Posting(r) => req[r].pc \notin Ended
      BY DEF Posting, Ended
    <3>5. cache'[req[r].at]["regSub"][req[r].id] = cache[req[r].at]["regSub"][req[r].id] /\ phase'[req[r].at] = phase[req[r].at]
      BY <1>2, <2>1, <2>3
    <3>6. Posting(r)' => InFlight(j)' = {r}
      BY <2>1, <3>2, <3>3, <3>4, <3>9 DEF ReqFirm
    <3>7. /\ Posting(r)' => req'[r].op = "post" /\ db'[req'[r].id] = req'[r].doc /\ req'[r].doc # NoDoc /\ InFlight(j)' = {r} /\ req'[r].id = j
          /\ req'[r].pc \in {"drop", "dropPernot", "dropReg"} => db'[req'[r].id] = NoDoc
      BY <1>0, <2>1, <3>1, <3>2, <3>6, <3>9 DEF ReqFirm
    <3>8. /\ req'[r].pc \in {"update", "swapCsr"} => cache'[req'[r].at]["regSub"][req'[r].id] # <<>>
          /\ req'[r].doc # NoDoc => KindOK(req'[r].id, req'[r].doc)
          /\ req'[r].pc \notin Ended => (req'[r].pc \in RegPc <=> req'[r].id \in RegId) /\ phase'[req'[r].at] = "up"
      BY <2>1, <3>1, <3>5 DEF ReqFirm
    <3> QED BY <3>7, <3>8 DEF ReqFirm, KindOK
  <2> QED BY <2>2, <2>3
<1>7. ASSUME NEW y \in Broker PROVE PhaseFirm(y)'
  <2>1. CASE y = b
    BY <1>1, <2>1 DEF PhaseFirm
  <2>2. CASE y # b
    <3>1. PhaseFirm(y)
      BY <1>0 DEF Firm
    <3>2. \A i \in Id : Loaded(y, i)' <=> Loaded(y, i)
      BY <1>2, <2>2 DEF Loaded
    <3> QED BY <1>2, <2>2, <3>1, <3>2 DEF PhaseFirm
  <2> QED BY <2>1, <2>2
<1>8. KindFirm'
  <2>1. KindFirm /\ Range(Idle.todo) = {}
    BY <1>0, IdleTyped DEF Firm
  <2>2. \A y \in Broker : apply'[y] = apply[y] \/ apply'[y] = Idle
    BY <1>1, <1>2
  <2>3. \A y \in Broker, c \in CacheName, i \in Id : cache'[y][c][i] = cache[y][c][i] \/ cache'[y][c][i] = <<>>
    BY <1>1, <1>2
  <2>4. \A y \in Broker : \A h \in Range(apply'[y].todo) : h.cache = "reg" <=> apply'[y].id \in RegId
    BY <2>1, <2>2 DEF KindFirm
  <2> QED BY <1>0, <2>1, <2>3, <2>4 DEF KindFirm, KindOK
<1>9. Firm'
  BY <1>3, <1>4, <1>6, <1>7, <1>8 DEF Firm
<1>10. ASSUME NEW y \in Broker, NEW i \in Id, y # b PROVE ViewRight(y, i)'
  <2>1. \A r \in DOMAIN req : req[r].at = y => req'[r].pc = req[r].pc
    BY <1>4, <1>10
  <2>2. Here(y, i)' = Here(y, i)
    BY <1>4 DEF Here
  <2>3. \A r \in Here(y, i) : r \in DOMAIN req /\ req'[r].pc = req[r].pc
    BY <2>1 DEF Here
  <2>4. Posts(y, i)' <=> Posts(y, i)
    BY <2>2, <2>3 DEF Posts, Posting
  <2>5. \A c : Swapping(y, i, c)' <=> Swapping(y, i, c)
    BY <2>2, <2>3 DEF Swapping, SwapsIn
  <2>6. Dropping(y, i)' <=> Dropping(y, i)
    BY <2>2, <2>3 DEF Dropping
  <2>7. Steps(y, i)' = Steps(y, i) /\ (Loaded(y, i)' <=> Loaded(y, i)) /\ stream'[y] = stream[y]
    BY <1>2, <1>10 DEF Steps, Loaded
  <2>8. (ComesIn(stream[y], i)' <=> ComesIn(stream[y], i)) /\ DelsIn(stream[y], i)' = DelsIn(stream[y], i) /\ (LastDel(stream[y], i)' <=> LastDel(stream[y], i))
    BY <2>7 DEF ComesIn, DelsIn, DelsAt, LastDel
  <2>9. ((apply[y].pc = "read" /\ apply[y].id = i)' <=> apply[y].pc = "read" /\ apply[y].id = i)
        /\ db'[i] = db[i] /\ missed'[y] = missed[y] /\ crossed'[y] = crossed[y] /\ \A c \in CacheName : cache'[y][c][i] = cache[y][c][i]
    BY <1>0, <1>2, <1>10
  <2> QED BY <1>0, <2>4, <2>5, <2>6, <2>7, <2>8, <2>9, Untouched
<1>11. ASSUME NEW i \in Id PROVE ViewRight(b, i)'
  <2> SUFFICES ASSUME NEW w, View(b, i, w)' PROVE ViewOK(w)
    BY DEF ViewRight
  <2>1. \A r \in Here(b, i)' : req'[r].pc \in {"done", "refused", "lost"}
    BY <1>4, <1>5 DEF Here
  <2>2. ~Posts(b, i)' /\ \A c : ~Swapping(b, i, c)'
    BY <2>1 DEF Posts, Swapping, Posting, SwapsIn
  <2>3. w \in ViewRec /\ w.swaps = {} /\ ~w.posting
    BY <2>2 DEF View, ViewRec
  <2>4. ~w.loaded /\ \A c \in CacheName : w.items[c] = <<>>
    BY <1>1 DEF View, Loaded
  <2>5. w.todo = <<>>
    BY <1>1, IdleTyped DEF View, Steps
  <2>6. ~w.last /\ w.dels = 0
    BY <1>1, DelsEmpty DEF View
  <2> QED BY <2>3, <2>4, <2>5, <2>6, ViewBare
<1> QED BY <1>9, <1>10, <1>11 DEF CacheInv

LEMMA CacheInvInit ==
  ASSUME HaSyncInit, Ha PROVE CacheInv
<1>0. HaTypes
  BY PatchInvInit DEF PatchInv
<1>1. /\ req = <<>> /\ DOMAIN req = {} /\ \A b \in Broker : /\ stream[b] = <<>> /\ open[b] /\ phase[b] = "up" /\ apply[b] = Idle
                                                            /\ ~missed[b] /\ crossed[b] = {}
  BY DEF HaSyncInit
<1>2. \A b \in Broker, c \in CacheName, i \in Id : cache[b][c][i] = IF db[i] # NoDoc /\ TenantSubCacheItemKind[db[i].kind] = c THEN <<db[i]>> ELSE <<>>
  BY DEF HaSyncInit
<1>3. ASSUME NEW i \in Id, db[i] # NoDoc PROVE db[i].kind \in Kind /\ KindOK(i, db[i])
  <2>1. PICK d : d = db[i]
    OBVIOUS
  <2>2. d.kind \in Kinds(i) /\ d \in Doc
    BY <1>0, <1>3, <2>1 DEF HaSyncInit, HaTypes
  <2>3. d.kind \in Kind
    BY <2>2 DEF Doc
  <2>4. d.kind = "reg" <=> i \in RegId
    BY <2>2, HaAssumption DEF Kinds
  <2> QED BY <2>1, <2>3, <2>4 DEF KindOK
<1>4. KindFirm
  <2>1. ASSUME NEW b \in Broker, NEW c \in CacheName, NEW i \in Id, cache[b][c][i] # <<>> PROVE c = "reg" <=> i \in RegId
    <3>0. cache[b][c][i] = IF db[i] # NoDoc /\ TenantSubCacheItemKind[db[i].kind] = c THEN <<db[i]>> ELSE <<>>
      BY <1>2
    <3>1. db[i] # NoDoc /\ TenantSubCacheItemKind[db[i].kind] = c
      BY <2>1, <3>0
    <3>2. db[i].kind \in Kind /\ (db[i].kind = "reg" <=> i \in RegId)
      BY <1>3, <3>1 DEF KindOK
    <3>3. PICK k : k = db[i].kind
      OBVIOUS
    <3>4. TenantSubCacheItemKind[k] = "reg" <=> k = "reg"
      BY <3>2, <3>3 DEF Kind, TenantSubCacheItemKind
    <3> QED BY <3>1, <3>2, <3>3, <3>4
  <2> QED BY <1>1, <1>3, <2>1, IdleTyped DEF KindFirm
<1>5. \A b \in Broker : PhaseFirm(b)
  BY <1>1 DEF PhaseFirm, Loaded
<1>6. crossed \in [Broker -> SUBSET Id]
  BY DEF HaSyncInit
<1>7. ASSUME NEW b \in Broker, NEW i \in Id, NEW w, View(b, i, w) PROVE ViewOK(w)
  <2>1. w \in ViewRec /\ ~w.posting /\ w.swaps = {}
    <3>1. Here(b, i) = {}
      BY <1>1 DEF Here
    <3> QED BY <3>1, <1>7 DEF View, ViewRec, Posts, Swapping
  <2>2. w.todo = <<>>
    BY <1>1, <1>7, IdleTyped DEF View, Steps
  <2>3. ~w.last /\ w.dels = 0
    BY <1>1, <1>7, DelsEmpty DEF View
  <2>4. \A c \in CacheName : w.items[c] = Target(w, c)
    BY <1>2, <1>7 DEF View, Target, KindCache
  <2> QED BY <2>1, <2>2, <2>3, <2>4, ViewLoaded
<1> QED BY <1>1, <1>4, <1>5, <1>6, <1>7 DEF CacheInv, Firm, ViewRight

\* No step
LEMMA SameCaches ==
  ASSUME HaTypes, CacheInv, UNCHANGED haVars
  PROVE  CacheInv'
<1>1. UNCHANGED <<db, cache, req, stream, open, phase, apply, missed, crossed>>
  BY DEF haVars
<1>2. \A b, i : Loaded(b, i)' <=> Loaded(b, i)
  BY <1>1 DEF Loaded
<1>3. ASSUME NEW b \in Broker, NEW i \in Id PROVE ViewRight(b, i)'
  BY <1>1, <1>2, IdleViews
<1>4. \A i : InFlight(i)' = InFlight(i)
  BY <1>1 DEF InFlight
<1>5. (\A r \in DOMAIN req : ReqFirm(r)')
  <2> SUFFICES ASSUME NEW r \in DOMAIN req PROVE ReqFirm(r)'
    OBVIOUS
  <2>1. InFlight(req[r].id)' = InFlight(req[r].id)
    BY <1>1 DEF InFlight
  <2> QED BY <1>1, <2>1 DEF CacheInv, Firm, ReqFirm, Posting, KindOK
<1>6. (\A b \in Broker : PhaseFirm(b)') /\ KindFirm'
  BY <1>1, <1>2 DEF CacheInv, Firm, PhaseFirm, KindFirm, KindOK
<1> QED BY <1>1, <1>3, <1>5, <1>6 DEF CacheInv, Firm

LEMMA CacheInvNext ==
  ASSUME NEW k0, PatchInv(k0), CacheInv, Ha, [HaSyncNext]_haVars
  PROVE  CacheInv'
<1>1. ASSUME NEW b \in Broker, Begins(b) PROVE CacheInv'
  <2>1. PICK i \in Id :
          \/ \E k \in Kinds(i) \ {"reg"} : PostSubscription(i, b, k)
          \/ PatchSubscription(i, b) \/ DeleteSubscription(i, b)
          \/ PatchCsourceSubscription(i, b) \/ DeleteCsourceSubscription(i, b)
          \/ PostCsourceRegistration(i, b) \/ PatchCsourceRegistration(i, b) \/ DeleteCsourceRegistration(i, b)
    BY <1>1 DEF Begins
  <2> QED BY <2>1, PostSubscriptionCaches, PatchSubscriptionCaches, DeleteSubscriptionCaches, PatchCsourceSubscriptionCaches,
             DeleteCsourceSubscriptionCaches, PostCsourceRegistrationCaches, PatchCsourceRegistrationCaches, DeleteCsourceRegistrationCaches
<1>2. ASSUME NEW b \in Broker, HaWatchThread(b) PROVE CacheInv'
  BY <1>2, EventTreatCaches, RefreshCaches, HaEventAppliedCaches, StreamCaches DEF HaWatchThread
<1>3. ASSUME NEW b \in Broker, Starts(b) \/ HaEventNotApplied(b) \/ StreamBreak(b) \/ Restart(b) PROVE CacheInv'
  BY <1>3, HaInitCaches, LoadCaches, HaEventNotAppliedCaches, StreamCaches, RestartCaches DEF Starts
<1>4. ASSUME NEW r \in DOMAIN req, Goes(r) PROVE CacheInv'
  BY <1>4, PostSubscriptionCachedCaches, PatchSubscriptionRetrieveCaches, PatchSubscriptionReplaceCaches, PatchSubscriptionSwapCaches,
     DeleteDropCaches, PatchCsourceSubscriptionUpdateCaches, PatchCsourceSwapCaches, DeleteCsourceSubscriptionStoredCaches,
     PostCsourceRegistrationCachedCaches, PatchCsourceRegistrationUpdateCaches
  DEF Goes
<1>5. ASSUME UNCHANGED haVars PROVE CacheInv'
  BY <1>5, SameCaches DEF PatchInv
<1> QED BY <1>1, <1>2, <1>3, <1>4, <1>5 DEF HaSyncNext

LEMMA CacheInvFollows ==
  ASSUME HaTypes, CacheInv
  PROVE  CacheFollowsDb
<1> SUFFICES ASSUME NEW b \in Broker, NEW i \in Id, Settled(b, i), i \notin crossed[b] PROVE Follows(b, i)
  BY DEF CacheFollowsDb
<1>1. PICK v : View(b, i, v)
  BY Viewed
<1>2. ViewOK(v) /\ v \in ViewRec /\ v.loaded
  BY <1>1 DEF CacheInv, ViewRight, Settled, View, Loaded
<1>3. ~v.coming /\ ~v.reading /\ v.todo = <<>> /\ v.dels = 0
  BY <1>1, <1>2 DEF View, Settled, ComesIn, Steps, ViewOK
<1>4. ~v.posting /\ ~v.dropping
  <2>1. \A r \in Here(b, i) : req[r].pc \in Ended
    BY DEF Settled, InFlight, Here
  <2>2. \A r \in Here(b, i) : req[r].pc \in {"done", "refused", "lost"}
    BY <2>1 DEF Ended
  <2> QED BY <1>1, <2>2 DEF View, Posts, Dropping, Posting
<1>5. ASSUME NEW c \in CacheName PROVE v.items[c] = Target(v, c)
  <2>1. CASE v.db # NoDoc
    BY <1>2, <1>3, <1>4, <2>1 DEF ViewOK, NearRight
  <2>2. CASE v.db = NoDoc
    <3>1. PICK s, m : s = v.items[c] /\ m = Drops(v.todo, c)
      OBVIOUS
    <3>2. m = 0 /\ Len(s) <= 0 + m + 0
      BY <1>2, <1>3, <2>2, <3>1, NoSteps DEF ViewOK, ItemsCounted, OneMore
    <3>3. s \in Seq(Doc) /\ Len(s) \in Nat
      BY <1>2, <3>1 DEF ViewRec
    <3>4. s = <<>>
      BY <3>2, <3>3
    <3> QED BY <2>2, <3>1, <3>4 DEF Target
  <2> QED BY <2>1, <2>2
<1> QED BY <1>1, <1>5 DEF Follows, Target, KindCache, View

\* With the brokers watching the database, a broker that has applied the events of a record and whose own requests on it
\* have ended holds in its caches exactly what the database holds of it.
THEOREM CachesFollowTheDb == ASSUME Ha PROVE HaSyncSpec => []CacheFollowsDb
<1>1. HaSyncInit => PatchInvSome /\ CacheInv
  BY PatchInvInit, CacheInvInit DEF PatchInvSome
<1>2. ASSUME PatchInvSome /\ CacheInv, [HaSyncNext]_haVars PROVE PatchInvSome' /\ CacheInv'
  <2>1. PICK k0 : PatchInv(k0)
    BY <1>2 DEF PatchInvSome
  <2>2. PatchInv(k0)'
    BY <1>2, <2>1, PatchInvNext
  <2>3. CacheInv'
    BY <1>2, <2>1, CacheInvNext
  <2> QED BY <2>2, <2>3 DEF PatchInvSome
<1>3. PatchInvSome /\ CacheInv => CacheFollowsDb
  BY CacheInvFollows DEF PatchInvSome, PatchInv
<1> QED BY <1>1, <1>2, <1>3, PTL DEF HaSyncSpec

=============================================================================
