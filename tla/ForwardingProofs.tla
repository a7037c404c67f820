-------------------------- MODULE ForwardingProofs --------------------------
(***************************************************************************)
(* Proofs about writes to an entity of which context sources hold a part,  *)
(* for all attributes, registrations, threads and numbers of requests:     *)
(* types, ClaimsDisjoint, ClaimHonoured and AnsweredWasDone. ClaimsDisjoint *)
(* rests on what the write lock is held over: who holds it has found no    *)
(* conflict, and nobody else stores. ClaimHonoured needs ClaimsDisjoint,   *)
(* and what a request's fragment lacks and its items have at each of its   *)
(* steps (FragmentLacks, ItemsHave) of every registration that stood when  *)
(* it began. AnsweredWasDone says where an attribute a request was asked   *)
(* to write is between two of its steps (Promise).                         *)
(* At the end, the types of brokers that have caches, connections and      *)
(* forwards side by side.                                                  *)
(***************************************************************************)
EXTENDS MCHaSync, HaProofs, ConnectionProofs

\* Who has checked holds the lock until the registration is in the cache, and what was checked holds on
Checked ==
  \A t \in RegThread : regCall[t].pc = "store" =>
    /\ regLock = t
    /\ \A s \in regCall[t].shape : Authoritative(s) => ~CacheConflict(s, regCall[t].old)

RegInv == ForwardingTypeOK /\ Checked /\ ClaimsDisjoint

\* Those a request had to know of were stored by then
KnownMade == \A r \in DOMAIN write : \A n \in write[r].known : n <= made

\* What a request wrote bears its stamp, once it is done
StampsDone ==
  \A r \in DOMAIN write : \A a \in Attr : data[a] = Stamp(r) => write[r].pc = "done" /\ a \in write[r].wrote

NotStampedAhead == \A a \in Attr : data[a] <= Len(write) + 1

\* What a request is to leave to a registration's source
Owed(r, g) == {a \in Claims(g) : ~PassedOver(r, g, a)}

SweptBy(r) == write[r].pc \in {"send", "local"} \/ (write[r].pc = "inclusive" /\ write[r].op \in BatchOp)

\* ... is out of its fragment once it was matched or swept, and not written
FragmentLacks(r, g) ==
  \A a \in Owed(r, g) :
    /\ write[r].pc = "done" => a \notin write[r].wrote
    /\ g.mode = "exclusive" /\ write[r].pc \notin {"exclusive", "done"} => a \notin write[r].frag
    /\ g.mode = "redirect" /\ SweptBy(r) => a \notin write[r].frag

\* ... goes to no other source, and waits, in its fragment still, for the sweep
ItemsHave(r, g) ==
  /\ g.mode = "exclusive" => \A a \in Owed(r, g) :
       /\ \A e \in write[r].items : a \in e.part => e.reg.n = g.n
       /\ \A e \in write[r].took : a \in e.part => e.n = g.n
  /\ g.mode = "redirect" /\ write[r].op \notin BatchOp /\ write[r].pc \in {"inclusive", "sweep"} =>
       \A a \in Owed(r, g) : a \in write[r].frag =>
         \E e \in write[r].items : e.reg = g /\ a \in Scope(e) /\ a \in e.part

Honours == \A r \in DOMAIN write : \A g \in Standing(r) : FragmentLacks(r, g) /\ ItemsHave(r, g)

HonourInv == RegInv /\ KnownMade /\ StampsDone /\ NotStampedAhead /\ Honours

-----------------------------------------------------------------------------
(* Facts about registrations and requests *)

LEMMA ItemFacts ==
  ASSUME NEW s \in Shape, NEW n \in Nat
  PROVE  /\ Item(s, n) \in Registration /\ Item(s, n).n = n /\ Item(s, n).mode = s.mode
         /\ Claims(Item(s, n)) = Claims(s) /\ (Authoritative(Item(s, n)) <=> Authoritative(s))
BY ForwardingAssumption DEF Item, Registration, IsRegShape, Claims, Authoritative

LEMMA ClaimsAreAttributes == \A g \in Registration : Claims(g) \subseteq Attr
BY DEF Registration, Claims

LEMMA WriteFacts ==
  ASSUME ForwardingTypeOK
  PROVE  /\ DOMAIN write = 1..Len(write) /\ Len(write) \in Nat /\ Len(write) <= MaxWrite
         /\ \A r \in DOMAIN write : r \in Nat \ {0} /\ write[r] \in WriteRequest
BY DEF ForwardingTypeOK

\* One request goes on, the others stay
LEMMA UpdateFacts ==
  ASSUME ForwardingTypeOK, NEW r \in DOMAIN write, NEW c \in WriteRequest, write' = [write EXCEPT ![r] = c]
  PROVE  /\ write' \in Seq(WriteRequest) /\ Len(write') = Len(write) /\ DOMAIN write' = DOMAIN write
         /\ write'[r] = c /\ \A q \in DOMAIN write \ {r} : write'[q] = write[q]
BY DEF ForwardingTypeOK

-----------------------------------------------------------------------------
(* Registrations *)

LEMMA RegInit == ForwardingInit => RegInv
<1> SUFFICES ASSUME ForwardingInit PROVE RegInv OBVIOUS
<1>1. \A t \in RegThread : regCall[t] = NoRegCall /\ NoRegCall \in RegCall /\ NoRegCall.pc # "store"
  BY DEF ForwardingInit, NoRegCall, RegCall
<1>2. write \in Seq(WriteRequest) /\ Len(write) = 0 /\ DOMAIN write = {} BY DEF ForwardingInit
<1>3. data \in [Attr -> 0..(MaxWrite + 1)] BY ForwardingAssumption DEF ForwardingInit, Absent, Original
<1>4. ForwardingTypeOK
  BY <1>1, <1>2, <1>3, ForwardingAssumption DEF ForwardingInit, ForwardingTypeOK
<1> QED BY <1>1, <1>4 DEF ForwardingInit, RegInv, Checked, ClaimsDisjoint

LEMMA RegCheckStep ==
  ASSUME RegInv, NEW t \in RegThread, NEW s \in Shape, NEW self \in SUBSET regs, RegCheck(t, s, self)
  PROVE  RegInv'
<1>1. regCall' = [regCall EXCEPT ![t] = Storing(s, self)] /\ regLock = "none" /\ regLock' = t
      /\ UNCHANGED <<regs, made, there, data, write>>
  BY DEF RegCheck, entVars
<1>2. Storing(s, self) \in RegCall /\ Storing(s, self).shape = {s} /\ Storing(s, self).old = self
  BY DEF Storing, RegCall, RegInv, ForwardingTypeOK
<1>3. regCall' \in [RegThread -> RegCall] /\ regCall'[t] = Storing(s, self)
      /\ \A u \in RegThread \ {t} : regCall'[u] = regCall[u] /\ regCall[u].pc # "store"
  BY <1>1, <1>2, ForwardingAssumption DEF RegInv, ForwardingTypeOK, Checked
<1>4. ForwardingTypeOK' BY <1>1, <1>2, <1>3 DEF RegInv, ForwardingTypeOK
<1>5. Authoritative(s) => ~CacheConflict(s, self) BY DEF RegCheck, RegConflictCheck
<1>6. Checked' BY <1>1, <1>2, <1>3, <1>5 DEF Checked, CacheConflict
<1> QED BY <1>1, <1>4, <1>6 DEF RegInv, ClaimsDisjoint

\* The call is over, whoever else had one has none that is checked
LEMMA UnlockFacts ==
  ASSUME RegInv, NEW t \in RegThread, regCall[t].pc = "store", RegUnlock(t)
  PROVE  /\ regCall' \in [RegThread -> RegCall] /\ regLock' = "none" /\ \A u \in RegThread : regCall'[u].pc # "store"
<1>1. NoRegCall \in RegCall /\ NoRegCall.pc # "store" BY DEF NoRegCall, RegCall
<1> QED BY <1>1 DEF RegUnlock, RegInv, ForwardingTypeOK, Checked

LEMMA StoredStep ==
  ASSUME RegInv, NEW t \in RegThread, RegistrationStored(t)
  PROVE  RegInv'
<1>1. PICK s \in Shape : regCall[t].shape = {s} BY DEF RegistrationStored, RegInv, ForwardingTypeOK
<1> DEFINE g == Item(s, made + 1)
           kept == regs \ regCall[t].old
<1>2. made \in Nat /\ made + 1 \in Nat BY DEF RegInv, ForwardingTypeOK
<1>3. g \in Registration /\ g.n = made + 1 /\ g.mode = s.mode /\ Claims(g) = Claims(s) /\ (Authoritative(g) <=> Authoritative(s))
  BY <1>2, ItemFacts
<1>4. regs' = kept \cup {g} /\ made' = made + 1 /\ UNCHANGED <<there, data, write>>
  BY <1>1 DEF RegistrationStored, entVars
<1>5. regCall' \in [RegThread -> RegCall] /\ regLock' = "none" /\ \A u \in RegThread : regCall'[u].pc # "store"
  BY UnlockFacts DEF RegistrationStored
<1>6. Authoritative(s) => \A h \in kept : BlockingMode(s.mode, h.mode) => Claims(s) \cap Claims(h) = {}
  BY <1>1 DEF RegistrationStored, RegInv, Checked, CacheConflict
<1> HIDE DEF g
<1>7. ForwardingTypeOK' BY <1>2, <1>3, <1>4, <1>5 DEF RegInv, ForwardingTypeOK
<1>8. ClaimsDisjoint'
  <2>1. \A h \in kept : g.mode = "exclusive" /\ Authoritative(h) => Claims(g) \cap Claims(h) = {}
    BY <1>3, <1>6 DEF Authoritative, BlockingMode
  <2>2. \A h \in kept : h.mode = "exclusive" /\ Authoritative(g) => Claims(h) \cap Claims(g) = {}
    BY <1>3, <1>6 DEF Authoritative, BlockingMode
  <2>3. \A x, y \in kept : x # y /\ x.mode = "exclusive" /\ Authoritative(y) => Claims(x) \cap Claims(y) = {}
    BY DEF RegInv, ClaimsDisjoint
  <2>4. \A x, y \in regs' : x # y /\ x.mode = "exclusive" /\ Authoritative(y) => Claims(x) \cap Claims(y) = {}
    BY <2>1, <2>2, <2>3, <1>4
  <2> QED BY <2>4 DEF ClaimsDisjoint, Claims, Authoritative
<1> QED BY <1>5, <1>7, <1>8 DEF RegInv, Checked

LEMMA NotStoredStep ==
  ASSUME RegInv, NEW t \in RegThread, RegistrationNotStored(t)
  PROVE  RegInv'
<1>1. regCall' \in [RegThread -> RegCall] /\ regLock' = "none" /\ \A u \in RegThread : regCall'[u].pc # "store"
  BY UnlockFacts DEF RegistrationNotStored
<1>2. UNCHANGED <<regs, made, there, data, write>> BY DEF RegistrationNotStored, entVars
<1> QED BY <1>1, <1>2 DEF RegInv, ForwardingTypeOK, Checked, ClaimsDisjoint

LEMMA DeleteStep ==
  ASSUME RegInv, NEW g \in regs, RegDelete(g)
  PROVE  RegInv'
<1>1. regs' \subseteq regs /\ regLock = "none" /\ UNCHANGED <<made, regLock, regCall, there, data, write>>
  BY DEF RegDelete, entVars
<1>2. \A t \in RegThread : regCall[t].pc # "store" BY <1>1, ForwardingAssumption DEF RegInv, Checked
<1> QED BY <1>1, <1>2 DEF RegInv, ForwardingTypeOK, Checked, ClaimsDisjoint

-----------------------------------------------------------------------------
(* Requests on the entity: types *)

\* A request's record after each of its steps
LEMMA RequestMatched ==
  ASSUME NEW c \in WriteRequest, NEW pc \in WritePc, NEW frag \in SUBSET Attr, NEW items \in SUBSET ItemType, NEW e \in BOOLEAN
  PROVE  [c EXCEPT !.pc = pc, !.frag = frag, !.items = items, !.errors = e] \in WriteRequest
BY DEF WriteRequest

LEMMA RequestSwept ==
  ASSUME NEW c \in WriteRequest, NEW pc \in WritePc, NEW frag \in SUBSET Attr, NEW silent \in SUBSET Attr
  PROVE  [c EXCEPT !.pc = pc, !.frag = frag, !.silent = silent] \in WriteRequest
BY DEF WriteRequest

LEMMA RequestSent ==
  ASSUME NEW c \in WriteRequest, NEW pc \in WritePc, NEW took \in SUBSET TookType, NEW e \in BOOLEAN, NEW silent \in SUBSET Attr
  PROVE  [c EXCEPT !.pc = pc, !.items = {}, !.took = took, !.errors = e, !.silent = silent] \in WriteRequest
BY DEF WriteRequest

LEMMA RequestDone ==
  ASSUME NEW c \in WriteRequest, NEW pc \in WritePc, NEW wrote \in SUBSET Attr, NEW status \in WriteStatus
  PROVE  [c EXCEPT !.pc = pc, !.wrote = wrote, !.status = status] \in WriteRequest
BY DEF WriteRequest

LEMMA InfoFacts ==
  ASSUME NEW g \in Registration, NEW op \in Op
  PROVE  /\ InfoOf(op, g) \subseteq DOMAIN g.info /\ DOMAIN g.info \subseteq Nat
         /\ \A i \in DOMAIN g.info : g.info[i] \subseteq Claims(g)
         /\ Claims(g) \subseteq Attr
<1>1. g.info \in Seq(SUBSET Attr) /\ g.info # <<>> BY DEF Registration
<1>2. 1 \in DOMAIN g.info /\ DOMAIN g.info = 1..Len(g.info) /\ Len(g.info) \in Nat BY <1>1
<1>3. \A i \in DOMAIN g.info : g.info[i] \subseteq Claims(g) BY DEF Claims
<1> QED BY <1>2, <1>3, ClaimsAreAttributes DEF InfoOf

\* What one mode's matches make of a fragment
LEMMA ClaimFacts ==
  ASSUME regs \subseteq Registration, NEW op \in Op, NEW m \in Mode, NEW frag \in SUBSET Attr
  PROVE  LET claim == Claim(op, m, frag)
         IN  /\ claim.frag \subseteq frag /\ claim.items \subseteq ItemType
             /\ m # "exclusive" => claim.frag = frag
             /\ \A e \in claim.items : e.reg \in regs /\ e.reg.mode = m /\ e.part \subseteq frag /\ e.part \subseteq Claims(e.reg)
             /\ \A g \in regs : g.mode = m /\ Asked(op, g) => \A i \in InfoOf(op, g) :
                  /\ m = "exclusive" => g.info[i] \cap claim.frag = {}
                  /\ m # "exclusive" => \E e \in claim.items : e.reg = g /\ Scope(e) = g.info[i] /\ e.part = g.info[i] \cap frag
<1> DEFINE claim == Claim(op, m, frag)
           E == Matched(op, m)
           Taken(e) == IF m = "exclusive" THEN Scopes({d \in E : Ahead(d, e)}) ELSE {}
           ItemOf(e) == [reg |-> e.reg, ix |-> e.ix, part |-> (Scope(e) \cap frag) \ Taken(e)]
<1>1. claim.frag = (IF m = "exclusive" THEN frag \ Scopes(E) ELSE frag) /\ claim.items = {ItemOf(e) : e \in E}
  BY DEF Claim
<1>2. \A e \in E : \E g \in regs : g.mode = m /\ \E i \in InfoOf(op, g) : e = [reg |-> g, ix |-> i]
  BY DEF Matched
<1>3. \A g \in regs : g.mode = m /\ Asked(op, g) => \A i \in InfoOf(op, g) : [reg |-> g, ix |-> i] \in E
  BY DEF Matched
<1>4. \A e \in E : /\ e.reg \in regs /\ e.reg.mode = m /\ e.ix \in Nat /\ Scope(e) \subseteq Claims(e.reg)
  BY <1>2, InfoFacts DEF Scope
<1>5. \A e \in E : Scope(e) \subseteq Scopes(E) BY DEF Scopes
<1> HIDE DEF E
<1>6. \A e \in E : ItemOf(e) \in ItemType BY <1>4 DEF ItemType
<1>7. \A e \in claim.items : e.reg \in regs /\ e.reg.mode = m /\ e.part \subseteq frag /\ e.part \subseteq Claims(e.reg)
  <2>1. \A e \in E : ItemOf(e).reg = e.reg /\ ItemOf(e).part \subseteq frag /\ ItemOf(e).part \subseteq Scope(e)
    OBVIOUS
  <2> HIDE DEF ItemOf
  <2> QED BY <2>1, <1>1, <1>4
<1>8. ASSUME NEW g \in regs, g.mode = m, Asked(op, g), NEW i \in InfoOf(op, g)
      PROVE  /\ m = "exclusive" => g.info[i] \cap claim.frag = {}
             /\ m # "exclusive" => \E e \in claim.items : e.reg = g /\ Scope(e) = g.info[i] /\ e.part = g.info[i] \cap frag
  <2> DEFINE e == [reg |-> g, ix |-> i]
  <2>1. e \in E /\ Scope(e) = g.info[i] BY <1>3, <1>8 DEF Scope
  <2>2. m = "exclusive" => g.info[i] \cap claim.frag = {} BY <1>1, <1>5, <2>1
  <2>3. ASSUME m # "exclusive" PROVE ItemOf(e) \in claim.items /\ ItemOf(e).reg = g /\ Scope(ItemOf(e)) = g.info[i] /\ ItemOf(e).part = g.info[i] \cap frag
    BY <1>1, <2>1, <2>3 DEF Scope
  <2> QED BY <2>2, <2>3
<1>9. claim.frag \subseteq frag /\ (m # "exclusive" => claim.frag = frag) BY <1>1
<1>10. claim.items \subseteq ItemType BY <1>1, <1>6
<1> QED BY <1>7, <1>8, <1>9, <1>10

LEMMA WriteBeginStep ==
  ASSUME RegInv, NEW op \in ForwardOp, NEW w \in SUBSET Attr, NEW only \in BOOLEAN, BeginWrite(op, w, only)
  PROVE  /\ RegInv' /\ UNCHANGED <<regs, made, there, data>>
         /\ Len(write') = Len(write) + 1 /\ DOMAIN write' = 1..(Len(write) + 1)
         /\ \A q \in DOMAIN write : write'[q] = write[q]
         /\ LET c == write'[Len(write) + 1]
            IN  /\ c.frag = w /\ c.items = {} /\ c.took = {} /\ c.wrote = {} /\ c.known = {g.n : g \in regs}
                /\ c.pc \in {"exclusive", "local", "done"}
                /\ c.pc = "local" => ~LocalConflict(w)
<1> DEFINE P == IF NowhereToUpdate(op, only) \/ (only /\ LocalConflict(w)) THEN "done"
                ELSE IF only THEN "local" ELSE "exclusive"
           S == IF NowhereToUpdate(op, only) THEN 404 ELSE IF only /\ LocalConflict(w) THEN 409 ELSE 0
           K == {g.n : g \in regs}
           c == [op |-> op, want |-> w, frag |-> w, existed |-> there, known |-> K, pc |-> P, status |-> S,
                 items |-> {}, errors |-> FALSE, took |-> {}, wrote |-> {}, silent |-> {}]
<1>1. write' = Append(write, c) /\ Len(write) < MaxWrite /\ UNCHANGED <<regs, made, regLock, regCall, there, data>>
  BY DEF BeginWrite, regVars, entVars
<1>2. K \in SUBSET Nat /\ op \in Op /\ there \in BOOLEAN BY ForwardingAssumption DEF RegInv, ForwardingTypeOK, Registration
<1>3. /\ P \in {"exclusive", "local", "done"} /\ P \in WritePc /\ S \in WriteStatus
      /\ P = "local" => ~LocalConflict(w)
      /\ P = "done" <=> S # 0
  BY DEF WritePc, Mode, WriteStatus
<1> HIDE DEF P, S, K
<1>4. c \in WriteRequest /\ c.frag = w /\ c.items = {} /\ c.took = {} /\ c.wrote = {} /\ c.known = K /\ c.want = w
      /\ c.pc = P /\ c.status = S
  <2>1. c \in WriteRequest BY <1>2, <1>3 DEF WriteRequest
  <2> QED BY <2>1
<1> HIDE DEF c
<1>5. write \in Seq(WriteRequest) /\ MaxWrite \in Nat BY ForwardingAssumption DEF RegInv, ForwardingTypeOK
<1>6. write' \in Seq(WriteRequest) /\ Len(write') = Len(write) + 1 /\ DOMAIN write' = 1..(Len(write) + 1)
      /\ write'[Len(write) + 1] = c /\ \A q \in DOMAIN write : write'[q] = write[q]
  BY <1>1, <1>4, <1>5
<1>7. \A q \in DOMAIN write' : q \in DOMAIN write \/ q = Len(write) + 1 BY <1>5, <1>6
<1>8. ForwardingTypeOK'
  <2> DEFINE Fits(e) == /\ e.wrote \subseteq e.frag /\ e.frag \subseteq e.want
                        /\ e.pc = "done" <=> e.status # 0
                        /\ e.pc # "done" => e.wrote = {}
  <2>1. \A q \in DOMAIN write : Fits(write[q]) BY DEF RegInv, ForwardingTypeOK
  <2>2. Fits(c) BY <1>3, <1>4
  <2> HIDE DEF Fits
  <2>3. \A q \in DOMAIN write' : Fits(write'[q]) BY <1>6, <1>7, <2>1, <2>2
  <2>4. Len(write') <= MaxWrite /\ Len(write) \in Nat BY <1>1, <1>5, <1>6
  <2> QED BY <1>1, <1>6, <2>3, <2>4 DEF RegInv, ForwardingTypeOK, Fits
<1>9. RegInv' BY <1>1, <1>8 DEF RegInv, Checked, CacheConflict, ClaimsDisjoint
<1> QED BY <1>1, <1>3, <1>4, <1>6, <1>9 DEF K

\* A step of a request leaves the registrations, and types, as they are
LEMMA UpdateStep ==
  ASSUME RegInv, NEW r \in DOMAIN write, NEW c \in WriteRequest, write' = [write EXCEPT ![r] = c], UNCHANGED regVars,
         there' \in BOOLEAN, data' \in [Attr -> 0..(MaxWrite + 1)],
         c.wrote \subseteq c.frag, c.frag \subseteq c.want, c.pc = "done" <=> c.status # 0, c.pc # "done" => c.wrote = {}
  PROVE  RegInv'
<1>1. UNCHANGED <<regs, made, regLock, regCall>> BY DEF regVars
<1>2. ForwardingTypeOK' BY <1>1, UpdateFacts DEF RegInv, ForwardingTypeOK
<1> QED BY <1>1, <1>2 DEF RegInv, Checked, CacheConflict, ClaimsDisjoint

LEMMA MatchTypes ==
  ASSUME RegInv, NEW r \in DOMAIN write, MatchMode(r)
  PROVE  LET c == write[r]
             claim == Claim(c.op, c.pc, c.frag)
             n == write'[r]
         IN  /\ RegInv' /\ UNCHANGED <<regs, made, there, data>> /\ DOMAIN write' = DOMAIN write /\ Len(write') = Len(write)
             /\ \A q \in DOMAIN write \ {r} : write'[q] = write[q]
             /\ n.op = c.op /\ n.known = c.known /\ n.took = c.took /\ n.wrote = c.wrote
             /\ n.pc = Following(c.op, c.pc) /\ n.frag = claim.frag /\ n.items = c.items \cup claim.items
             /\ c.pc \in Mode
<1> DEFINE c == write[r]
           claim == Claim(c.op, c.pc, c.frag)
           refused == \E g \in regs : c.op \in EntriesOp /\ g.mode = c.pc /\ Authoritative(g) /\ ~g.ops
           n == [c EXCEPT !.pc = Following(c.op, c.pc), !.frag = claim.frag, !.items = @ \cup claim.items, !.errors = @ \/ refused]
<1>1. c \in WriteRequest /\ c.op \in Op /\ c.frag \in SUBSET Attr /\ c.pc \in Mode /\ regs \subseteq Registration
      /\ write \in Seq(WriteRequest) /\ c.frag \subseteq c.want /\ c.wrote = {} /\ c.status = 0 /\ c.errors \in BOOLEAN
  <2>1. c.pc \in Mode BY DEF MatchMode
  <2>2. c \in WriteRequest BY WriteFacts DEF RegInv
  <2>3. c.pc # "done" BY <2>1 DEF Mode
  <2> QED BY <2>1, <2>2, <2>3 DEF WriteRequest, RegInv, ForwardingTypeOK
<1>2. write' = [write EXCEPT ![r].pc = Following(c.op, c.pc), ![r].frag = claim.frag,
                             ![r].items = @ \cup claim.items, ![r].errors = @ \/ refused]
      /\ UNCHANGED <<regVars, entVars>>
  BY DEF MatchMode
<1>3. claim.frag \subseteq c.frag /\ claim.items \subseteq ItemType BY <1>1, ClaimFacts
<1>4. (c.errors \/ refused) \in BOOLEAN OBVIOUS
<1> HIDE DEF claim, refused
<1>5. write' = [write EXCEPT ![r] = n] BY <1>1, <1>2
<1>6. Following(c.op, c.pc) \in WritePc \ {"done"} BY <1>1 DEF Following, WritePc, Mode
<1>7. n = [c EXCEPT !.pc = Following(c.op, c.pc), !.frag = claim.frag, !.items = c.items \cup claim.items,
                    !.errors = c.errors \/ refused]
  OBVIOUS
<1>8. n \in WriteRequest
  <2>1. claim.frag \in SUBSET Attr /\ (c.items \cup claim.items) \in SUBSET ItemType BY <1>1, <1>3 DEF WriteRequest
  <2> HIDE DEF c, n
  <2> QED BY <1>1, <1>4, <1>6, <1>7, <2>1, RequestMatched
<1>9. n.wrote = c.wrote /\ n.frag = claim.frag /\ n.want = c.want /\ n.status = c.status /\ n.pc = Following(c.op, c.pc)
      /\ n.op = c.op /\ n.known = c.known /\ n.took = c.took /\ n.items = c.items \cup claim.items
  BY <1>1, <1>7 DEF WriteRequest
<1> HIDE DEF n
<1>10. RegInv'
  <2>1. UNCHANGED <<regVars, there, data>> BY <1>2 DEF entVars
  <2>2. there' \in BOOLEAN /\ data' \in [Attr -> 0..(MaxWrite + 1)] BY <2>1 DEF RegInv, ForwardingTypeOK
  <2>3. n.wrote \subseteq n.frag /\ n.frag \subseteq n.want /\ n.pc # "done" /\ n.status = 0 /\ n.wrote = {}
    BY <1>1, <1>3, <1>6, <1>9
  <2> QED BY <1>5, <1>8, <2>1, <2>2, <2>3, UpdateStep
<1>11. UNCHANGED <<regs, made, there, data>> BY <1>2 DEF regVars, entVars
<1> QED BY <1>1, <1>5, <1>8, <1>9, <1>10, <1>11, UpdateFacts DEF RegInv, claim

LEMMA SweepTypes ==
  ASSUME RegInv, NEW r \in DOMAIN write, SweepRedirects(r)
  PROVE  LET c == write[r]
             n == write'[r]
         IN  /\ RegInv' /\ UNCHANGED <<regs, made, there, data>> /\ DOMAIN write' = DOMAIN write /\ Len(write') = Len(write)
             /\ \A q \in DOMAIN write \ {r} : write'[q] = write[q]
             /\ n.op = c.op /\ n.known = c.known /\ n.took = c.took /\ n.wrote = c.wrote /\ n.items = c.items
             /\ n.pc = Following(c.op, "sweep") /\ n.frag = c.frag \ Swept(r) /\ c.pc = "sweep"
<1> DEFINE c == write[r]
           out == Swept(r)
           swept == SweptForNobody(r)
           pc == Following(c.op, "sweep")
           silent == c.silent \cup swept
           frag == c.frag \ out
           n == [c EXCEPT !.pc = pc, !.frag = frag, !.silent = silent]
<1>1. c \in WriteRequest /\ c.pc = "sweep" /\ c.frag \in SUBSET Attr /\ c.silent \in SUBSET Attr /\ c.frag \subseteq c.want
      /\ c.wrote = {} /\ c.status = 0 /\ write \in Seq(WriteRequest)
  BY WriteFacts DEF RegInv, ForwardingTypeOK, WriteRequest, SweepRedirects, At
<1>2. write' = [write EXCEPT ![r].pc = pc, ![r].frag = @ \ out, ![r].silent = @ \cup swept] /\ UNCHANGED <<regVars, entVars>>
  BY DEF SweepRedirects
<1>3. frag \in SUBSET Attr /\ silent \in SUBSET Attr /\ frag \subseteq c.frag BY <1>1 DEF SweptForNobody
<1>4. pc \in WritePc \ {"done"} BY DEF Following, WritePc, Mode
<1> HIDE DEF out, swept, pc
<1>5. write' = [write EXCEPT ![r] = n] BY <1>1, <1>2
<1> HIDE DEF silent, frag
<1>6. n \in WriteRequest BY <1>1, <1>3, <1>4, RequestSwept
<1>7. n.wrote = c.wrote /\ n.frag = frag /\ n.want = c.want /\ n.status = c.status /\ n.pc = pc /\ n.op = c.op
      /\ n.known = c.known /\ n.took = c.took /\ n.items = c.items
  BY <1>1 DEF WriteRequest
<1> HIDE DEF n
<1>8. RegInv'
  <2>1. UNCHANGED <<regVars, there, data>> BY <1>2 DEF entVars
  <2>2. there' \in BOOLEAN /\ data' \in [Attr -> 0..(MaxWrite + 1)] BY <2>1 DEF RegInv, ForwardingTypeOK
  <2>3. n.wrote \subseteq n.frag /\ n.frag \subseteq n.want /\ n.pc # "done" /\ n.status = 0 /\ n.wrote = {}
    BY <1>1, <1>3, <1>4, <1>7
  <2> QED BY <1>5, <1>6, <2>1, <2>2, <2>3, UpdateStep
<1>9. UNCHANGED <<regs, made, there, data>> BY <1>2 DEF regVars, entVars
<1> QED BY <1>1, <1>5, <1>6, <1>7, <1>8, <1>9, UpdateFacts DEF RegInv, frag, out, pc

LEMMA PartsAreAttributes == \A E \in SUBSET ItemType : Parts(E) \in SUBSET Attr
BY DEF Parts, ItemType

LEMMA ForwardTypes ==
  ASSUME RegInv, NEW r \in DOMAIN write, NEW answer, Forward(r, answer)
  PROVE  LET c == write[r]
             n == write'[r]
         IN  /\ RegInv' /\ UNCHANGED <<regs, made, there, data>> /\ DOMAIN write' = DOMAIN write /\ Len(write') = Len(write)
             /\ \A q \in DOMAIN write \ {r} : write'[q] = write[q]
             /\ n.op = c.op /\ n.known = c.known /\ n.wrote = c.wrote /\ n.frag = c.frag /\ n.items = {}
             /\ \A x \in n.took : \E e \in c.items : x.n = e.reg.n /\ x.part = e.part
             /\ n.pc = "local" /\ c.pc = "send"
<1> DEFINE c == write[r]
           ok == {e \in Sent(r) : answer[e] = "ok"}
           gone == {e \in Sent(r) : answer[e] = "gone" /\ GoneIsFine(c.op)}
           looped == {e \in c.items : c.op \in EntriesOp /\ Authoritative(e.reg) /\ e.reg.loop}
           took == {[n |-> e.reg.n, part |-> e.part] : e \in ok}
           refused == c.errors \/ Unasked(r) # {} \/ Sent(r) \ (ok \cup gone) # {}
           silent == c.silent \cup Parts(gone) \cup Parts(looped)
           n == [c EXCEPT !.pc = "local", !.items = {}, !.took = took, !.errors = refused, !.silent = silent]
<1>1. c \in WriteRequest /\ c.pc = "send" /\ c.frag \subseteq c.want /\ c.wrote = {} /\ c.status = 0 /\ write \in Seq(WriteRequest)
      /\ c.items \in SUBSET ItemType /\ c.silent \in SUBSET Attr /\ c.errors \in BOOLEAN
  <2>1. c.pc = "send" BY DEF Forward, At
  <2>2. c \in WriteRequest /\ write \in Seq(WriteRequest) BY WriteFacts DEF RegInv, ForwardingTypeOK
  <2>3. c.frag \subseteq c.want /\ c.wrote = {} /\ c.status = 0 BY <2>1, <2>2 DEF RegInv, ForwardingTypeOK, WriteRequest
  <2>4. c.items \in SUBSET ItemType /\ c.silent \in SUBSET Attr /\ c.errors \in BOOLEAN BY <2>2 DEF WriteRequest
  <2> QED BY <2>1, <2>2, <2>3, <2>4
<1>2. write' = [write EXCEPT ![r].pc = "local", ![r].items = {}, ![r].took = took,
                             ![r].errors = @ \/ Unasked(r) # {} \/ Sent(r) \ (ok \cup gone) # {},
                             ![r].silent = @ \cup Parts(gone) \cup Parts(looped)]
      /\ UNCHANGED <<regVars, entVars>>
  BY DEF Forward
<1>3. Sent(r) \subseteq c.items /\ ok \in SUBSET ItemType /\ gone \in SUBSET ItemType /\ looped \in SUBSET ItemType
      /\ ok \subseteq c.items
  BY <1>1 DEF Sent, Kept
<1> HIDE DEF ok, gone, looped
<1>4. \A e \in ItemType : [n |-> e.reg.n, part |-> e.part] \in TookType BY DEF ItemType, TookType, Registration
<1>5. took \in SUBSET TookType BY <1>3, <1>4
<1>6. \A x \in took : \E e \in c.items : x.n = e.reg.n /\ x.part = e.part BY <1>3
<1>7. silent \in SUBSET Attr BY <1>1, <1>3, PartsAreAttributes
<1>8. refused \in BOOLEAN OBVIOUS
<1> HIDE DEF took
<1>9. write' = [write EXCEPT ![r] = n] BY <1>1, <1>2
<1> HIDE DEF refused, silent
<1>10. n \in WriteRequest BY <1>1, <1>5, <1>7, <1>8, RequestSent DEF WritePc
<1>11. n.wrote = c.wrote /\ n.frag = c.frag /\ n.want = c.want /\ n.status = c.status /\ n.pc = "local" /\ n.op = c.op
       /\ n.known = c.known /\ n.took = took /\ n.items = {}
  BY <1>1 DEF WriteRequest
<1> HIDE DEF n
<1>12. RegInv'
  <2>1. UNCHANGED <<regVars, there, data>> BY <1>2 DEF entVars
  <2>2. there' \in BOOLEAN /\ data' \in [Attr -> 0..(MaxWrite + 1)] BY <2>1 DEF RegInv, ForwardingTypeOK
  <2> QED BY <1>1, <1>9, <1>10, <1>11, <2>1, <2>2, UpdateStep
<1>13. UNCHANGED <<regs, made, there, data>> BY <1>2 DEF regVars, entVars
<1> QED BY <1>1, <1>6, <1>9, <1>10, <1>11, <1>12, <1>13, UpdateFacts DEF RegInv

LEMMA LocalTypes ==
  ASSUME RegInv, NEW r \in DOMAIN write, WriteLocal(r)
  PROVE  LET c == write[r]
             n == write'[r]
         IN  /\ RegInv' /\ UNCHANGED <<regs, made>> /\ DOMAIN write' = DOMAIN write /\ Len(write') = Len(write)
             /\ \A q \in DOMAIN write \ {r} : write'[q] = write[q]
             /\ n.op = c.op /\ n.known = c.known /\ n.took = c.took /\ n.frag = c.frag /\ n.items = c.items
             /\ n.wrote \subseteq c.frag /\ n.pc = "done" /\ c.pc = "local"
             /\ \A a \in Attr : (a \in n.wrote /\ data'[a] = Stamp(r)) \/ data'[a] = Absent \/ data'[a] = data[a]
<1> DEFINE c == write[r]
           wrote == IF Writes(c) THEN c.frag ELSE {}
           status == Status(c, c.errors \/ LocalError(c), c.took # {} \/ Writes(c))
           n == [c EXCEPT !.pc = "done", !.wrote = wrote, !.status = status]
<1>1. c \in WriteRequest /\ c.pc = "local" /\ c.frag \subseteq c.want /\ c.wrote = {} /\ write \in Seq(WriteRequest)
      /\ c.frag \in SUBSET Attr /\ Stamp(r) \in 0..(MaxWrite + 1) /\ Absent \in 0..(MaxWrite + 1)
  <2>1. c.pc = "local" BY DEF WriteLocal, At
  <2>2. Stamp(r) \in 0..(MaxWrite + 1) /\ Absent \in 0..(MaxWrite + 1)
    BY WriteFacts, ForwardingAssumption DEF RegInv, Stamp, Absent
  <2> QED BY <2>1, <2>2, WriteFacts DEF RegInv, ForwardingTypeOK, WriteRequest
<1>2. write' = [write EXCEPT ![r].pc = "done", ![r].wrote = wrote, ![r].status = status] /\ UNCHANGED regVars
      /\ there' = (there \/ Writes(c))
      /\ data' = [a \in Attr |-> IF a \in wrote THEN Stamp(r)
                                  ELSE IF Writes(c) /\ (Creates(c) \/ Replaces(c)) THEN Absent ELSE data[a]]
  BY DEF WriteLocal
<1>3. status \in WriteStatus /\ status # 0 /\ "done" \in WritePc BY DEF Status, WriteStatus, WritePc
<1>4. wrote \in SUBSET Attr /\ wrote \subseteq c.frag BY <1>1
<1> HIDE DEF wrote, status
<1>5. write' = [write EXCEPT ![r] = n] BY <1>1, <1>2
<1>6. n \in WriteRequest BY <1>1, <1>3, <1>4, RequestDone
<1>7. n.wrote = wrote /\ n.frag = c.frag /\ n.want = c.want /\ n.status = status /\ n.pc = "done" /\ n.op = c.op
      /\ n.known = c.known /\ n.took = c.took /\ n.items = c.items
  BY <1>1 DEF WriteRequest
<1> HIDE DEF n
<1>8. \A a \in Attr : (a \in wrote /\ data'[a] = Stamp(r)) \/ data'[a] = Absent \/ data'[a] = data[a] BY <1>2
<1>9. data' \in [Attr -> 0..(MaxWrite + 1)] BY <1>1, <1>2 DEF RegInv, ForwardingTypeOK
<1>10. there' \in BOOLEAN BY <1>2
<1>11. RegInv'
  <2>1. n.wrote \subseteq n.frag /\ n.frag \subseteq n.want /\ n.pc = "done" /\ n.status # 0 BY <1>1, <1>3, <1>4, <1>7
  <2>2. UNCHANGED regVars BY <1>2
  <2> QED BY <1>5, <1>6, <1>9, <1>10, <2>1, <2>2, UpdateStep
<1>12. UNCHANGED <<regs, made>> BY <1>2 DEF regVars
<1> QED BY <1>1, <1>4, <1>5, <1>6, <1>7, <1>8, <1>11, <1>12, UpdateFacts DEF RegInv

-----------------------------------------------------------------------------
(* Claims are honoured *)

LEMMA ModesDiffer == Mode = {"exclusive", "redirect", "inclusive"} /\ \A g : Authoritative(g) <=> g.mode \in {"exclusive", "redirect"}
BY DEF Mode, Authoritative

LEMMA HonoursInit == ForwardingInit => HonourInv
<1> SUFFICES ASSUME ForwardingInit PROVE HonourInv OBVIOUS
<1>1. RegInv BY RegInit
<1>2. DOMAIN write = {} /\ Len(write) = 0 /\ \A a \in Attr : data[a] \in {0, 1}
  BY DEF ForwardingInit, Absent, Original
<1> QED BY <1>1, <1>2 DEF HonourInv, KnownMade, StampsDone, NotStampedAhead, Honours

\* A request that takes no step is honoured as before
LEMMA SameRequest ==
  ASSUME Honours, NEW q \in DOMAIN write, q \in DOMAIN write', write'[q] = write[q], Standing(q)' \subseteq Standing(q)
  PROVE  \A g \in Standing(q)' : FragmentLacks(q, g)' /\ ItemsHave(q, g)'
BY DEF Honours, FragmentLacks, ItemsHave, Owed, PassedOver, Claims, SweptBy, Scope

\* Registrations come, with new numbers, and go
LEMMA RegistrationsHonour ==
  ASSUME HonourInv, RegInv', UNCHANGED <<data, write>>, made' >= made, \A g \in regs' : g \in regs \/ g.n > made
  PROVE  HonourInv'
<1>1. made \in Nat /\ made' \in Nat /\ \A r \in DOMAIN write : write[r].known \in SUBSET Nat
  BY WriteFacts DEF HonourInv, RegInv, ForwardingTypeOK, WriteRequest
<1>2. KnownMade' BY <1>1 DEF HonourInv, KnownMade
<1>3. \A r \in DOMAIN write : Standing(r)' \subseteq Standing(r)
  BY <1>1 DEF HonourInv, RegInv, ForwardingTypeOK, KnownMade, Standing, Authoritative, Registration
<1>4. Honours'
  <2>1. \A r \in DOMAIN write : \A g \in Standing(r)' : FragmentLacks(r, g)' /\ ItemsHave(r, g)'
    BY <1>3, SameRequest DEF HonourInv
  <2> QED BY <2>1 DEF Honours
<1>5. StampsDone' /\ NotStampedAhead' BY DEF HonourInv, StampsDone, NotStampedAhead, Stamp
<1> QED BY <1>2, <1>4, <1>5 DEF HonourInv

LEMMA BeginHonours ==
  ASSUME HonourInv, NEW op \in ForwardOp, NEW w \in SUBSET Attr, NEW only \in BOOLEAN, BeginWrite(op, w, only)
  PROVE  HonourInv'
<1>0. PICK N \in Nat : N = Len(write) + 1 BY WriteFacts DEF HonourInv, RegInv
<1> DEFINE c == write'[N]
<1>1. /\ RegInv' /\ UNCHANGED <<regs, made, there, data>> /\ Len(write') = N /\ DOMAIN write' = 1..N
      /\ \A q \in DOMAIN write : write'[q] = write[q]
      /\ c.frag = w /\ c.items = {} /\ c.took = {} /\ c.wrote = {} /\ c.known = {g.n : g \in regs}
      /\ c.pc \in {"exclusive", "local", "done"} /\ (c.pc = "local" => ~LocalConflict(w))
  BY <1>0, WriteBeginStep DEF HonourInv
<1>2. DOMAIN write = 1..Len(write) /\ Len(write) \in Nat BY WriteFacts DEF HonourInv, RegInv
<1>3. \A q \in DOMAIN write' : q \in DOMAIN write \/ q = N BY <1>0, <1>1, <1>2
<1> HIDE DEF c
<1>4. KnownMade'
  <2>1. \A n \in c.known : n <= made BY <1>1 DEF HonourInv, RegInv, ForwardingTypeOK
  <2>2. \A q \in DOMAIN write : \A n \in write[q].known : n <= made BY DEF HonourInv, KnownMade
  <2> QED BY <1>1, <1>3, <2>1, <2>2 DEF KnownMade, c
<1>5. \A a \in Attr : data[a] \in Nat /\ data[a] <= N BY <1>0, <1>2 DEF HonourInv, RegInv, ForwardingTypeOK, NotStampedAhead
<1>6. StampsDone' /\ NotStampedAhead' BY <1>0, <1>1, <1>2, <1>3, <1>5 DEF HonourInv, StampsDone, NotStampedAhead, Stamp
<1>7. ASSUME NEW g \in Standing(N)' PROVE FragmentLacks(N, g)' /\ ItemsHave(N, g)'
  <2>1. g \in regs /\ Authoritative(g) BY <1>1, <1>7 DEF Standing, Authoritative
  <2>2. c.pc = "local" => Claims(g) \cap w = {} BY <1>1, <2>1 DEF LocalConflict
  <2>3. FragmentLacks(N, g)' BY <1>1, <2>2 DEF FragmentLacks, Owed, Claims, SweptBy, c
  <2>4. ItemsHave(N, g)' BY <1>1 DEF ItemsHave, c
  <2> QED BY <2>3, <2>4
<1>8. ASSUME NEW q \in DOMAIN write PROVE \A g \in Standing(q)' : FragmentLacks(q, g)' /\ ItemsHave(q, g)'
  <2>1. q \in DOMAIN write' /\ write'[q] = write[q] /\ Standing(q)' \subseteq Standing(q)
    BY <1>0, <1>1, <1>2 DEF Standing, Authoritative
  <2> QED BY <2>1, SameRequest DEF HonourInv
<1>9. Honours' BY <1>3, <1>7, <1>8 DEF Honours
<1> QED BY <1>1, <1>4, <1>6, <1>9 DEF HonourInv

\* What a request is to leave is among what is looked at for the request, of a source that is asked
LEMMA OwedIsAsked ==
  ASSUME NEW r \in DOMAIN write, NEW g \in Registration, NEW a \in Owed(r, g),
         g.mode = "exclusive" \/ write[r].op \notin BatchOp
  PROVE  Asked(write[r].op, g) /\ \E i \in InfoOf(write[r].op, g) : a \in g.info[i]
<1>1. PICK i \in DOMAIN g.info : a \in g.info[i] BY DEF Owed, Claims
<1>2. Asked(write[r].op, g) BY DEF Owed, PassedOver, Asked, BatchOp, EntriesOp
<1>3. write[r].op = "batchCreate" => a \in g.info[1] BY DEF Owed, PassedOver, BatchOp
<1> QED BY <1>1, <1>2, <1>3 DEF InfoOf

\* What the others and their stamps are left with, when one request takes a step and writes nothing
LEMMA StepHonours ==
  ASSUME HonourInv, NEW r \in DOMAIN write, RegInv', UNCHANGED <<regs, made>>, DOMAIN write' = DOMAIN write, Len(write') = Len(write),
         \A q \in DOMAIN write \ {r} : write'[q] = write[q], write'[r].known = write[r].known,
         StampsDone', NotStampedAhead', \A g \in Standing(r) : FragmentLacks(r, g)' /\ ItemsHave(r, g)'
  PROVE  HonourInv'
<1>1. \A q \in DOMAIN write : write'[q].known = write[q].known OBVIOUS
<1>2. KnownMade' BY <1>1 DEF HonourInv, KnownMade
<1>3. \A q \in DOMAIN write : Standing(q)' = Standing(q) BY <1>1 DEF Standing, Authoritative
<1>4. \A q \in DOMAIN write \ {r} : \A g \in Standing(q)' : FragmentLacks(q, g)' /\ ItemsHave(q, g)'
  BY <1>3, SameRequest DEF HonourInv
<1>5. Honours' BY <1>3, <1>4 DEF Honours
<1> QED BY <1>2, <1>5 DEF HonourInv

\* A request that is not over, nor gets to be, stamps nothing
LEMMA NothingStamped ==
  ASSUME HonourInv, NEW r \in DOMAIN write, DOMAIN write' = DOMAIN write, Len(write') = Len(write), UNCHANGED data,
         \A q \in DOMAIN write \ {r} : write'[q] = write[q], write[r].pc # "done"
  PROVE  StampsDone' /\ NotStampedAhead'
BY DEF HonourInv, StampsDone, NotStampedAhead, Stamp

\* Its claims, owed or not, are the same after a step of the request
LEMMA OwedStays ==
  ASSUME NEW r \in DOMAIN write, write'[r].op = write[r].op, NEW g
  PROVE  Owed(r, g)' = Owed(r, g)
BY DEF Owed, PassedOver, Claims

LEMMA StandingFacts ==
  ASSUME RegInv, NEW r \in DOMAIN write, NEW g \in Standing(r)
  PROVE  g \in regs /\ g \in Registration /\ Authoritative(g) /\ Claims(g) \subseteq Attr /\ g.mode \in {"exclusive", "redirect"}
BY ClaimsAreAttributes, ModesDiffer DEF Standing, RegInv, ForwardingTypeOK

LEMMA FollowingFacts ==
  /\ \A op \in Op : /\ Following(op, "exclusive") = "redirect"
                    /\ op \in BatchOp => /\ Following(op, "redirect") = "sweep" /\ Following(op, "sweep") = "inclusive"
                                        /\ Following(op, "inclusive") = "send"
                    /\ op \notin BatchOp => /\ Following(op, "redirect") = "inclusive" /\ Following(op, "inclusive") = "sweep"
                                           /\ Following(op, "sweep") = "send"
BY DEF Following

LEMMA MatchHonours ==
  ASSUME HonourInv, NEW r \in DOMAIN write, MatchMode(r)
  PROVE  HonourInv'
<1> DEFINE c == write[r]
           n == write'[r]
           claim == Claim(c.op, c.pc, c.frag)
<1>1. /\ RegInv' /\ UNCHANGED <<regs, made, there, data>> /\ DOMAIN write' = DOMAIN write /\ Len(write') = Len(write)
      /\ \A q \in DOMAIN write \ {r} : write'[q] = write[q]
      /\ n.op = c.op /\ n.known = c.known /\ n.took = c.took /\ n.wrote = c.wrote
      /\ n.pc = Following(c.op, c.pc) /\ n.frag = claim.frag /\ n.items = c.items \cup claim.items
      /\ c.pc \in Mode
  BY MatchTypes DEF HonourInv
<1>2. c.op \in Op /\ c.frag \in SUBSET Attr /\ regs \subseteq Registration
  BY WriteFacts DEF HonourInv, RegInv, ForwardingTypeOK, WriteRequest
<1>3. /\ claim.frag \subseteq c.frag
      /\ c.pc # "exclusive" => claim.frag = c.frag
      /\ \A e \in claim.items : e.reg \in regs /\ e.reg.mode = c.pc /\ e.part \subseteq c.frag /\ e.part \subseteq Claims(e.reg)
      /\ \A g \in regs : g.mode = c.pc /\ Asked(c.op, g) => \A i \in InfoOf(c.op, g) :
           /\ c.pc = "exclusive" => g.info[i] \cap claim.frag = {}
           /\ c.pc # "exclusive" => \E e \in claim.items : e.reg = g /\ Scope(e) = g.info[i] /\ e.part = g.info[i] \cap c.frag
  BY <1>1, <1>2, ClaimFacts
<1> HIDE DEF claim
<1>4. n.pc # "done" /\ n.pc # "exclusive" /\ c.pc # "done"
      /\ (c.pc = "exclusive" => n.pc = "redirect")
      /\ (c.pc = "redirect" => n.pc = IF c.op \in BatchOp THEN "sweep" ELSE "inclusive")
      /\ (c.pc = "inclusive" => n.pc = IF c.op \in BatchOp THEN "send" ELSE "sweep")
      /\ c.pc \in {"exclusive", "redirect", "inclusive"}
  BY <1>1, <1>2, FollowingFacts DEF Mode
<1>5. ASSUME NEW g \in Standing(r) PROVE FragmentLacks(r, g)' /\ ItemsHave(r, g)'
  <2>1. g \in regs /\ g \in Registration /\ Authoritative(g) /\ g.mode \in {"exclusive", "redirect"}
    BY StandingFacts DEF HonourInv
  <2>2. Owed(r, g)' = Owed(r, g) BY <1>1, OwedStays
  <2>3. FragmentLacks(r, g) /\ ItemsHave(r, g) BY DEF HonourInv, Honours
  <2>4. ASSUME NEW a \in Owed(r, g), g.mode = "exclusive" PROVE a \notin n.frag
    <3>1. CASE c.pc = "exclusive" BY <1>1, <1>3, <2>1, <2>4, <3>1, OwedIsAsked
    <3>2. CASE c.pc # "exclusive" BY <1>1, <1>3, <1>4, <2>3, <2>4, <3>2 DEF FragmentLacks
    <3> QED BY <3>1, <3>2
  <2>5. ASSUME NEW a \in Owed(r, g), g.mode = "redirect", SweptBy(r)' PROVE a \notin n.frag
    <3>1. SweptBy(r) BY <1>1, <1>4, <2>5 DEF SweptBy
    <3> QED BY <1>1, <1>3, <2>3, <2>5, <3>1 DEF FragmentLacks
  <2>6. FragmentLacks(r, g)' BY <1>4, <2>2, <2>4, <2>5 DEF FragmentLacks
  <2>7. ASSUME g.mode = "exclusive", NEW a \in Owed(r, g), NEW e \in n.items, a \in e.part PROVE e.reg.n = g.n
    <3>1. CASE e \in c.items BY <2>3, <2>7, <3>1 DEF ItemsHave
    <3>2. CASE e \in claim.items /\ c.pc = "exclusive"
      <4>1. e.reg \in regs /\ e.reg.mode = "exclusive" /\ a \in Claims(e.reg) BY <1>3, <2>7, <3>2
      <4>2. a \in Claims(g) BY DEF Owed
      <4> QED BY <4>1, <4>2, <2>1, <2>7 DEF HonourInv, RegInv, ClaimsDisjoint
    <3>3. CASE e \in claim.items /\ c.pc # "exclusive"
      <4>1. a \in c.frag BY <1>3, <2>7, <3>3
      <4> QED BY <4>1, <1>4, <2>3, <2>7, <3>3 DEF FragmentLacks
    <3> QED BY <1>1, <2>7, <3>1, <3>2, <3>3
  <2>8. g.mode = "exclusive" => \A a \in Owed(r, g) : \A e \in n.took : a \in e.part => e.n = g.n
    BY <1>1, <2>3 DEF ItemsHave
  <2>9. ASSUME g.mode = "redirect", c.op \notin BatchOp, n.pc \in {"inclusive", "sweep"}, NEW a \in Owed(r, g), a \in n.frag
        PROVE  \E e \in n.items : e.reg = g /\ a \in Scope(e) /\ a \in e.part
    <3>1. CASE c.pc = "redirect"
      <4>1. PICK i \in InfoOf(c.op, g) : a \in g.info[i] /\ Asked(c.op, g) BY <2>1, <2>9, OwedIsAsked
      <4>2. PICK e \in claim.items : e.reg = g /\ Scope(e) = g.info[i] /\ e.part = g.info[i] \cap c.frag
        BY <1>3, <2>1, <2>9, <3>1, <4>1
      <4> QED BY <1>1, <1>3, <2>9, <4>1, <4>2
    <3>2. CASE c.pc = "inclusive" BY <1>1, <1>3, <2>3, <2>9, <3>2 DEF ItemsHave
    <3> QED BY <1>4, <2>9, <3>1, <3>2
  <2>10. ItemsHave(r, g)'
    BY <1>1, <2>2, <2>7, <2>8, <2>9 DEF ItemsHave, Scope
  <2> QED BY <2>6, <2>10
<1>6. StampsDone' /\ NotStampedAhead' BY <1>1, <1>4, NothingStamped
<1> QED BY <1>1, <1>5, <1>6, StepHonours

LEMMA SweepHonours ==
  ASSUME HonourInv, NEW r \in DOMAIN write, SweepRedirects(r)
  PROVE  HonourInv'
<1> DEFINE c == write[r]
           n == write'[r]
<1>1. /\ RegInv' /\ UNCHANGED <<regs, made, there, data>> /\ DOMAIN write' = DOMAIN write /\ Len(write') = Len(write)
      /\ \A q \in DOMAIN write \ {r} : write'[q] = write[q]
      /\ n.op = c.op /\ n.known = c.known /\ n.took = c.took /\ n.wrote = c.wrote /\ n.items = c.items
      /\ n.pc = Following(c.op, "sweep") /\ n.frag = c.frag \ Swept(r) /\ c.pc = "sweep"
  BY SweepTypes DEF HonourInv
<1>2. c.op \in Op BY WriteFacts DEF HonourInv, RegInv, WriteRequest
<1>3. n.pc = IF c.op \in BatchOp THEN "inclusive" ELSE "send" BY <1>1, <1>2, FollowingFacts
<1>4. ASSUME NEW g \in Standing(r) PROVE FragmentLacks(r, g)' /\ ItemsHave(r, g)'
  <2>1. g \in regs /\ Authoritative(g) /\ g.mode \in {"exclusive", "redirect"} BY StandingFacts DEF HonourInv
  <2>2. Owed(r, g)' = Owed(r, g) BY <1>1, OwedStays
  <2>3. FragmentLacks(r, g) /\ ItemsHave(r, g) BY DEF HonourInv, Honours
  <2>4. ASSUME NEW a \in Owed(r, g), g.mode = "redirect" PROVE a \notin n.frag
    <3>1. SUFFICES ASSUME a \in c.frag PROVE a \in Swept(r) BY <1>1
    <3>2. CASE c.op \in BatchOp
      <4>1. ~g.loop /\ a \in Claims(g) BY <3>2 DEF Owed, PassedOver
      <4>2. c.op \notin OwnOp /\ c.op \notin EntriesOp BY <3>2 DEF OwnOp, EntriesOp, BatchOp
      <4> QED BY <2>1, <2>4, <4>1, <4>2 DEF Swept
    <3>3. CASE c.op \notin BatchOp
      <4>1. PICK e \in c.items : e.reg = g /\ a \in Scope(e) /\ a \in e.part
        BY <1>1, <2>3, <2>4, <3>1, <3>3 DEF ItemsHave
      <4>2. e \in Redirects(r) BY <2>4, <4>1 DEF Redirects
      <4>3. CASE c.op \in OwnOp
        <5>1. a \in Scopes(Redirects(r)) BY <4>1, <4>2 DEF Scopes
        <5>2. c.op \notin EntriesOp BY <4>3 DEF OwnOp, EntriesOp
        <5> QED BY <4>3, <5>1, <5>2 DEF Swept
      <4>4. CASE c.op \in EntriesOp
        <5>1. ~g.loop BY <2>4, <4>4 DEF Owed, PassedOver
        <5>2. StillInArray(r, e) BY <4>1, <5>1 DEF StillInArray, Kept
        <5>3. c.op \notin OwnOp BY <4>4 DEF OwnOp, EntriesOp
        <5> QED BY <4>1, <4>2, <4>4, <5>2, <5>3 DEF Swept, Scopes
      <4> QED BY <1>2, <3>3, <4>3, <4>4 DEF Op
    <3> QED BY <3>2, <3>3
  <2>5. FragmentLacks(r, g)' BY <1>1, <1>3, <2>2, <2>3, <2>4 DEF FragmentLacks
  <2>6. ItemsHave(r, g)' BY <1>1, <1>3, <2>2, <2>3 DEF ItemsHave
  <2> QED BY <2>5, <2>6
<1>5. StampsDone' /\ NotStampedAhead' BY <1>1, NothingStamped
<1> QED BY <1>1, <1>4, <1>5, StepHonours

LEMMA ForwardHonours ==
  ASSUME HonourInv, NEW r \in DOMAIN write, NEW answer, Forward(r, answer)
  PROVE  HonourInv'
<1> DEFINE c == write[r]
           n == write'[r]
<1>1. /\ RegInv' /\ UNCHANGED <<regs, made, there, data>> /\ DOMAIN write' = DOMAIN write /\ Len(write') = Len(write)
      /\ \A q \in DOMAIN write \ {r} : write'[q] = write[q]
      /\ n.op = c.op /\ n.known = c.known /\ n.wrote = c.wrote /\ n.frag = c.frag /\ n.items = {}
      /\ \A x \in n.took : \E e \in c.items : x.n = e.reg.n /\ x.part = e.part
      /\ n.pc = "local" /\ c.pc = "send"
  BY ForwardTypes DEF HonourInv
<1>2. ASSUME NEW g \in Standing(r) PROVE FragmentLacks(r, g)' /\ ItemsHave(r, g)'
  <2>1. Owed(r, g)' = Owed(r, g) BY <1>1, OwedStays
  <2>2. FragmentLacks(r, g) /\ ItemsHave(r, g) BY DEF HonourInv, Honours
  <2>3. FragmentLacks(r, g)' BY <1>1, <2>1, <2>2 DEF FragmentLacks, SweptBy
  <2>4. ItemsHave(r, g)' BY <1>1, <2>1, <2>2 DEF ItemsHave
  <2> QED BY <2>3, <2>4
<1>3. StampsDone' /\ NotStampedAhead' BY <1>1, NothingStamped
<1> QED BY <1>1, <1>2, <1>3, StepHonours

LEMMA LocalHonours ==
  ASSUME HonourInv, NEW r \in DOMAIN write, WriteLocal(r)
  PROVE  HonourInv'
<1> DEFINE c == write[r]
           n == write'[r]
<1>1. /\ RegInv' /\ UNCHANGED <<regs, made>> /\ DOMAIN write' = DOMAIN write /\ Len(write') = Len(write)
      /\ \A q \in DOMAIN write \ {r} : write'[q] = write[q]
      /\ n.op = c.op /\ n.known = c.known /\ n.took = c.took /\ n.frag = c.frag /\ n.items = c.items
      /\ n.wrote \subseteq c.frag /\ n.pc = "done" /\ c.pc = "local"
      /\ \A a \in Attr : (a \in n.wrote /\ data'[a] = Stamp(r)) \/ data'[a] = Absent \/ data'[a] = data[a]
  BY LocalTypes DEF HonourInv
<1>2. ASSUME NEW g \in Standing(r) PROVE FragmentLacks(r, g)' /\ ItemsHave(r, g)'
  <2>1. Owed(r, g)' = Owed(r, g) BY <1>1, OwedStays
  <2>2. FragmentLacks(r, g) /\ ItemsHave(r, g) BY DEF HonourInv, Honours
  <2>3. g.mode \in {"exclusive", "redirect"} BY StandingFacts DEF HonourInv
  <2>4. FragmentLacks(r, g)' BY <1>1, <2>1, <2>2, <2>3 DEF FragmentLacks, SweptBy
  <2>5. ItemsHave(r, g)' BY <1>1, <2>1, <2>2 DEF ItemsHave
  <2> QED BY <2>4, <2>5
<1>3. DOMAIN write = 1..Len(write) /\ Len(write) \in Nat BY WriteFacts DEF HonourInv, RegInv
<1>4. StampsDone'
  <2>1. SUFFICES ASSUME NEW q \in DOMAIN write, NEW a \in Attr, data'[a] = Stamp(q)
                 PROVE  write'[q].pc = "done" /\ a \in write'[q].wrote
    BY <1>1 DEF StampsDone, Stamp
  <2>2. CASE a \in n.wrote /\ data'[a] = Stamp(r)
    <3>1. q = r BY <1>3, <2>1, <2>2 DEF Stamp
    <3> QED BY <1>1, <2>2, <3>1
  <2>3. CASE data'[a] = Absent BY <1>3, <2>1, <2>3 DEF Absent, Stamp
  <2>4. CASE data'[a] = data[a]
    <3>1. write[q].pc = "done" /\ a \in write[q].wrote BY <2>1, <2>4 DEF HonourInv, StampsDone
    <3> QED BY <1>1, <3>1
  <2> QED BY <1>1, <2>2, <2>3, <2>4
<1>5. NotStampedAhead'
  BY <1>1, <1>3 DEF HonourInv, NotStampedAhead, Stamp, Absent
<1> QED BY <1>1, <1>2, <1>4, <1>5, StepHonours

-----------------------------------------------------------------------------
(* Every step, and the theorems *)

LEMMA RegistrationStep ==
  ASSUME RegInv,
         \/ \E t \in RegThread, s \in Shape : RegPost(t, s)
         \/ \E t \in RegThread, g \in regs, s \in Shape : RegPatch(t, g, s)
         \/ \E t \in RegThread : RegistrationStored(t) \/ RegistrationNotStored(t)
         \/ \E g \in regs : RegDelete(g)
  PROVE  RegInv' /\ UNCHANGED <<data, write>> /\ made' >= made /\ \A g \in regs' : g \in regs \/ g.n > made
<1>1. made \in Nat BY DEF RegInv, ForwardingTypeOK
<1>2. ASSUME NEW t \in RegThread, NEW s \in Shape, NEW self \in SUBSET regs, RegCheck(t, s, self)
      PROVE  RegInv' /\ UNCHANGED <<data, write>> /\ made' >= made /\ \A g \in regs' : g \in regs \/ g.n > made
  <2>1. RegInv' BY <1>2, RegCheckStep
  <2> QED BY <1>1, <1>2, <2>1 DEF RegCheck, entVars
<1>3. CASE \E t \in RegThread, s \in Shape : RegPost(t, s) BY <1>2, <1>3 DEF RegPost
<1>4. CASE \E t \in RegThread, g \in regs, s \in Shape : RegPatch(t, g, s) BY <1>2, <1>4 DEF RegPatch
<1>5. ASSUME NEW t \in RegThread, RegistrationStored(t)
      PROVE  RegInv' /\ UNCHANGED <<data, write>> /\ made' >= made /\ \A g \in regs' : g \in regs \/ g.n > made
  <2>1. RegInv' BY <1>5, StoredStep
  <2>2. UNCHANGED <<data, write>> /\ made' = made + 1 BY <1>5 DEF RegistrationStored, entVars
  <2>3. \A g \in regs' : g \in regs \/ g.n = made + 1 BY <1>5 DEF RegistrationStored, Item
  <2> QED BY <1>1, <2>1, <2>2, <2>3
<1>6. ASSUME NEW t \in RegThread, RegistrationNotStored(t)
      PROVE  RegInv' /\ UNCHANGED <<data, write>> /\ made' >= made /\ \A g \in regs' : g \in regs \/ g.n > made
  <2>1. RegInv' BY <1>6, NotStoredStep
  <2> QED BY <1>1, <1>6, <2>1 DEF RegistrationNotStored, entVars
<1>7. ASSUME NEW g \in regs, RegDelete(g)
      PROVE  RegInv' /\ UNCHANGED <<data, write>> /\ made' >= made /\ \A h \in regs' : h \in regs \/ h.n > made
  <2>1. RegInv' BY <1>7, DeleteStep
  <2> QED BY <1>1, <1>7, <2>1 DEF RegDelete, entVars
<1> QED BY <1>3, <1>4, <1>5, <1>6, <1>7

LEMMA HonourNext == HonourInv /\ [ForwardingNext]_fwdVars => HonourInv'
<1> SUFFICES ASSUME HonourInv, [ForwardingNext]_fwdVars PROVE HonourInv' OBVIOUS
<1>1. RegInv BY DEF HonourInv
<1>2. CASE \/ \E t \in RegThread, s \in Shape : RegPost(t, s)
           \/ \E t \in RegThread, g \in regs, s \in Shape : RegPatch(t, g, s)
           \/ \E t \in RegThread : RegistrationStored(t) \/ RegistrationNotStored(t)
           \/ \E g \in regs : RegDelete(g)
  BY <1>1, <1>2, RegistrationStep, RegistrationsHonour
<1>3. CASE \E op \in ForwardOp, w \in SUBSET Attr, only \in BOOLEAN : BeginWrite(op, w, only)
  BY <1>3, BeginHonours
<1>4. CASE \E r \in DOMAIN write : \/ MatchMode(r) \/ SweepRedirects(r) \/ WriteLocal(r)
                                  \/ \E answer : Forward(r, answer)
  BY <1>4, MatchHonours, SweepHonours, LocalHonours, ForwardHonours
<1>5. CASE UNCHANGED fwdVars
  <2>1. UNCHANGED <<regs, made, regLock, regCall, there, data, write>> BY <1>5 DEF fwdVars, regVars, entVars
  <2>2. RegInv' BY <1>1, <2>1 DEF RegInv, ForwardingTypeOK, Checked, CacheConflict, ClaimsDisjoint
  <2>3. made' >= made BY <1>1, <2>1 DEF RegInv, ForwardingTypeOK
  <2> QED BY <2>1, <2>2, <2>3, RegistrationsHonour
<1> QED BY <1>2, <1>3, <1>4, <1>5 DEF ForwardingNext

LEMMA HonourAlways == ForwardingSpec => []HonourInv
BY HonoursInit, HonourNext, PTL DEF ForwardingSpec

\* Registrations, calls, data and requests keep their types, whatever is registered and written
THEOREM ForwardingTypesCorrect == ForwardingSpec => []ForwardingTypeOK
<1>1. HonourInv => ForwardingTypeOK BY DEF HonourInv, RegInv
<1> QED BY <1>1, HonourAlways, PTL

\* The conflict check and the store go under one write lock (postCsourceRegistration.c,
\* patchCsourceRegistration.c): however many threads register at once, no attribute has an exclusive
\* source beside another that is responsible for it
THEOREM ClaimsStayDisjoint == ForwardingSpec => []ClaimsDisjoint
<1>1. HonourInv => ClaimsDisjoint BY DEF HonourInv, RegInv
<1> QED BY <1>1, HonourAlways, PTL

\* What the service routines take out of a request, mode by mode, is enough: nothing is stored that a
\* source stood for when the request began, or handed to another than the one that stands for it alone -
\* in all of the nine operations, and whoever registers, patches and deletes meanwhile
THEOREM ClaimsHonoured == ForwardingSpec => []ClaimHonoured
<1>1. ASSUME HonourInv PROVE ClaimHonoured
  <2>1. SUFFICES ASSUME NEW r \in DOMAIN write, NEW g \in Standing(r), NEW a \in Claims(g), ~PassedOver(r, g, a)
                 PROVE  data[a] # Stamp(r) /\ (g.mode = "exclusive" => \A e \in write[r].took : a \in e.part => e.n = g.n)
    BY DEF ClaimHonoured
  <2>2. a \in Owed(r, g) /\ a \in Attr BY <1>1, <2>1, StandingFacts DEF Owed, HonourInv
  <2>3. FragmentLacks(r, g) /\ ItemsHave(r, g) BY <1>1 DEF HonourInv, Honours
  <2>4. data[a] = Stamp(r) => write[r].pc = "done" /\ a \in write[r].wrote BY <1>1, <2>2 DEF HonourInv, StampsDone
  <2>5. data[a] # Stamp(r) BY <2>2, <2>3, <2>4 DEF FragmentLacks
  <2>6. g.mode = "exclusive" => \A e \in write[r].took : a \in e.part => e.n = g.n BY <2>2, <2>3 DEF ItemsHave
  <2> QED BY <2>5, <2>6
<1> QED BY <1>1, HonourAlways, PTL

-----------------------------------------------------------------------------
(* What a request was answered with is true *)

\* A source alone, or first, responsible is to have the attribute from the request
WithSource(c, a) == \E e \in c.items : Authoritative(e.reg) /\ a \in e.part

\* Until it has forwarded, each attribute a request was asked to write is still in its fragment, or an
\* item's, or was let go in silence; then, in the fragment, taken, let go, or an error is told of
Promise(c) ==
  /\ c.op \in BatchOp => \A e \in c.items : ~e.reg.loop
  /\ \A a \in c.want :
       /\ c.pc \in Mode \cup {"sweep", "send"} => a \in c.frag \/ a \in c.silent \/ WithSource(c, a)
       /\ c.pc = "local" => a \in c.frag \/ a \in c.silent \/ c.errors \/ \E e \in c.took : a \in e.part
       /\ c.status \in {201, 204} =>
            \/ a \in c.wrote \/ (\E e \in c.took : a \in e.part)
            \/ a \in c.silent
            \/ a \in c.frag /\ ~Creates(c) /\ c.op \notin BatchOp

Promises == \A r \in DOMAIN write : Promise(write[r])

\* Of the matches that have an attribute in their scope, one is ahead of the others
LEMMA FirstMatch ==
  ASSUME regs \subseteq Registration, NEW op \in Op, NEW m \in Mode, NEW a \in Scopes(Matched(op, m))
  PROVE  \E e \in Matched(op, m) : a \in Scope(e) /\ a \notin Scopes({d \in Matched(op, m) : Ahead(d, e)})
<1> DEFINE E == {e \in Matched(op, m) : a \in Scope(e)}
           N == {e.reg.n : e \in E}
<1>1. \A e \in Matched(op, m) : e.reg.n \in Nat /\ e.ix \in Nat
  <2>1. \A e \in Matched(op, m) : \E g \in regs : \E i \in InfoOf(op, g) : e = [reg |-> g, ix |-> i] BY DEF Matched
  <2>2. \A g \in regs : g \in Registration /\ g.n \in Nat BY DEF Registration
  <2> QED BY <2>1, <2>2, InfoFacts
<1>2. E # {} BY DEF Scopes
<1>3. N \subseteq Nat /\ N # {} BY <1>1, <1>2
<1> HIDE DEF N
<1>4. PICK n \in N : \A k \in N : n <= k BY <1>3, Smallest
<1> DEFINE X == {e.ix : e \in {d \in E : d.reg.n = n}}
<1>5. X \subseteq Nat BY <1>1
<1>6. X # {} BY <1>4 DEF N
<1> HIDE DEF X
<1>7. PICK i \in X : \A k \in X : i <= k BY <1>5, <1>6, Smallest
<1>8. PICK e \in E : e.reg.n = n /\ e.ix = i BY <1>7 DEF X
<1>9. ASSUME NEW d \in E PROVE ~Ahead(d, e)
  <2>1. d.reg.n \in N /\ d.reg.n \in Nat /\ d.ix \in Nat /\ n \in Nat /\ i \in Nat BY <1>1, <1>3, <1>4, <1>5, <1>7 DEF N
  <2>2. n <= d.reg.n BY <1>4, <2>1
  <2>3. d.reg.n = n => i <= d.ix BY <1>7 DEF X
  <2> QED BY <1>8, <2>1, <2>2, <2>3 DEF Ahead
<1> QED BY <1>8, <1>9 DEF Scopes

\* What an exclusive match takes out of the fragment, one of its items has
LEMMA TakenIsGiven ==
  ASSUME regs \subseteq Registration, NEW op \in Op, NEW m \in Mode, NEW frag \in SUBSET Attr, NEW a \in frag
  PROVE  a \in Claim(op, m, frag).frag \/ \E e \in Claim(op, m, frag).items : e.reg.mode = "exclusive" /\ a \in e.part
<1> DEFINE E == Matched(op, m)
           Taken(e) == IF m = "exclusive" THEN Scopes({d \in E : Ahead(d, e)}) ELSE {}
           ItemOf(e) == [reg |-> e.reg, ix |-> e.ix, part |-> (Scope(e) \cap frag) \ Taken(e)]
<1>1. Claim(op, m, frag).frag = (IF m = "exclusive" THEN frag \ Scopes(E) ELSE frag)
      /\ Claim(op, m, frag).items = {ItemOf(e) : e \in E}
  BY DEF Claim
<1>2. SUFFICES ASSUME m = "exclusive", a \in Scopes(E)
               PROVE  \E e \in E : ItemOf(e).reg.mode = "exclusive" /\ a \in ItemOf(e).part
  BY <1>1
<1>3. PICK e \in E : a \in Scope(e) /\ a \notin Scopes({d \in E : Ahead(d, e)}) BY <1>2, FirstMatch
<1>4. e.reg.mode = "exclusive" BY <1>2 DEF Matched
<1> QED BY <1>2, <1>3, <1>4

\* No batch has an item of a source that would loop
LEMMA BatchItems ==
  ASSUME NEW op \in BatchOp, NEW m, NEW frag, NEW e \in Claim(op, m, frag).items
  PROVE  ~e.reg.loop
<1>1. \A d \in Matched(op, m) : ~d.reg.loop BY DEF Matched, Asked
<1> QED BY <1>1 DEF Claim

\* One request goes on, the others' promises are as before
LEMMA OnePromise ==
  ASSUME Promises, NEW r \in DOMAIN write, DOMAIN write' = DOMAIN write, \A q \in DOMAIN write \ {r} : write'[q] = write[q],
         Promise(write'[r])
  PROVE  Promises'
<1>1. \A q \in DOMAIN write' : Promise(write'[q]) BY DEF Promises
<1> QED BY <1>1 DEF Promises, Promise, WithSource, Creates, Authoritative

LEMMA BeginPromises ==
  ASSUME RegInv, Promises, NEW op \in ForwardOp, NEW w \in SUBSET Attr, NEW only \in BOOLEAN, BeginWrite(op, w, only)
  PROVE  Promises'
<1>0. PICK N \in Nat : N = Len(write) + 1 BY WriteFacts DEF RegInv
<1> DEFINE c == write'[N]
<1>1. /\ DOMAIN write' = 1..N /\ \A q \in DOMAIN write : write'[q] = write[q]
      /\ c.frag = w /\ c.items = {} /\ c.pc \in {"exclusive", "local", "done"}
  BY <1>0, WriteBeginStep
<1>2. DOMAIN write = 1..Len(write) /\ Len(write) \in Nat BY WriteFacts DEF RegInv
<1>3. \A q \in DOMAIN write' : q \in DOMAIN write \/ q = N BY <1>0, <1>1, <1>2
<1>4. c.want = w /\ c.status \in {0, 404, 409} BY <1>0, <1>2 DEF BeginWrite
<1> HIDE DEF c
<1>5. Promise(c) BY <1>1, <1>4 DEF Promise
<1>6. \A q \in DOMAIN write' : Promise(write'[q]) BY <1>1, <1>3, <1>5 DEF Promises, c
<1> QED BY <1>6 DEF Promises, Promise, WithSource, Creates, Authoritative

LEMMA MatchPromises ==
  ASSUME RegInv, Promises, NEW r \in DOMAIN write, MatchMode(r)
  PROVE  Promises'
<1> DEFINE c == write[r]
           n == write'[r]
           claim == Claim(c.op, c.pc, c.frag)
<1>1. /\ DOMAIN write' = DOMAIN write /\ \A q \in DOMAIN write \ {r} : write'[q] = write[q]
      /\ n.op = c.op /\ n.pc = Following(c.op, c.pc) /\ n.frag = claim.frag /\ n.items = c.items \cup claim.items /\ c.pc \in Mode
  BY MatchTypes
<1>2. c \in WriteRequest /\ c.op \in Op /\ c.frag \in SUBSET Attr /\ regs \subseteq Registration /\ c.status = 0
  <2>1. c \in WriteRequest /\ regs \subseteq Registration BY WriteFacts DEF RegInv, ForwardingTypeOK
  <2>2. c.pc # "done" BY <1>1 DEF Mode
  <2>3. c.status = 0 BY <2>2 DEF RegInv, ForwardingTypeOK
  <2> QED BY <2>1, <2>3 DEF WriteRequest
<1>3. n.want = c.want /\ n.silent = c.silent /\ n.status = c.status BY <1>2 DEF MatchMode, WriteRequest
<1>4. n.pc \notin {"local", "done"} BY <1>1, <1>2 DEF Following, Mode
<1>5. ASSUME n.op \in BatchOp, NEW e \in n.items PROVE ~e.reg.loop
  <2>1. CASE e \in c.items BY <1>1, <1>5, <2>1 DEF Promises, Promise
  <2>2. CASE e \in claim.items BY <1>1, <1>5, <2>2, BatchItems
  <2> QED BY <1>1, <1>5, <2>1, <2>2
<1>6. ASSUME NEW a \in n.want PROVE a \in n.frag \/ a \in n.silent \/ WithSource(n, a)
  <2>1. a \in c.frag \/ a \in c.silent \/ WithSource(c, a) BY <1>1, <1>3, <1>6 DEF Promises, Promise
  <2>2. CASE a \in c.frag
    <3>1. a \in claim.frag \/ \E e \in claim.items : e.reg.mode = "exclusive" /\ a \in e.part BY <1>1, <1>2, <2>2, TakenIsGiven
    <3> QED BY <1>1, <3>1 DEF WithSource, Authoritative
  <2>3. CASE a \in c.silent BY <1>3, <2>3
  <2>4. CASE WithSource(c, a) BY <1>1, <2>4 DEF WithSource
  <2> QED BY <2>1, <2>2, <2>3, <2>4
<1>7. Promise(n)
  <2> HIDE DEF n
  <2> QED BY <1>2, <1>3, <1>4, <1>5, <1>6 DEF Promise
<1> QED BY <1>1, <1>7, OnePromise

LEMMA SweepPromises ==
  ASSUME RegInv, Promises, NEW r \in DOMAIN write, SweepRedirects(r)
  PROVE  Promises'
<1> DEFINE c == write[r]
           n == write'[r]
<1>1. /\ DOMAIN write' = DOMAIN write /\ \A q \in DOMAIN write \ {r} : write'[q] = write[q]
      /\ n.op = c.op /\ n.items = c.items /\ n.pc = Following(c.op, "sweep") /\ n.frag = c.frag \ Swept(r) /\ c.pc = "sweep"
  BY SweepTypes
<1>2. c \in WriteRequest /\ c.op \in Op /\ c.status = 0
  <2>1. c \in WriteRequest BY WriteFacts DEF RegInv
  <2>2. c.status = 0 BY <1>1 DEF RegInv, ForwardingTypeOK
  <2> QED BY <2>1, <2>2 DEF WriteRequest
<1>3. n.want = c.want /\ n.silent = c.silent \cup SweptForNobody(r) /\ n.status = c.status
  BY <1>2 DEF SweepRedirects, WriteRequest
<1>4. n.pc \notin {"local", "done"} BY <1>1, <1>2, FollowingFacts
<1>5. n.op \in BatchOp => \A e \in n.items : ~e.reg.loop BY <1>1 DEF Promises, Promise
<1>6. ASSUME NEW a \in n.want PROVE a \in n.frag \/ a \in n.silent \/ WithSource(n, a)
  <2>1. a \in c.frag \/ a \in c.silent \/ WithSource(c, a) BY <1>1, <1>3, <1>6 DEF Promises, Promise
  <2>2. CASE a \in c.frag /\ a \in Swept(r)
    <3>1. CASE a \in UNION {e.part : e \in Redirects(r)}
      <4>1. PICK e \in Redirects(r) : a \in e.part BY <3>1
      <4>2. e \in c.items /\ e.reg.mode = "redirect" BY DEF Redirects
      <4> QED BY <1>1, <4>1, <4>2 DEF WithSource, Authoritative
    <3>2. CASE a \notin UNION {e.part : e \in Redirects(r)} BY <1>3, <2>2, <3>2 DEF SweptForNobody
    <3> QED BY <3>1, <3>2
  <2>3. CASE a \in c.frag /\ a \notin Swept(r) BY <1>1, <2>3
  <2>4. CASE a \in c.silent BY <1>3, <2>4
  <2>5. CASE WithSource(c, a) BY <1>1, <2>5 DEF WithSource
  <2> QED BY <2>1, <2>2, <2>3, <2>4, <2>5
<1>7. Promise(n)
  <2> HIDE DEF n
  <2> QED BY <1>2, <1>3, <1>4, <1>5, <1>6 DEF Promise
<1> QED BY <1>1, <1>7, OnePromise

LEMMA ForwardPromises ==
  ASSUME RegInv, Promises, NEW r \in DOMAIN write, NEW answer, Forward(r, answer)
  PROVE  Promises'
<1> DEFINE c == write[r]
           n == write'[r]
           ok == {e \in Sent(r) : answer[e] = "ok"}
           gone == {e \in Sent(r) : answer[e] = "gone" /\ GoneIsFine(c.op)}
           looped == {e \in c.items : c.op \in EntriesOp /\ Authoritative(e.reg) /\ e.reg.loop}
<1>1. /\ DOMAIN write' = DOMAIN write /\ \A q \in DOMAIN write \ {r} : write'[q] = write[q]
      /\ n.op = c.op /\ n.frag = c.frag /\ n.items = {} /\ n.pc = "local" /\ c.pc = "send"
  BY ForwardTypes
<1>2. c \in WriteRequest /\ c.op \in Op /\ c.status = 0 /\ \A e \in c.items : e.reg.loop \in BOOLEAN /\ e.reg.ops \in BOOLEAN
  <2>1. c \in WriteRequest BY WriteFacts DEF RegInv
  <2>2. c.status = 0 BY <1>1 DEF RegInv, ForwardingTypeOK
  <2>3. c.items \subseteq ItemType /\ c.op \in Op BY <2>1 DEF WriteRequest
  <2>4. \A e \in ItemType : e.reg.loop \in BOOLEAN /\ e.reg.ops \in BOOLEAN BY DEF ItemType, Registration
  <2> QED BY <2>1, <2>2, <2>3, <2>4
<1>3. /\ n.want = c.want /\ n.status = c.status /\ n.took = {[n |-> e.reg.n, part |-> e.part] : e \in ok}
      /\ n.errors = (c.errors \/ Unasked(r) # {} \/ Sent(r) \ (ok \cup gone) # {})
      /\ n.silent = c.silent \cup Parts(gone) \cup Parts(looped)
  <2>1. write' = [write EXCEPT ![r].pc = "local", ![r].items = {}, ![r].took = {[n |-> e.reg.n, part |-> e.part] : e \in ok},
                               ![r].errors = @ \/ Unasked(r) # {} \/ Sent(r) \ (ok \cup gone) # {},
                               ![r].silent = @ \cup Parts(gone) \cup Parts(looped)]
    BY DEF Forward
  <2> HIDE DEF ok, gone, looped
  <2> QED BY <1>2, <2>1 DEF WriteRequest
<1>4. \A E, e, a : e \in E /\ a \in e.part => a \in Parts(E) BY DEF Parts
<1>5. ASSUME NEW e \in c.items, Authoritative(e.reg), NEW a \in e.part
      PROVE  a \in n.silent \/ n.errors \/ \E x \in n.took : a \in x.part
  <2>1. CASE e.reg.loop /\ c.op \in EntriesOp
    <3>1. e \in looped BY <1>5, <2>1
    <3> QED BY <1>3, <1>4, <3>1
  <2>2. CASE e.reg.loop /\ c.op \in OwnOp
    <3>1. e \in Unasked(r) BY <1>5, <2>2 DEF Unasked
    <3> QED BY <1>3, <3>1
  <2>3. c.op \in BatchOp => ~e.reg.loop BY DEF Promises, Promise
  <2>4. CASE ~e.reg.loop /\ ~e.reg.ops
    <3>1. e \in Unasked(r) BY <1>5, <2>4 DEF Unasked
    <3> QED BY <1>3, <3>1
  <2>5. CASE ~e.reg.loop /\ e.reg.ops
    <3>1. e \in Sent(r) BY <2>5 DEF Sent, Kept
    <3>2. CASE e \in ok
      <4>1. [n |-> e.reg.n, part |-> e.part] \in n.took BY <1>3, <3>2
      <4> QED BY <4>1
    <3>3. CASE e \in gone BY <1>3, <1>4, <3>3
    <3>4. CASE e \notin ok \cup gone
      <4>1. Sent(r) \ (ok \cup gone) # {} BY <3>1, <3>4
      <4> HIDE DEF n, ok, gone
      <4> QED BY <1>3, <4>1
    <3> QED BY <3>2, <3>3, <3>4
  <2> QED BY <1>2, <2>1, <2>2, <2>3, <2>4, <2>5 DEF Op
<1>6. ASSUME NEW a \in n.want PROVE a \in n.frag \/ a \in n.silent \/ n.errors \/ \E e \in n.took : a \in e.part
  <2>1. a \in c.frag \/ a \in c.silent \/ WithSource(c, a) BY <1>1, <1>3, <1>6 DEF Promises, Promise
  <2>2. WithSource(c, a) => a \in n.silent \/ n.errors \/ \E x \in n.took : a \in x.part BY <1>5 DEF WithSource
  <2>3. c.silent \subseteq n.silent BY <1>3
  <2> QED BY <1>1, <2>1, <2>2, <2>3
<1>7. Promise(n)
  <2> HIDE DEF n
  <2> QED BY <1>1, <1>2, <1>3, <1>6 DEF Promise, Mode
<1> QED BY <1>1, <1>7, OnePromise

LEMMA LocalPromises ==
  ASSUME RegInv, Promises, NEW r \in DOMAIN write, WriteLocal(r)
  PROVE  Promises'
<1> DEFINE c == write[r]
           n == write'[r]
           wrote == IF Writes(c) THEN c.frag ELSE {}
           status == Status(c, c.errors \/ LocalError(c), c.took # {} \/ Writes(c))
<1>1. /\ DOMAIN write' = DOMAIN write /\ \A q \in DOMAIN write \ {r} : write'[q] = write[q]
      /\ n.op = c.op /\ n.took = c.took /\ n.frag = c.frag /\ n.items = c.items /\ n.pc = "done" /\ c.pc = "local"
  BY LocalTypes
<1>2. c \in WriteRequest /\ c.op \in Op /\ c.existed \in BOOLEAN BY WriteFacts DEF RegInv, WriteRequest
<1>3. n.want = c.want /\ n.silent = c.silent /\ n.existed = c.existed /\ n.wrote = wrote /\ n.status = status
  <2>1. write' = [write EXCEPT ![r].pc = "done", ![r].wrote = wrote, ![r].status = status] BY DEF WriteLocal
  <2> HIDE DEF wrote, status
  <2> QED BY <1>2, <2>1 DEF WriteRequest
<1>4. Creates(n) <=> Creates(c) BY <1>1, <1>3 DEF Creates
<1>5. n.op \in BatchOp => \A e \in n.items : ~e.reg.loop BY <1>1 DEF Promises, Promise
<1>6. ASSUME NEW a \in n.want, n.status \in {201, 204}
      PROVE  \/ a \in n.wrote \/ (\E e \in n.took : a \in e.part)
             \/ a \in n.silent
             \/ a \in n.frag /\ ~Creates(n) /\ n.op \notin BatchOp
  <2>1. a \in c.frag \/ a \in c.silent \/ c.errors \/ \E e \in c.took : a \in e.part
    BY <1>1, <1>3, <1>6 DEF Promises, Promise
  <2>2. ~c.errors /\ ~LocalError(c)
    <3>1. status \in {201, 204} BY <1>3, <1>6
    <3> QED BY <3>1 DEF Status
  <2>3. CASE a \in c.frag /\ ~Writes(c)
    <3>1. ~(IF Creates(c) THEN ~there ELSE Held(c)) BY <2>3 DEF Writes
    <3>2. ~Creates(c) BY <2>2, <2>3, <3>1 DEF LocalError
    <3>3. ~Held(c) BY <3>1, <3>2
    <3>4. c.op \notin {"batchMerge", "batchUpdate"} BY <2>2, <2>3, <3>3 DEF LocalError
    <3>5. c.op # "batchUpsert" BY <3>2, <3>3 DEF Creates, Held
    <3>6. c.op # "batchCreate" BY <3>2 DEF Creates
    <3>7. c.op \notin BatchOp BY <3>4, <3>5, <3>6 DEF BatchOp
    <3> QED BY <1>1, <1>4, <2>3, <3>2, <3>7
  <2>4. CASE a \in c.frag /\ Writes(c) BY <1>3, <2>4
  <2> QED BY <1>1, <1>3, <2>1, <2>2, <2>3, <2>4
<1>7. Promise(n)
  <2> HIDE DEF n
  <2> QED BY <1>1, <1>5, <1>6 DEF Promise, Mode
<1> QED BY <1>1, <1>7, OnePromise

LEMMA PromisesInit == ForwardingInit => Promises
BY DEF ForwardingInit, Promises

LEMMA PromisesNext == RegInv /\ Promises /\ [ForwardingNext]_fwdVars => Promises'
<1> SUFFICES ASSUME RegInv, Promises, [ForwardingNext]_fwdVars PROVE Promises' OBVIOUS
<1>1. CASE \/ \E t \in RegThread, s \in Shape : RegPost(t, s)
           \/ \E t \in RegThread, g \in regs, s \in Shape : RegPatch(t, g, s)
           \/ \E t \in RegThread : RegistrationStored(t) \/ RegistrationNotStored(t)
           \/ \E g \in regs : RegDelete(g)
  <2>1. write' = write BY <1>1, RegistrationStep
  <2> QED BY <2>1 DEF Promises, Promise, WithSource, Creates, Authoritative
<1>2. CASE \E op \in ForwardOp, w \in SUBSET Attr, only \in BOOLEAN : BeginWrite(op, w, only)
  BY <1>2, BeginPromises
<1>3. CASE \E r \in DOMAIN write : \/ MatchMode(r) \/ SweepRedirects(r) \/ WriteLocal(r)
                                  \/ \E answer : Forward(r, answer)
  BY <1>3, MatchPromises, SweepPromises, LocalPromises, ForwardPromises
<1>4. CASE UNCHANGED fwdVars
  <2>1. write' = write BY <1>4 DEF fwdVars
  <2> QED BY <2>1 DEF Promises, Promise, WithSource, Creates, Authoritative
<1> QED BY <1>1, <1>2, <1>3, <1>4 DEF ForwardingNext

\* A request's 201 or 204 is true: every attribute it was asked to write has been written here, or by a
\* source that is responsible for it, but for what the code lets go in silence - what an item holds was
\* taken out of the fragment by the first exclusive source that matches, or by the sweep, and whatever
\* becomes of the item without the source taking it is an error of the answer (the forwarding routines
\* of the nine operations, ldDistOpSendMulti)
THEOREM AnswersTrue == ForwardingSpec => []AnsweredWasDone
<1>1. RegInv /\ Promises => AnsweredWasDone BY DEF Promises, Promise, AnsweredWasDone
<1>2. HonourInv => RegInv BY DEF HonourInv
<1> QED BY <1>1, <1>2, HonourAlways, PromisesInit, PromisesNext, PTL DEF ForwardingSpec

-----------------------------------------------------------------------------
(* Brokers on one database: the three parts side by side *)

\* A step is each part's own step, or leaves it alone
LEMMA BrokersSteps ==
  ASSUME [Next]_<<focus, haVars, connVars, fwdVars>>
  PROVE  [HaSyncNext]_haVars /\ [ConnNext]_connVars /\ [ForwardingNext]_fwdVars
<1>1. CASE UNCHANGED <<focus, haVars, connVars, fwdVars>> BY <1>1
<1>2. CASE CachesMove /\ UNCHANGED <<focus, connVars, fwdVars>> BY <1>2 DEF CachesMove
<1>3. CASE ConnectionsMove /\ UNCHANGED <<focus, haVars, fwdVars>> BY <1>3 DEF ConnectionsMove
<1>4. CASE ForwardsMove /\ UNCHANGED <<focus, haVars, connVars>> BY <1>4 DEF ForwardsMove
<1> QED BY <1>1, <1>2, <1>3, <1>4 DEF Next

\* Types of the caches, the connections and the forwards of brokers that have all three: no part's steps
\* touch another's state
THEOREM BrokersTypesCorrect == Spec => []HaTypesOK
<1>1. Spec => Init /\ [][Next]_<<focus, haVars, connVars, fwdVars>> /\ HaSyncFairness BY DEF Spec
<1>2. Init => HaSyncInit /\ ConnInit /\ ForwardingInit BY DEF Init
<1>3. [Next]_<<focus, haVars, connVars, fwdVars>> =>
        [HaSyncNext]_haVars /\ [ConnNext]_connVars /\ [ForwardingNext]_fwdVars
  BY BrokersSteps
<1>4. HaSyncTypeOK /\ ConnTypeOK /\ ForwardingTypeOK => HaTypesOK BY DEF HaTypesOK
<1>5. Spec => []HaSyncTypeOK BY <1>1, <1>2, <1>3, HaSyncTypesCorrect, PTL DEF HaSyncSpec
<1>6. Spec => []ConnTypeOK BY <1>1, <1>2, <1>3, ConnTypesCorrect, PTL DEF ConnSpec
<1>7. Spec => []ForwardingTypeOK BY <1>1, <1>2, <1>3, ForwardingTypesCorrect, PTL DEF ForwardingSpec
<1> QED BY <1>4, <1>5, <1>6, <1>7, PTL

=============================================================================
