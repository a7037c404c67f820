----------------------------- MODULE Forwarding -----------------------------
(***************************************************************************)
(* Writes to one entity of which context sources hold a part: the          *)
(* registrations in a tenant's cache, the requests that make, change and   *)
(* delete them, and the requests that write the entity - what of a request *)
(* is forwarded to whom, what is written here, what is answered.           *)
(*                                                                         *)
(* Every registration names the entity by id, and its attributes one by    *)
(* one. An attribute of the local entity is the stamp of the request that  *)
(* wrote it last; deletes, bridges, notifications and what another broker  *)
(* forwards to this one are left out. The batch create forwards mode by    *)
(* mode, the others all at once: a request's own steps are not changed by  *)
(* what its sources answer, so that here each forwards once it has matched.*)
(***************************************************************************)
EXTENDS Integers, FiniteSets, Sequences

CONSTANTS
  Attr,        \* names of attributes
  Shape,       \* what a registration may be, see RegShape
  RegThread,   \* threads that serve requests on registrations
  ForwardOp,   \* the operations requests on the entity may ask for
  MaxReg,      \* bound: registrations stored while the model runs
  MaxWrite     \* bound: requests on the entity

\* How a service routine goes about it: by a loop of its own, by the entries of ldDistOpEntriesBuild,
\* or a mode at a time, in the routines of many entities
OwnOp == {"patchEntityAttrs", "postEntityAttrs", "postEntities"}
EntriesOp == {"patchEntity", "replaceEntity"}
BatchOp == {"batchCreate", "batchMerge", "batchUpdate", "batchUpsert"}
Op == OwnOp \cup EntriesOp \cup BatchOp

Mode == {"exclusive", "redirect", "inclusive"}

\* info: the attributes of each RegistrationInfo; loop: a forward would come back here;
\* ops: the source supports the operation
IsRegShape(s) ==
  /\ DOMAIN s = {"mode", "info", "loop", "ops"}
  /\ s.mode \in Mode /\ s.info \in Seq(SUBSET Attr) /\ Len(s.info) > 0 /\ s.loop \in BOOLEAN /\ s.ops \in BOOLEAN

ASSUME ForwardingAssumption ==
  /\ \A s \in Shape : IsRegShape(s)
  /\ ForwardOp \subseteq Op /\ MaxReg \in Nat /\ MaxWrite \in Nat
  /\ "none" \notin RegThread

VARIABLES
  regs,      \* the cache: registrations, numbered as they are stored
  made,      \* the last number
  regLock,   \* who holds the cache's write lock, or "none"
  regCall,   \* what a thread that serves a registration is about to store, and in whose place
  there,     \* the entity is in the database
  data,      \* its attributes
  write      \* sequence of the requests on the entity so far

regVars == <<regs, made, regLock, regCall>>
entVars == <<there, data>>
fwdVars == <<regVars, entVars, write>>

Absent == 0
Original == 1
Stamp(r) == r + 1

Authoritative(g) == g.mode \in {"exclusive", "redirect"}
Claims(g) == UNION {g.info[i] : i \in DOMAIN g.info}

-----------------------------------------------------------------------------
(* Registrations *)

\* Faulty: a redirect is let in beside an exclusive
BlockingModeSame(new, cached) == new = "exclusive" /\ cached \in {"exclusive", "redirect"}

\* Which mode of a cached registration keeps a new one out
BlockingMode(new, cached) ==
  \/ new = "exclusive" /\ cached \in {"exclusive", "redirect"}
  \/ new = "redirect" /\ cached = "exclusive"

CacheConflict(s, self) == \E g \in regs \ self : BlockingMode(s.mode, g.mode) /\ Claims(s) \cap Claims(g) # {}

LocalEntityConflict(s) == there /\ \E a \in Claims(s) : data[a] # Absent

RegConflictCheck(s, self) == Authoritative(s) /\ (CacheConflict(s, self) \/ LocalEntityConflict(s))

NoRegCall == [pc |-> "idle", shape |-> {}, old |-> {}]
Storing(s, self) == [pc |-> "store", shape |-> {s}, old |-> self]
Item(s, n) == [n |-> n, mode |-> s.mode, info |-> s.info, loop |-> s.loop, ops |-> s.ops]

\* Faulty: the lock is taken for the store alone, as it once was
RegCheckUnlocked(t, s, self) ==
  /\ regLock = "none" /\ regCall[t].pc = "idle" /\ made < MaxReg /\ ~RegConflictCheck(s, self)
  /\ regCall' = [regCall EXCEPT ![t] = Storing(s, self)]
  /\ UNCHANGED <<regs, made, regLock, entVars, write>>

\* Under the write lock from the check until the registration is in the cache; a conflict is a 409
RegCheck(t, s, self) ==
  /\ regLock = "none" /\ regCall[t].pc = "idle" /\ made < MaxReg /\ ~RegConflictCheck(s, self)
  /\ regCall' = [regCall EXCEPT ![t] = Storing(s, self)] /\ regLock' = t
  /\ UNCHANGED <<regs, made, entVars, write>>

RegPost(t, s) == RegCheck(t, s, {})

RegPatch(t, g, s) == g \in regs /\ RegCheck(t, s, {g})

RegUnlock(t) == regCall' = [regCall EXCEPT ![t] = NoRegCall] /\ regLock' = "none"

\* Stored in the database and in the cache, in whose place it is patched
RegistrationStored(t) ==
  /\ regCall[t].pc = "store" /\ RegUnlock(t)
  /\ made' = made + 1 /\ regs' = (regs \ regCall[t].old) \cup {Item(s, made + 1) : s \in regCall[t].shape}
  /\ UNCHANGED <<entVars, write>>

\* The database does not take it
RegistrationNotStored(t) == regCall[t].pc = "store" /\ RegUnlock(t) /\ UNCHANGED <<regs, made, entVars, write>>

RegDelete(g) ==
  g \in regs /\ regLock = "none" /\ regs' = regs \ {g} /\ UNCHANGED <<made, regLock, regCall, entVars, write>>

-----------------------------------------------------------------------------
(* A request on the entity: begun, and matched mode by mode *)

At(r, pc) == r \in DOMAIN write /\ write[r].pc = pc

\* ?local=true: an attribute somebody else is responsible for is a 409
LocalConflict(w) == \E g \in regs : Authoritative(g) /\ Claims(g) \cap w # {}

\* A batch update wants an entity, here or at a source
NowhereToUpdate(op, only) == op = "batchUpdate" /\ ~there /\ (only \/ regs = {})

\* known: auxiliary, the registrations there were then
BeginWrite(op, w, only) ==
  /\ Len(write) < MaxWrite /\ regLock = "none" /\ op \in ForwardOp /\ w # {}
  /\ write' = Append(write,
       [op |-> op, want |-> w, frag |-> w, existed |-> there, known |-> {g.n : g \in regs},
        pc |-> IF NowhereToUpdate(op, only) \/ (only /\ LocalConflict(w)) THEN "done"
               ELSE IF only THEN "local" ELSE "exclusive",
        status |-> IF NowhereToUpdate(op, only) THEN 404 ELSE IF only /\ LocalConflict(w) THEN 409 ELSE 0,
        items |-> {}, errors |-> FALSE, took |-> {}, wrote |-> {}, silent |-> {}])
  /\ UNCHANGED <<regVars, entVars>>

\* A batch goes past a source that would loop; ldDistOpEntriesBuild reports a source it may not ask
Asked(op, g) == (op \in BatchOp => ~g.loop) /\ (op \in EntriesOp => g.ops)

\* The batch create looks no further than the first RegistrationInfo
InfoOf(op, g) == IF op = "batchCreate" THEN {1} ELSE DOMAIN g.info

Matched(op, m) ==
  UNION {{[reg |-> g, ix |-> i] : i \in InfoOf(op, g)} : g \in {h \in regs : h.mode = m /\ Asked(op, h)}}

Scope(e) == e.reg.info[e.ix]
Scopes(E) == UNION {Scope(e) : e \in E}
Ahead(d, e) == d.reg.n < e.reg.n \/ (d.reg.n = e.reg.n /\ d.ix < e.ix)

\* Faulty: the attributes of an exclusive source are copied, not taken
ClaimCopied(op, m, frag) == [frag |-> frag, items |->
  {[reg |-> e.reg, ix |-> e.ix, part |-> Scope(e) \cap frag] : e \in Matched(op, m)}]

\* ldEntityFragmentForInfo for one match after the other: an exclusive source takes its attributes out
\* of the fragment, the others get copies
Claim(op, m, frag) ==
  LET E == Matched(op, m)
      Taken(e) == IF m = "exclusive" THEN Scopes({d \in E : Ahead(d, e)}) ELSE {}
  IN  [frag |-> IF m = "exclusive" THEN frag \ Scopes(E) ELSE frag,
       items |-> {[reg |-> e.reg, ix |-> e.ix, part |-> (Scope(e) \cap frag) \ Taken(e)] : e \in E}]

Following(op, pc) ==
  CASE pc = "exclusive" -> "redirect"
    [] pc = "redirect"  -> IF op \in BatchOp THEN "sweep" ELSE "inclusive"
    [] pc = "sweep"     -> IF op \in BatchOp THEN "inclusive" ELSE "send"
    [] pc = "inclusive" -> IF op \in BatchOp THEN "send" ELSE "sweep"

\* The cache is read once for each mode
MatchMode(r) ==
  /\ write[r].pc \in Mode /\ regLock = "none"
  /\ LET c == write[r]
         claim == Claim(c.op, c.pc, c.frag)
         refused == \E g \in regs : c.op \in EntriesOp /\ g.mode = c.pc /\ Authoritative(g) /\ ~g.ops
     IN  write' = [write EXCEPT ![r].pc = Following(c.op, c.pc), ![r].frag = claim.frag,
                                ![r].items = @ \cup claim.items, ![r].errors = @ \/ refused]
  /\ UNCHANGED <<regVars, entVars>>

\* ldDistOpEntry's place in the array, and those that are compacted to its front
Rank(e) == CASE e.reg.mode = "exclusive" -> 1 [] e.reg.mode = "redirect" -> 2 [] OTHER -> 3
Before(d, e) == Rank(d) < Rank(e) \/ (Rank(d) = Rank(e) /\ Ahead(d, e))
Kept(r) == {e \in write[r].items : e.part # {} /\ ~e.reg.loop}
StillInArray(r, e) == e \in Kept(r) \/ Cardinality({d \in write[r].items : Before(d, e)}) >= Cardinality(Kept(r))

Redirects(r) == {e \in write[r].items : e.reg.mode = "redirect"}

\* Faulty: the redirect sources' attributes stay in the fragment
NothingSwept(r) == {}

\* What is taken out of the fragment once every redirect source has its copy: the batches match anew;
\* PATCH and PUT of an entity go by the array they have compacted in place
Swept(r) ==
  CASE write[r].op \in OwnOp     -> Scopes(Redirects(r))
    [] write[r].op \in EntriesOp -> Scopes({e \in Redirects(r) : StillInArray(r, e)})
    [] OTHER                     -> UNION {Claims(g) : g \in {h \in regs : h.mode = "redirect" /\ ~h.loop}}

\* Registered since the redirect sources were matched: taken out for nobody
SweptForNobody(r) == (write[r].frag \cap Swept(r)) \ UNION {e.part : e \in Redirects(r)}

SweepRedirects(r) ==
  /\ At(r, "sweep") /\ (write[r].op \in BatchOp => regLock = "none")
  /\ LET c == write[r]
     IN  write' = [write EXCEPT ![r].pc = Following(c.op, "sweep"), ![r].frag = @ \ Swept(r),
                                ![r].silent = @ \cup SweptForNobody(r)]
  /\ UNCHANGED <<regVars, entVars>>

-----------------------------------------------------------------------------
(* Forwarded, written, answered *)

Sent(r) == {e \in Kept(r) : e.reg.ops}

\* Faulty: a source that may not be asked is passed over
UnaskedForgotten(r) == {}

\* Authoritative sources that are not asked, for want of the operation or for the loop, which is reported
Unasked(r) ==
  {e \in write[r].items :
     /\ Authoritative(e.reg) /\ (e.part # {} \/ write[r].op = "batchCreate")
     /\ ~e.reg.ops \/ (e.reg.loop /\ write[r].op \in OwnOp)}

Parts(E) == UNION {e.part : e \in E}

\* A 404 is no error, of a source that has no such entity
GoneIsFine(op) == op \in EntriesOp \cup {"patchEntityAttrs", "postEntityAttrs"}

\* ldDistOpSendMulti: a source answers, says it has no such entity, or fails (an error, or no answer in
\* time); in a batch one answer is for all that went to it
Forward(r, answer) ==
  /\ At(r, "send")
  /\ answer \in [Sent(r) -> {"ok", "gone", "failed"}]
  /\ \A d, e \in Sent(r) : write[r].op \in BatchOp /\ d.reg = e.reg => answer[d] = answer[e]
  /\ LET c == write[r]
         ok == {e \in Sent(r) : answer[e] = "ok"}
         gone == {e \in Sent(r) : answer[e] = "gone" /\ GoneIsFine(c.op)}
         looped == {e \in c.items : c.op \in EntriesOp /\ Authoritative(e.reg) /\ e.reg.loop}
     IN  write' = [write EXCEPT ![r].pc = "local", ![r].items = {}, ![r].took = {[n |-> e.reg.n, part |-> e.part] : e \in ok},
                                ![r].errors = @ \/ Unasked(r) # {} \/ Sent(r) \ (ok \cup gone) # {},
                                ![r].silent = @ \cup Parts(gone) \cup Parts(looped)]
  /\ UNCHANGED <<regVars, entVars>>

Creates(c) == c.op \in {"postEntities", "batchCreate"} \/ (c.op = "batchUpsert" /\ ~c.existed)
Replaces(c) == c.op \in {"replaceEntity", "batchUpsert"} /\ c.existed

\* Read at the start, or just before it is written
Held(c) == IF c.op \in {"replaceEntity", "batchUpdate", "batchUpsert"} THEN c.existed ELSE there

\* Nothing left of the fragment is nothing to write, but for the PUT of an entity
Writes(c) ==
  /\ c.frag # {} \/ (c.op = "replaceEntity" /\ c.existed)
  /\ IF Creates(c) THEN ~there ELSE Held(c)

\* There already, or not there: an error of the local part
LocalError(c) ==
  c.frag # {} /\ (\/ Creates(c) /\ there
                  \/ c.op \in {"batchMerge", "batchUpdate"} /\ ~Held(c))

\* 207 stands for every answer that tells of an error, 409 and the source's own status among them
Status(c, errors, any) ==
  IF (c.op \in {"patchEntityAttrs", "postEntityAttrs"} /\ ~there /\ c.took = {}) \/ (c.op \in EntriesOp /\ ~any /\ ~errors)
  THEN 404
  ELSE IF errors THEN 207 ELSE IF Creates(c) THEN 201 ELSE 204

\* What the forwards left of the fragment is written, and the request answered
WriteLocal(r) ==
  /\ At(r, "local")
  /\ LET c == write[r]
         wrote == IF Writes(c) THEN c.frag ELSE {}
     IN  /\ there' = (there \/ Writes(c))
         /\ data' = [a \in Attr |-> IF a \in wrote THEN Stamp(r)
                                    ELSE IF Writes(c) /\ (Creates(c) \/ Replaces(c)) THEN Absent ELSE data[a]]
         /\ write' = [write EXCEPT ![r].pc = "done", ![r].wrote = wrote,
                                   ![r].status = Status(c, c.errors \/ LocalError(c), c.took # {} \/ Writes(c))]
  /\ UNCHANGED regVars

-----------------------------------------------------------------------------
ForwardingInit ==
  /\ regs = {} /\ made = 0 /\ regLock = "none" /\ regCall = [t \in RegThread |-> NoRegCall]
  /\ there \in BOOLEAN
  /\ data \in [Attr -> {Absent, Original}] /\ (~there => \A a \in Attr : data[a] = Absent)
  /\ write = <<>>

ForwardingNext ==
  \/ \E t \in RegThread, s \in Shape : RegPost(t, s)
  \/ \E t \in RegThread, g \in regs, s \in Shape : RegPatch(t, g, s)
  \/ \E t \in RegThread : RegistrationStored(t) \/ RegistrationNotStored(t)
  \/ \E g \in regs : RegDelete(g)
  \/ \E op \in ForwardOp, w \in SUBSET Attr, only \in BOOLEAN : BeginWrite(op, w, only)
  \/ \E r \in DOMAIN write :
       \/ MatchMode(r) \/ SweepRedirects(r) \/ WriteLocal(r)
       \/ At(r, "send") /\ \E answer \in [Sent(r) -> {"ok", "gone", "failed"}] : Forward(r, answer)

ForwardingSpec == ForwardingInit /\ [][ForwardingNext]_fwdVars

-----------------------------------------------------------------------------
(* Properties *)

Registration == [n : Nat, mode : Mode, info : Seq(SUBSET Attr) \ {<<>>}, loop : BOOLEAN, ops : BOOLEAN]
RegCall == [pc : {"idle", "store"}, shape : SUBSET Shape, old : SUBSET Registration]
ItemType == [reg : Registration, ix : Nat, part : SUBSET Attr]
TookType == [n : Nat, part : SUBSET Attr]
WritePc == Mode \cup {"sweep", "send", "local", "done"}
WriteStatus == {0, 201, 204, 207, 404, 409}
WriteRequest == [
  op : Op, want : SUBSET Attr, frag : SUBSET Attr, existed : BOOLEAN, known : SUBSET Nat, pc : WritePc,
  status : WriteStatus,
  items : SUBSET ItemType, errors : BOOLEAN, took : SUBSET TookType, wrote : SUBSET Attr, silent : SUBSET Attr]

\* Types
ForwardingTypeOK ==
  /\ made \in Nat /\ regs \subseteq Registration /\ \A g \in regs : g.n \in 1..made
  /\ regLock \in RegThread \cup {"none"} /\ regCall \in [RegThread -> RegCall]
  /\ \A t \in RegThread : regCall[t].pc = "store" => \E s \in Shape : regCall[t].shape = {s}
  /\ there \in BOOLEAN /\ data \in [Attr -> 0..(MaxWrite + 1)]
  /\ write \in Seq(WriteRequest) /\ Len(write) <= MaxWrite
  /\ \A r \in DOMAIN write : /\ write[r].wrote \subseteq write[r].frag /\ write[r].frag \subseteq write[r].want
                             /\ write[r].pc = "done" <=> write[r].status # 0
                             /\ write[r].pc # "done" => write[r].wrote = {}

\* No two registrations of the cache are both responsible, and one of them alone, for one attribute -
\* however many are posted and patched at the same moment
ClaimsDisjoint ==
  \A g, h \in regs :
    g # h /\ g.mode = "exclusive" /\ Authoritative(h) => Claims(g) \cap Claims(h) = {}

\* Where the routines do not take a source's attributes out of a request: a source that would loop, in
\* a batch and by a compacted array; one that does not support the operation; all but the first
\* RegistrationInfo of an exclusive source in a batch create
PassedOver(r, g, a) ==
  \/ g.loop /\ (write[r].op \in BatchOp \/ (write[r].op \in EntriesOp /\ g.mode = "redirect"))
  \/ ~g.ops /\ write[r].op \in EntriesOp
  \/ write[r].op = "batchCreate" /\ g.mode = "exclusive" /\ a \notin g.info[1]

\* Registered before the request began, and still
Standing(r) == {g \in regs : Authoritative(g) /\ g.n \in write[r].known}

\* A request stores nothing here that another is responsible for, and hands what one source alone is
\* responsible for to no other - whatever is registered, patched and deleted meanwhile
ClaimHonoured ==
  \A r \in DOMAIN write : \A g \in Standing(r) : \A a \in Claims(g) :
    ~PassedOver(r, g, a) =>
      /\ data[a] # Stamp(r)
      /\ g.mode = "exclusive" => \A e \in write[r].took : a \in e.part => e.n = g.n

\* What a request answered with 201 or 204 asked for is done, here or at a source, but for what the
\* code lets go in silence: a source's 404, a loop, a redirect swept for nobody - and what was left
\* for an entity that is not here
AnsweredWasDone ==
  \A r \in DOMAIN write :
    write[r].status \in {201, 204} =>
      \A a \in write[r].want :
        \/ a \in write[r].wrote \/ \E e \in write[r].took : a \in e.part
        \/ a \in write[r].silent
        \/ a \in write[r].frag /\ ~Creates(write[r]) /\ write[r].op \notin BatchOp

\* "The broker must not hold them" (postEntityBatchCreate.c): what an exclusive or a redirect source
\* claims a request does not store here, with no exception
ClaimedNotStored ==
  \A r \in DOMAIN write : \A g \in Standing(r) : \A a \in Claims(g) : data[a] # Stamp(r)

=============================================================================
