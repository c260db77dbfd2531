---------------------------- MODULE StoreProofs -----------------------------
(***************************************************************************)
(* The safety of the durable store for any number of handles, operation    *)
(* IDs, calls, I/O failures, process deaths and power losses.              *)
(***************************************************************************)
EXTENDS Store, KernelProofs

(* The entries of a file are ranked by their heads without ties, so that   *)
(* its log lists each of them once.                                        *)
Ranked(entries) ==
    /\ IsFiniteSet(entries)
    /\ \A e \in entries : Rank(e, entries) \in 1 .. Cardinality(entries)
    /\ \A e, x \in entries : Rank(e, entries) = Rank(x, entries) => e = x
    /\ \A k \in 1 .. Cardinality(entries) : \E e \in entries : Rank(e, entries) = k

(* A file that reached its place whole: its operations account for its     *)
(* contract, they are ranked, and one operation ID names one of them.      *)
FileSound(f) ==
    \/ f = NoFile
    \/ /\ Stored(f)
       /\ Accounted(f.contract, f.entries)
       /\ Ranked(f.entries)
       /\ \A e, g \in f.entries : e.op.id = g.op.id => e = g
       /\ \A e \in f.entries : e.command = e.op.command

(* What a replacement keeps of the file it replaces.                       *)
Grows(f, g) ==
    \/ f = NoFile
    \/ /\ Stored(f)
       /\ PrefixOf(HeadOf(f.contract), HeadOf(g.contract))
       /\ f.entries \subseteq g.entries
       /\ g.contract.agreement.sealed.key = f.contract.agreement.sealed.key

(* A replacement has one entry more, with a new ID and a longer head than  *)
(* any other, or is the first file.                                        *)
Follows(e, entries) ==
    /\ e \notin entries /\ Len(e.head) \in Nat
    /\ \A x \in entries : /\ x.op.id # e.op.id
                          /\ Len(x.head) \in Nat /\ Len(x.head) < Len(e.head)

OneMore(f, g) ==
    \/ f = NoFile /\ g.entries = {}
    \/ /\ Stored(f)
       /\ \E e : g.entries = f.entries \cup {e} /\ Follows(e, f.entries)

PC == {"idle", "waiting", "locked", "staged", "synced", "renamed", "confirm"}
Unlocked == {"idle", "waiting"}
Reply == {"none", "ok", "refused", "failed", "uncertain"}

CallSound(call) ==
    /\ call.kind \in {"create", "view", "prepare", "apply"}
    /\ call.kind = "create" => call.key \in Key
    /\ call.kind = "apply" => call.now \in Nat

Record(pc, reply, call, next, synced, entry) ==
    [pc |-> pc, reply |-> reply, call |-> call, next |-> next, synced |-> synced,
     entry |-> entry]

(* A call in progress, while path(id) names d.  What it is about to write  *)
(* is whole and grows d, it has been synced before it is renamed, and the  *)
(* result it will report is in what it writes or found.                    *)
ProcSound(q, d) ==
    /\ q = Record(q.pc, q.reply, q.call, q.next, q.synced, q.entry)
    /\ q.pc \in PC /\ q.reply \in Reply
    /\ q.pc # "idle" => q.reply = "none" /\ CallSound(q.call)
    /\ q.pc \in {"staged", "synced"} =>
          /\ Stored(q.next) /\ FileSound(q.next) /\ Grows(d, q.next) /\ OneMore(d, q.next)
          /\ q.call.kind \in {"create", "apply"}
          /\ q.call.kind = "apply" => q.entry \in q.next.entries
    /\ q.pc = "synced" => q.synced = TRUE
    /\ q.pc \in {"renamed", "confirm"} =>
          Stored(d) /\ (q.call.kind = "apply" => q.entry \in d.entries)

(***************************************************************************)
(* The inductive invariant.                                                *)
(***************************************************************************)
ProcsSound ==
    /\ proc = [p \in Proc |-> proc[p]]
    /\ \A p \in Proc : ProcSound(proc[p], dir)

Exclusive ==
    /\ lock \in Proc \cup {NoProc}
    /\ \A p \in Proc : proc[p].pc \notin Unlocked <=> lock = p

FilesSound == \A f \in Files : FileSound(f)

Told ==
    /\ \A e \in acked, f \in Files : Stored(f) /\ e \in f.entries
    /\ \A h \in viewed, f \in Files : Stored(f) /\ PrefixOf(h, HeadOf(f.contract))

Bounded == calls \in 0 .. MaxCalls /\ faults \in 0 .. MaxFaults

SInv == ProcsSound /\ Exclusive /\ FilesSound /\ Told /\ Bounded

(* An entry that left a longer chain than all others ranks after them.     *)
LEMMA RankedOneMore ==
    ASSUME NEW E, Ranked(E), NEW e, Follows(e, E)
    PROVE  /\ Ranked(E \cup {e})
           /\ Cardinality(E) \in Nat
           /\ Cardinality(E \cup {e}) = Cardinality(E) + 1
           /\ \A k \in 1 .. Cardinality(E) : Nth(E \cup {e}, k) = Nth(E, k)
           /\ Nth(E \cup {e}, Cardinality(E) + 1) = e
PROOF
<1> DEFINE n == Cardinality(E)
           F == E \cup {e}
<1>1. /\ e \notin E /\ Len(e.head) \in Nat
       /\ \A x \in E : Len(x.head) \in Nat /\ Len(x.head) < Len(e.head)
  BY DEF Follows
<1>2. /\ IsFiniteSet(F) /\ n \in Nat /\ Cardinality(F) = n + 1
  BY <1>1, FS_AddElement, FS_CardinalityType DEF Ranked
<1>3. ASSUME NEW x \in E
      PROVE  Rank(x, F) = Rank(x, E)
  <2>1. {y \in F : Len(y.head) <= Len(x.head)} = {y \in E : Len(y.head) <= Len(x.head)}
    BY <1>1
  <2> QED
    BY <2>1 DEF Rank
<1>4. Rank(e, F) = n + 1
  <2>1. {y \in F : Len(y.head) <= Len(e.head)} = F
    BY <1>1
  <2> QED
    BY <1>2, <2>1 DEF Rank
<1>5. \A x \in E : Rank(x, E) \in 1 .. n
  BY DEF Ranked
<1>6. \A x, y \in E : Rank(x, E) = Rank(y, E) => x = y
  BY DEF Ranked
<1>7. \A k \in 1 .. n : \E x \in E : Rank(x, E) = k
  BY DEF Ranked
<1>8. \A x : x \in F <=> x \in E \/ x = e
  OBVIOUS
<1> HIDE DEF n, F
<1>9. \A x \in F : Rank(x, F) \in 1 .. n + 1
  BY <1>8, <1>2, <1>3, <1>4, <1>5
<1>10. ASSUME NEW x \in F, NEW y \in F, Rank(x, F) = Rank(y, F)
      PROVE  x = y
  BY <1>8, <1>2, <1>3, <1>4, <1>5, <1>6, <1>10
<1>11. ASSUME NEW k \in 1 .. n
      PROVE  \E x \in E : Rank(x, E) = k /\ Rank(x, F) = k
  BY <1>3, <1>7
<1>12. \A k \in 1 .. n + 1 : \E x \in F : Rank(x, F) = k
  BY <1>8, <1>2, <1>4, <1>11
<1>13. Ranked(F)
  BY <1>2, <1>9, <1>10, <1>12 DEF Ranked
<1>14. ASSUME NEW k \in 1 .. n
       PROVE  Nth(F, k) = Nth(E, k)
  <2>1. PICK x \in E : Rank(x, E) = k /\ Rank(x, F) = k
    BY <1>11
  <2>2. \A y \in E : Rank(y, E) = k => y = x
    BY <1>6, <2>1
  <2>3. \A y \in F : Rank(y, F) = k => y = x
    BY <1>8, <1>10, <2>1
  <2> QED
    BY <1>8, <2>1, <2>2, <2>3 DEF Nth
<1>15. Nth(F, n + 1) = e
  <2>1. \A y \in F : Rank(y, F) = n + 1 => y = e
    BY <1>8, <1>4, <1>10
  <2> QED
    BY <1>8, <1>4, <2>1 DEF Nth
<1> QED
  BY <1>2, <1>13, <1>14, <1>15 DEF n, F

(* An idle call is sound whatever path(id) names.                          *)
LEMMA IdleSound ==
    ASSUME NEW reply \in Reply, NEW d
    PROVE  ProcSound(Idle(reply), d) /\ Idle(reply).pc = "idle"
PROOF
  BY DEF ProcSound, Idle, Record, PC

(* A call that does not hold the lock depends on no file.                  *)
LEMMA UnlockedSound ==
    ASSUME NEW q, NEW d, NEW d2, ProcSound(q, d), q.pc \in Unlocked
    PROVE  ProcSound(q, d2)
PROOF
  BY DEF ProcSound, Unlocked

(* Before the first call there is no file and no history.                  *)
LEMMA StInitInv == StInit => SInv
PROOF
<1> SUFFICES ASSUME StInit
             PROVE  SInv
  OBVIOUS
<1>1. "none" \in Reply
  BY DEF Reply
<1>2. ProcsSound
  BY <1>1, IdleSound DEF StInit, ProcsSound
<1>3. Exclusive
  <2>1. \A p \in Proc : proc[p].pc = "idle" /\ NoProc # p
    BY <1>1, IdleSound, StoreAssumption DEF StInit
  <2> QED
    BY <2>1 DEF StInit, Exclusive, Unlocked
<1>4. FilesSound /\ Told /\ Bounded
  BY StoreAssumption DEF StInit, FilesSound, Files, FileSound, Told, Bounded
<1> QED
  BY <1>2, <1>3, <1>4 DEF SInv

(* Only p's call moves.                                                    *)
OnlyMoves(p, q) ==
    /\ proc' = [r \in Proc |-> proc'[r]]
    /\ \A r \in Proc \ {p} : proc'[r] = proc[r]
    /\ proc'[p] = q

(* Going on under the lock (Goto) moves p's call alone and keeps its       *)
(* arguments.                                                              *)
LEMMA GotoMoves ==
    ASSUME SInv, NEW p \in Proc, NEW pc, NEW next, NEW entry, Goto(p, pc, next, entry)
    PROVE  /\ OnlyMoves(p, Record(pc, proc[p].reply, proc[p].call, next, proc[p].synced, entry))
           /\ lock' = lock
PROOF
<1> DEFINE q == proc[p]
<1>1. proc = [r \in Proc |-> proc[r]]
  BY DEF SInv, ProcsSound
<1>2. q = Record(q.pc, q.reply, q.call, q.next, q.synced, q.entry)
  BY DEF SInv, ProcsSound, ProcSound
<1>3. /\ proc' = [proc EXCEPT ![p] = [q EXCEPT !.pc = pc, !.next = next, !.entry = entry]]
      /\ lock' = lock
  BY <1>1, <1>2 DEF Goto, Record
<1> DEFINE n == [q EXCEPT !.pc = pc, !.next = next, !.entry = entry]
<1>4. n = Record(pc, q.reply, q.call, next, q.synced, entry)
  <2>1. q \in [pc : {q.pc}, reply : {q.reply}, call : {q.call}, next : {q.next},
               synced : {q.synced}, entry : {q.entry}]
    BY <1>2 DEF Record
  <2> HIDE DEF q
  <2>2. n \in [pc : {pc}, reply : {q.reply}, call : {q.call}, next : {next},
               synced : {q.synced}, entry : {entry}]
    BY <2>1
  <2> HIDE DEF n
  <2> QED
    BY <2>2 DEF Record
<1> HIDE DEF n, q
<1> QED
  BY <1>1, <1>3, <1>4 DEF OnlyMoves, q, n

(* Returning leaves p idle and gives the lock back if p held it.           *)
LEMMA ReturnMoves ==
    ASSUME SInv, NEW p \in Proc, NEW reply, Return(p, reply)
    PROVE  /\ OnlyMoves(p, Idle(reply))
           /\ lock' = IF lock = p THEN NoProc ELSE lock
PROOF
<1>1. proc = [r \in Proc |-> proc[r]]
  BY DEF SInv, ProcsSound
<1> QED
  BY <1>1 DEF Return, OnlyMoves

(* A step that moves one call and leaves the files and the history alone   *)
(* keeps the invariant if the call it leaves is sound and the lock is held *)
(* by p exactly as p's place says.                                         *)
LEMMA MoveKeeps ==
    ASSUME SInv, NEW p \in Proc, NEW q, OnlyMoves(p, q), ProcSound(q, dir),
           UNCHANGED <<dir, disk, acked, viewed>>, Bounded',
           lock' \in Proc \cup {NoProc}, q.pc \notin Unlocked <=> lock' = p,
           lock' = lock \/ {lock, lock'} \subseteq {p, NoProc}
    PROVE  SInv'
PROOF
<1>1. ProcsSound'
  BY DEF SInv, ProcsSound, OnlyMoves
<1>2. Exclusive'
  <2> SUFFICES ASSUME NEW r \in Proc
               PROVE  proc'[r].pc \notin Unlocked <=> lock' = r
    BY DEF Exclusive
  <2>1. CASE r = p
    BY <2>1 DEF OnlyMoves
  <2>2. CASE r # p
    <3>1. proc'[r] = proc[r] /\ (proc[r].pc \notin Unlocked <=> lock = r)
      BY <2>2 DEF OnlyMoves, SInv, Exclusive
    <3>2. lock' = r <=> lock = r
      BY <2>2, StoreAssumption
    <3> QED
      BY <3>1, <3>2
  <2> QED
    BY <2>1, <2>2
<1>3. FilesSound' /\ Told'
  BY DEF SInv, FilesSound, Told, Files
<1> QED
  BY <1>1, <1>2, <1>3 DEF SInv

(* Giving up, for whatever reason, keeps the invariant.                    *)
LEMMA ReturnKeeps ==
    ASSUME SInv, NEW p \in Proc, NEW reply \in Reply, Return(p, reply),
           UNCHANGED <<fileVars, clientVars>>, Bounded'
    PROVE  SInv'
PROOF
<1>1. OnlyMoves(p, Idle(reply)) /\ lock' = IF lock = p THEN NoProc ELSE lock
  BY ReturnMoves
<1>2. ProcSound(Idle(reply), dir) /\ Idle(reply).pc \in Unlocked
  BY IdleSound DEF Unlocked
<1>3. lock \in Proc \cup {NoProc}
  BY DEF SInv, Exclusive
<1>4. lock' \in Proc \cup {NoProc} /\ lock' # p
  BY <1>1, <1>3, StoreAssumption
<1>5. lock' = lock \/ {lock, lock'} \subseteq {p, NoProc}
  BY <1>1
<1>6. UNCHANGED <<dir, disk, acked, viewed>>
  BY DEF fileVars, clientVars
<1> QED
  BY <1>1, <1>2, <1>4, <1>5, <1>6, MoveKeeps

(* A call under the lock that goes on to a sound place keeps it.           *)
LEMMA GotoKeeps ==
    ASSUME SInv, NEW p \in Proc, NEW pc, NEW next, NEW entry, Goto(p, pc, next, entry),
           pc \notin Unlocked, proc[p].pc \notin Unlocked,
           ProcSound(Record(pc, proc[p].reply, proc[p].call, next, proc[p].synced, entry), dir),
           UNCHANGED <<fileVars, clientVars>>, Bounded'
    PROVE  SInv'
PROOF
<1> DEFINE q == Record(pc, proc[p].reply, proc[p].call, next, proc[p].synced, entry)
<1>1. OnlyMoves(p, q) /\ lock' = lock
  BY GotoMoves
<1>2. q.pc = pc
  BY DEF Record
<1>3. ProcSound(q, dir)
  OBVIOUS
<1> HIDE DEF q
<1>4. lock = p /\ lock \in Proc \cup {NoProc}
  BY DEF SInv, Exclusive
<1>5. UNCHANGED <<dir, disk, acked, viewed>>
  BY DEF fileVars, clientVars
<1> QED
  BY <1>1, <1>2, <1>3, <1>4, <1>5, MoveKeeps

(***************************************************************************)
(* One lemma per action.                                                   *)
(***************************************************************************)
(* Starting a call.                                                        *)
LEMMA BeginKeeps ==
    ASSUME SInv, NEW p \in Proc, NEW call \in Call, Begin(p, call)
    PROVE  SInv'
PROOF
<1> DEFINE q == [Idle("none") EXCEPT !.pc = "waiting", !.call = call]
<1>1. proc = [r \in Proc |-> proc[r]] /\ proc[p].pc \in Unlocked
  BY DEF SInv, ProcsSound, Begin, Unlocked
<1>2. q = Record("waiting", "none", call, NoFile, FALSE, NoFile)
  <2> DEFINE i == Idle("none")
             none == [kind |-> "none"]
  <2>1. i \in [pc : {"idle"}, reply : {"none"}, call : {none}, next : {NoFile},
               synced : {FALSE}, entry : {NoFile}]
    BY DEF Idle
  <2> HIDE DEF i, none
  <2>2. [i EXCEPT !.pc = "waiting", !.call = call]
          \in [pc : {"waiting"}, reply : {"none"}, call : {call}, next : {NoFile},
              synced : {FALSE}, entry : {NoFile}]
    BY <2>1
  <2>3. q \in [pc : {"waiting"}, reply : {"none"}, call : {call}, next : {NoFile},
               synced : {FALSE}, entry : {NoFile}]
    BY <2>2 DEF i
  <2> HIDE DEF q
  <2> QED
    BY <2>3 DEF Record
<1>3. CallSound(call)
  BY StoreAssumption DEF Call, CallSound
<1> HIDE DEF q
<1>4. OnlyMoves(p, q)
  BY <1>1 DEF Begin, OnlyMoves, q
<1>5. q.pc = "waiting" /\ ProcSound(q, dir)
  BY <1>2, <1>3 DEF ProcSound, Record, PC, Reply
<1>6. Bounded'
  BY StoreAssumption DEF SInv, Bounded, Begin
<1>7. lock' = lock /\ lock' \in Proc \cup {NoProc} /\ lock' # p
  BY <1>1 DEF SInv, Exclusive, Begin
<1>8. UNCHANGED <<dir, disk, acked, viewed>>
  BY DEF Begin, fileVars, clientVars
<1> QED
  BY <1>4, <1>5, <1>6, <1>7, <1>8, MoveKeeps DEF Unlocked

(* Taking the free lock.                                                   *)
LEMMA WithLockKeeps ==
    ASSUME SInv, NEW p \in Proc, WithLock(p)
    PROVE  SInv'
PROOF
<1> DEFINE q == proc[p]
           n == [q EXCEPT !.pc = "locked"]
<1>1. proc = [r \in Proc |-> proc[r]] /\ ProcSound(q, dir)
  BY DEF SInv, ProcsSound
<1>2. q \in [pc : {q.pc}, reply : {q.reply}, call : {q.call}, next : {q.next},
             synced : {q.synced}, entry : {q.entry}]
  BY <1>1 DEF ProcSound, Record
<1>3. q.reply = "none" /\ CallSound(q.call)
  BY <1>1 DEF ProcSound, WithLock
<1> HIDE DEF q
<1>4. n \in [pc : {"locked"}, reply : {q.reply}, call : {q.call}, next : {q.next},
             synced : {q.synced}, entry : {q.entry}]
  BY <1>2
<1> HIDE DEF n
<1>5. n = Record("locked", q.reply, q.call, q.next, q.synced, q.entry)
  BY <1>4 DEF Record
<1>6. ProcSound(n, dir) /\ n.pc = "locked"
  BY <1>3, <1>5 DEF ProcSound, Record, PC, Reply
<1>7. proc' = [proc EXCEPT ![p] = n]
  BY DEF WithLock, n, q
<1>8. OnlyMoves(p, n)
  BY <1>1, <1>7 DEF OnlyMoves
<1>9. lock' = p /\ lock = NoProc /\ Bounded' /\ UNCHANGED <<dir, disk, acked, viewed>>
  BY DEF WithLock, SInv, Bounded, fileVars, clientVars
<1> QED
  BY <1>6, <1>8, <1>9, MoveKeeps DEF Unlocked

(* What is known of a call under the lock.                                 *)
LEMMA UnderLock ==
    ASSUME SInv, NEW p \in Proc, proc[p].pc = "locked", UNCHANGED <<calls, faults>>
    PROVE  /\ CallSound(proc[p].call) /\ proc[p].reply = "none"
           /\ proc[p].pc \notin Unlocked /\ Bounded' /\ "refused" \in Reply
           /\ FileSound(dir)
PROOF
  BY DEF SInv, ProcsSound, ProcSound, Unlocked, Bounded, Reply, FilesSound, Files

(* Create: a new contract where there was none.                            *)
LEMMA CreateKeeps ==
    ASSUME SInv, NEW p \in Proc, Create(p)
    PROVE  SInv'
PROOF
<1> DEFINE call == proc[p].call
           f == StoredContract(NewContract(call.key), {})
<1>1. proc[p].pc = "locked" /\ call.kind = "create" /\ UNCHANGED <<fileVars, clientVars>>
      /\ UNCHANGED <<calls, faults>>
  BY DEF Create
<1>2. /\ CallSound(call) /\ proc[p].reply = "none" /\ proc[p].pc \notin Unlocked
      /\ Bounded' /\ "refused" \in Reply
  BY <1>1, UnderLock
<1>3. CASE Return(p, "refused")
  BY <1>1, <1>2, <1>3, ReturnKeeps
<1>4. CASE dir = NoFile /\ Goto(p, "staged", f, NoFile)
  <2>1. Accounted(NewContract(call.key), {})
    BY <1>1, <1>2, NewAccounted, StoreTermsAssumption DEF CallSound
  <2>2. Stored(f) /\ f.contract = NewContract(call.key) /\ f.entries = {}
    BY DEF StoredContract, Stored
  <2>3. FileSound(f)
    <3>1. Ranked({})
      BY FS_EmptySet DEF Ranked
    <3> QED
      BY <2>1, <2>2, <3>1 DEF FileSound
  <2> HIDE DEF f, call
  <2>4. ProcSound(Record("staged", proc[p].reply, call, f, proc[p].synced, NoFile), dir)
    BY <1>1, <1>2, <1>4, <2>2, <2>3 DEF ProcSound, Record, PC, Reply, Grows,
       OneMore
  <2> QED
    BY <1>1, <1>2, <1>4, <2>4, GotoKeeps DEF call, Unlocked
<1> QED
  BY <1>3, <1>4 DEF Create

(* View and Prepare: what is there, if it can be read.                     *)
LEMMA ViewKeeps ==
    ASSUME SInv, NEW p \in Proc, View(p)
    PROVE  SInv'
PROOF
<1> DEFINE call == proc[p].call
<1>1. proc[p].pc = "locked" /\ call.kind \in {"view", "prepare"}
      /\ UNCHANGED <<fileVars, clientVars>> /\ UNCHANGED <<calls, faults>>
  BY DEF View
<1>2. /\ CallSound(call) /\ proc[p].reply = "none" /\ proc[p].pc \notin Unlocked
      /\ Bounded' /\ "refused" \in Reply
  BY <1>1, UnderLock
<1>3. CASE Return(p, "refused")
  BY <1>1, <1>2, <1>3, ReturnKeeps
<1>4. CASE Readable /\ Goto(p, "confirm", NoFile, NoFile)
  <2>1. Stored(dir)
    BY <1>4 DEF Readable
  <2> HIDE DEF call
  <2>2. ProcSound(Record("confirm", proc[p].reply, call, NoFile, proc[p].synced, NoFile), dir)
    BY <1>1, <1>2, <2>1 DEF ProcSound, Record, PC, Reply
  <2> QED
    BY <1>1, <1>2, <1>4, <2>2, GotoKeeps DEF call, Unlocked
<1> QED
  BY <1>3, <1>4 DEF View

(* The file an accepted operation asks for is whole and grows the one it   *)
(* was read from.                                                          *)
LEMMA CommitSound ==
    ASSUME NEW f, Stored(f), FileSound(f), NEW op, NEW sig, NEW r \in Rand, NEW now \in Nat,
           sig.by = Signer(op.command.action), \A e \in f.entries : e.op.id # op.id,
           CanApplyVerified(f.contract, op.command, sig, r, now),
           NEW c, c = DoApplyVerified(f.contract, op.command, sig, r, now),
           NEW entry, entry.op = op, entry.command = op.command, entry.sig = sig,
           entry.head = HeadOf(c), entry.status = c.agreement.status,
           NEW g, Stored(g), g.contract = c, g.entries = f.entries \cup {entry}
    PROVE  FileSound(g) /\ Grows(f, g) /\ OneMore(f, g) /\ entry \in g.entries
PROOF
<1>1. /\ Accounted(f.contract, f.entries) /\ Ranked(f.entries)
      /\ \A e, x \in f.entries : e.op.id = x.op.id => e = x
      /\ \A e \in f.entries : e.command = e.op.command
  BY DEF FileSound, Stored, NoFile
<1>2. /\ Accounted(c, f.entries \cup {entry}) /\ entry \notin f.entries
      /\ Effect(f.contract, op.command, sig, c)
      /\ PrefixOf(HeadOf(f.contract), HeadOf(c))
  BY <1>1, ApplyAccounted
<1>3. Follows(entry, f.entries)
  <2>1. PICK R : HeadOf(f.contract) \in Seq(R)
    BY <1>1, ChainType DEF Accounted
  <2>2. Len(HeadOf(c)) \in Nat /\ Len(HeadOf(f.contract)) < Len(HeadOf(c))
    BY <1>2, <2>1 DEF Effect, Continues, ReceiptsOf
  <2>3. ASSUME NEW x \in f.entries
        PROVE  Len(x.head) \in Nat /\ Len(x.head) <= Len(HeadOf(f.contract))
    <3>1. PICK n \in 0 .. Len(HeadOf(f.contract)) : x.head = SubSeq(HeadOf(f.contract), 1, n)
      BY <1>1 DEF Accounted, PrefixOf
    <3>2. Len(x.head) = n
      BY <2>1, <3>1
    <3> QED
      BY <2>1, <3>2
  <2>4. \A x \in f.entries : Len(x.head) < Len(HeadOf(c))
    BY <2>1, <2>2, <2>3
  <2> QED
    BY <1>2, <2>2, <2>3, <2>4 DEF Follows
<1>4. Ranked(g.entries)
  <2>1. Ranked(f.entries \cup {entry})
    BY <1>1, <1>3, RankedOneMore
  <2> QED
    BY <2>1
<1>5. OneMore(f, g)
  BY <1>3 DEF OneMore
<1>6. \A e, x \in g.entries : e.op.id = x.op.id => e = x
  BY <1>1
<1>7. \A e \in g.entries : e.command = e.op.command
  BY <1>1
<1>8. FileSound(g)
  BY <1>2, <1>6, <1>7, <1>4 DEF FileSound
<1>9. Grows(f, g)
  BY <1>2 DEF Grows, Effect
<1> QED
  BY <1>8, <1>9, <1>5

(* Apply: refuse, confirm the committed operation, or stage a new one.     *)
LEMMA ApplyKeeps ==
    ASSUME SInv, NEW p \in Proc, NEW r \in Rand, Apply(p, r)
    PROVE  SInv'
PROOF
<1> DEFINE call == proc[p].call
           op == call.op
           sig == [by |-> call.by, body |-> op]
           c == DoApplyVerified(dir.contract, op.command, sig, r, call.now)
           entry == [op |-> op, command |-> op.command, sig |-> sig,
                     head |-> HeadOf(c), status |-> c.agreement.status]
           g == StoredContract(c, dir.entries \cup {entry})
<1>1. proc[p].pc = "locked" /\ call.kind = "apply" /\ UNCHANGED <<fileVars, clientVars>>
      /\ UNCHANGED <<calls, faults>>
  BY DEF Apply
<1>2. /\ CallSound(call) /\ proc[p].reply = "none" /\ proc[p].pc \notin Unlocked
      /\ Bounded' /\ "refused" \in Reply /\ FileSound(dir)
  BY <1>1, UnderLock
<1>3. \/ Return(p, "refused")
      \/ Readable /\ \E e \in Prior(op) : Goto(p, "confirm", NoFile, e)
      \/ /\ Readable /\ Verify(Signer(op.command.action), op, sig) /\ Prior(op) = {}
         /\ CanApplyVerified(dir.contract, op.command, sig, r, call.now)
         /\ Goto(p, "staged", g, entry)
  BY DEF Apply
<1>4. CASE Return(p, "refused")
  BY <1>1, <1>2, <1>4, ReturnKeeps
<1>5. ASSUME Readable, NEW e \in Prior(op), Goto(p, "confirm", NoFile, e)
      PROVE  SInv'
  <2>1. Stored(dir) /\ e \in dir.entries
    BY <1>5 DEF Readable, Prior
  <2> HIDE DEF call
  <2>2. ProcSound(Record("confirm", proc[p].reply, call, NoFile, proc[p].synced, e), dir)
    BY <1>1, <1>2, <2>1 DEF ProcSound, Record, PC, Reply
  <2> QED
    BY <1>1, <1>2, <1>5, <2>2, GotoKeeps DEF call, Unlocked
<1>6. CASE /\ Readable /\ Verify(Signer(op.command.action), op, sig) /\ Prior(op) = {}
           /\ CanApplyVerified(dir.contract, op.command, sig, r, call.now)
           /\ Goto(p, "staged", g, entry)
  <2>1. Stored(dir) /\ call.now \in Nat /\ call.by = Signer(op.command.action)
        /\ \A e \in dir.entries : e.op.id # op.id
    BY <1>1, <1>2, <1>6 DEF Readable, Verify, Prior, CallSound
  <2>2. Stored(g) /\ FileSound(g) /\ Grows(dir, g) /\ OneMore(dir, g) /\ entry \in g.entries
    <3>1. sig.by = Signer(op.command.action)
      BY <2>1
    <3>2. CanApplyVerified(dir.contract, op.command, sig, r, call.now)
      BY <1>6
    <3> HIDE DEF sig, op, call
    <3>3. c = DoApplyVerified(dir.contract, op.command, sig, r, call.now)
      OBVIOUS
    <3> HIDE DEF c
    <3>4. /\ entry.op = op /\ entry.command = op.command /\ entry.sig = sig
          /\ entry.head = HeadOf(c) /\ entry.status = c.agreement.status
      OBVIOUS
    <3> HIDE DEF entry
    <3>5. Stored(g) /\ g.contract = c /\ g.entries = dir.entries \cup {entry}
      BY DEF StoredContract, Stored
    <3> HIDE DEF g
    <3> QED
      BY <1>2, <2>1, <3>1, <3>2, <3>3, <3>4, <3>5, CommitSound
  <2> HIDE DEF call, g, entry
  <2>3. ProcSound(Record("staged", proc[p].reply, call, g, proc[p].synced, entry), dir)
    BY <1>1, <1>2, <2>2 DEF ProcSound, Record, PC, Reply
  <2> QED
    BY <1>1, <1>2, <1>6, <2>3, GotoKeeps DEF call, Unlocked
<1> QED
  BY <1>3, <1>4, <1>5, <1>6

(* Syncing the temporary file.                                             *)
LEMMA SyncTempKeeps ==
    ASSUME SInv, NEW p \in Proc, SyncTemp(p)
    PROVE  SInv'
PROOF
<1> DEFINE q == proc[p]
           n == [q EXCEPT !.pc = "synced", !.synced = TRUE]
<1>1. proc = [r \in Proc |-> proc[r]] /\ ProcSound(q, dir) /\ q.pc = "staged"
  BY DEF SInv, ProcsSound, SyncTemp
<1>2. q \in [pc : {q.pc}, reply : {q.reply}, call : {q.call}, next : {q.next},
             synced : {q.synced}, entry : {q.entry}]
  BY <1>1 DEF ProcSound, Record
<1>3. proc' = [proc EXCEPT ![p] = n]
  BY <1>1, <1>2 DEF SyncTemp
<1> HIDE DEF q
<1>4. n \in [pc : {"synced"}, reply : {q.reply}, call : {q.call}, next : {q.next},
             synced : {TRUE}, entry : {q.entry}]
  BY <1>2
<1> HIDE DEF n
<1>5. n = Record("synced", q.reply, q.call, q.next, TRUE, q.entry)
  BY <1>4 DEF Record
<1>6. ProcSound(n, dir) /\ n.pc = "synced"
  BY <1>1, <1>5 DEF ProcSound, Record, PC, Reply
<1>7. OnlyMoves(p, n)
  BY <1>1, <1>3 DEF OnlyMoves
<1>8. lock = p
  BY <1>1 DEF SInv, Exclusive, Unlocked, q
<1>9. lock' = lock /\ Bounded' /\ UNCHANGED <<dir, disk, acked, viewed>>
  BY DEF SyncTemp, SInv, Bounded, fileVars, clientVars
<1> QED
  BY <1>6, <1>7, <1>8, <1>9, MoveKeeps DEF Unlocked

(* Stored chains are sequences, so their prefixes are prefixes for good.   *)
LEMMA GrowsKeepsPrefixes ==
    ASSUME NEW f, NEW g, Stored(f), Stored(g), FileSound(g), Grows(f, g),
           NEW h, PrefixOf(h, HeadOf(f.contract))
    PROVE  PrefixOf(h, HeadOf(g.contract))
PROOF
<1>1. PrefixOf(HeadOf(f.contract), HeadOf(g.contract)) /\ SoundContract(g.contract)
  BY DEF Grows, FileSound, Stored, NoFile, Accounted
<1>2. PICK R : HeadOf(g.contract) \in Seq(R)
  BY <1>1, ChainType
<1> QED
  BY <1>1, <1>2, PrefixFacts

(* Rename: the synced replacement becomes what path(id) names.             *)
LEMMA RenameKeeps ==
    ASSUME SInv, NEW p \in Proc, Rename(p)
    PROVE  SInv'
PROOF
<1> DEFINE q == proc[p]
           g == q.next
           n == [q EXCEPT !.pc = "renamed"]
<1>1. proc = [r \in Proc |-> proc[r]] /\ ProcSound(q, dir) /\ q.pc = "synced"
  BY DEF SInv, ProcsSound, Rename
<1>2. /\ Stored(g) /\ FileSound(g) /\ Grows(dir, g) /\ q.synced = TRUE
      /\ q.call.kind = "apply" => q.entry \in g.entries
  BY <1>1 DEF ProcSound
<1>3. dir' = g /\ disk' = disk \cup {g} /\ lock' = lock /\ acked' = acked /\ viewed' = viewed
      /\ UNCHANGED <<calls, faults>>
  BY <1>2 DEF Rename, clientVars
<1>4. Files' = disk \cup {g}
  BY <1>3 DEF Files
<1>5. q \in [pc : {q.pc}, reply : {q.reply}, call : {q.call}, next : {q.next},
             synced : {q.synced}, entry : {q.entry}]
  BY <1>1 DEF ProcSound, Record
<1>6. proc' = [proc EXCEPT ![p] = n]
  BY <1>1, <1>5 DEF Rename
<1> HIDE DEF q
<1>7. n \in [pc : {"renamed"}, reply : {q.reply}, call : {q.call}, next : {q.next},
             synced : {q.synced}, entry : {q.entry}]
  BY <1>5
<1> HIDE DEF n
<1>8. n = Record("renamed", q.reply, q.call, q.next, q.synced, q.entry)
  BY <1>7 DEF Record
<1>9. ProcSound(n, g) /\ n.pc = "renamed"
  BY <1>1, <1>2, <1>8 DEF ProcSound, Record, PC, Reply
<1>10. OnlyMoves(p, n)
  BY <1>1, <1>6 DEF OnlyMoves
<1>11. lock = p
  BY <1>1 DEF SInv, Exclusive, Unlocked, q
<1> HIDE DEF g
<1>12. ASSUME NEW r \in Proc, r # p
       PROVE  proc'[r] = proc[r] /\ proc[r].pc \in Unlocked /\ ProcSound(proc[r], g)
  <2>1. proc'[r] = proc[r] /\ proc[r].pc \in Unlocked
    BY <1>10, <1>11, <1>12 DEF OnlyMoves, SInv, Exclusive
  <2>2. ProcSound(proc[r], dir)
    BY DEF SInv, ProcsSound
  <2> QED
    BY <2>1, <2>2, UnlockedSound
<1>13. ProcsSound'
  BY <1>3, <1>9, <1>10, <1>12 DEF ProcsSound, OnlyMoves
<1>14. Exclusive'
  BY <1>3, <1>9, <1>10, <1>11, <1>12 DEF Exclusive, OnlyMoves, Unlocked
<1>15. FilesSound' /\ Bounded'
  BY <1>2, <1>3, <1>4 DEF SInv, FilesSound, Files, Bounded
<1>16. Told'
  <2>1. ASSUME NEW e \in acked
        PROVE  e \in g.entries
    BY <1>2 DEF SInv, Told, Files, Grows, Stored, NoFile
  <2>2. ASSUME NEW h \in viewed
        PROVE  PrefixOf(h, HeadOf(g.contract))
    BY <1>2, GrowsKeepsPrefixes DEF SInv, Told, Files
  <2> QED
    BY <1>2, <1>3, <1>4, <2>1, <2>2 DEF SInv, Told, Files
<1> QED
  BY <1>13, <1>14, <1>15, <1>16 DEF SInv

(* syncDirectory: from here on every crash leaves this file.               *)
LEMMA SyncDirectoryKeeps ==
    ASSUME SInv, NEW p \in Proc, SyncDirectory(p)
    PROVE  SInv'
PROOF
<1> DEFINE q == proc[p]
<1>1. /\ Return(p, "ok") /\ dir' = dir /\ disk' = {dir} /\ Report(p) /\ "ok" \in Reply
      /\ UNCHANGED <<calls, faults>>
  BY DEF SyncDirectory, Reply
<1>2. Stored(dir) /\ (q.call.kind = "apply" => q.entry \in dir.entries)
  BY DEF SyncDirectory, SInv, ProcsSound, ProcSound
<1>3. OnlyMoves(p, Idle("ok")) /\ lock' = IF lock = p THEN NoProc ELSE lock
  BY <1>1, ReturnMoves
<1>4. ProcSound(Idle("ok"), dir) /\ Idle("ok").pc \in Unlocked
  BY <1>1, IdleSound DEF Unlocked
<1>5. ProcsSound'
  BY <1>1, <1>3, <1>4 DEF SInv, ProcsSound, OnlyMoves
<1>6. Exclusive'
  <2>1. lock \in Proc \cup {NoProc} /\ \A r \in Proc : proc[r].pc \notin Unlocked <=> lock = r
    BY DEF SInv, Exclusive
  <2>2. lock' \in Proc \cup {NoProc} /\ lock' # p
    BY <1>3, <2>1, StoreAssumption
  <2>3. ASSUME NEW r \in Proc, r # p
        PROVE  lock' = r <=> lock = r
    BY <1>3, <2>3, StoreAssumption
  <2> QED
    BY <1>3, <1>4, <2>1, <2>2, <2>3 DEF Exclusive, OnlyMoves
<1>7. Files' = {dir}
  BY <1>1 DEF Files
<1>8. FileSound(dir)
  BY DEF SInv, FilesSound, Files
<1>9. FilesSound' /\ Bounded'
  BY <1>1, <1>7, <1>8 DEF SInv, FilesSound, Bounded
<1>10. Told'
  <2>1. acked' \subseteq acked \cup dir.entries
    BY <1>1, <1>2 DEF Report
  <2>2. viewed' \subseteq viewed \cup {HeadOf(dir.contract)}
    BY <1>1 DEF Report
  <2>3. SoundContract(dir.contract)
    BY <1>2, <1>8 DEF FileSound, Stored, NoFile, Accounted
  <2>4. PrefixOf(HeadOf(dir.contract), HeadOf(dir.contract))
    BY <2>3, ChainType, PrefixFacts
  <2>5. /\ \A e \in acked : e \in dir.entries
        /\ \A h \in viewed : PrefixOf(h, HeadOf(dir.contract))
    BY DEF SInv, Told, Files
  <2> QED
    BY <1>1, <1>2, <1>7, <2>1, <2>2, <2>4, <2>5 DEF Told
<1> QED
  BY <1>5, <1>6, <1>9, <1>10 DEF SInv

(* Failures and deaths give the lock back and leave the files alone.       *)
LEMMA FaultKeeps ==
    ASSUME SInv, NEW p \in Proc, IOError(p) \/ Die(p)
    PROVE  SInv'
PROOF
<1>1. PICK reply \in Reply : Return(p, reply)
  BY DEF IOError, Die, Reply
<1>2. UNCHANGED <<fileVars, clientVars>> /\ Bounded'
  BY StoreAssumption DEF IOError, Die, SInv, Bounded
<1> QED
  BY <1>1, <1>2, ReturnKeeps

(* A power loss leaves one of the files the disk may hold, and nobody runs.*)
LEMMA PowerLossKeeps ==
    ASSUME SInv, PowerLoss
    PROVE  SInv'
PROOF
<1>1. PICK f \in disk : dir' = f /\ disk' = {f}
  BY DEF PowerLoss
<1>2. Files' = {f} /\ f \in Files
  BY <1>1 DEF Files
<1>3. lock' = NoProc /\ proc' = [p \in Proc |-> Idle("none")] /\ "none" \in Reply
      /\ acked' = acked /\ viewed' = viewed
  BY DEF PowerLoss, clientVars, Reply
<1>4. ProcsSound'
  BY <1>3, IdleSound DEF ProcsSound
<1>5. Exclusive'
  <2>1. \A p \in Proc : proc'[p].pc = "idle" /\ NoProc # p
    BY <1>3, IdleSound, StoreAssumption
  <2> QED
    BY <1>3, <2>1 DEF Exclusive, Unlocked
<1>6. FilesSound'
  BY <1>2 DEF SInv, FilesSound
<1>7. Told'
  BY <1>2, <1>3 DEF SInv, Told
<1>8. Bounded'
  BY StoreAssumption DEF PowerLoss, SInv, Bounded
<1> QED
  BY <1>4, <1>5, <1>6, <1>7, <1>8 DEF SInv

(* Every step keeps the invariant.                                         *)
LEMMA StNextInv == SInv /\ [StNext]_storeVars => SInv'
PROOF
<1> SUFFICES ASSUME SInv, [StNext]_storeVars
             PROVE  SInv'
  OBVIOUS
<1>1. CASE UNCHANGED storeVars
  BY <1>1 DEF storeVars, SInv, ProcsSound, Exclusive, FilesSound, Told, Bounded, Files
<1>2. CASE StNext
  BY <1>2, BeginKeeps, WithLockKeeps, CreateKeeps, ViewKeeps, ApplyKeeps, SyncTempKeeps,
     RenameKeeps, SyncDirectoryKeeps, FaultKeeps, PowerLossKeeps DEF StNext, Step
<1> QED
  BY <1>1, <1>2

(* The inductive invariant implies the five invariants below.              *)
LEMMA StInvImplies ==
    SInv => StTypeOK /\ FilesRestore /\ AckedDurable /\ ViewedDurable /\ OneResultPerID
PROOF
<1> SUFFICES ASSUME SInv
             PROVE  StTypeOK /\ FilesRestore /\ AckedDurable /\ ViewedDurable /\ OneResultPerID
  OBVIOUS
<1>1. ASSUME NEW f \in Files, Stored(f)
      PROVE  /\ Accounted(f.contract, f.entries)
             /\ \A e, g \in f.entries : e.op.id = g.op.id => e = g
  BY <1>1 DEF SInv, FilesSound, FileSound, Stored, NoFile
<1>2. ASSUME NEW f \in Files, Stored(f)
      PROVE  \A h : PrefixOf(h, HeadOf(f.contract)) => IsPrefix(h, HeadOf(f.contract))
  <2>1. SoundContract(f.contract)
    BY <1>1, <1>2 DEF Accounted
  <2> QED
    BY <2>1, ChainType, PrefixFacts
<1>3. StTypeOK
  <2>1. \A f \in disk : Stored(f) => f.contract.agreed \in BOOLEAN
    BY <1>1 DEF Files, Accounted, SoundContract
  <2>2. \A p \in Proc : proc[p].reply \in Reply
    BY DEF SInv, ProcsSound, ProcSound
  <2> QED
    BY <2>1, <2>2 DEF StTypeOK, SInv, Exclusive, Bounded, Unlocked, Reply
<1>4. FilesRestore
  BY <1>1, AccountedRestores DEF FilesRestore, SInv, FilesSound, FileSound
<1>5. AckedDurable
  <2> SUFFICES ASSUME NEW e \in acked, NEW f \in Files
               PROVE  Stored(f) /\ e \in f.entries /\ IsPrefix(e.head, HeadOf(f.contract))
    BY DEF AckedDurable
  <2>1. Stored(f) /\ e \in f.entries
    BY DEF SInv, Told
  <2>2. PrefixOf(e.head, HeadOf(f.contract))
    BY <1>1, <2>1 DEF Accounted
  <2> QED
    BY <1>2, <2>1, <2>2
<1>6. ViewedDurable
  BY <1>2 DEF ViewedDurable, SInv, Told
<1>7. OneResultPerID
  <2>1. dir \in Files
    BY DEF Files
  <2> QED
    BY <1>1, <2>1 DEF OneResultPerID, SInv, Told
<1> QED
  BY <1>3, <1>4, <1>5, <1>6, <1>7

(* Type correctness, and mutual exclusion: only the holder of the lock     *)
(* file is past withLock, across failures, deaths and power losses.        *)
THEOREM StoreTyped == StSpec => []StTypeOK
PROOF
  BY StInitInv, StNextInv, StInvImplies, PTL DEF StSpec

(* Safety: every file a crash can leave restores.                          *)
THEOREM CrashesLeaveReadableFiles == StSpec => []FilesRestore
PROOF
  BY StInitInv, StNextInv, StInvImplies, PTL DEF StSpec

(* Safety: an acknowledged operation is in every file a crash can leave.   *)
THEOREM AcknowledgedIsDurable == StSpec => []AckedDurable
PROOF
  BY StInitInv, StNextInv, StInvImplies, PTL DEF StSpec

(* Safety: a history once shown is part of every file a crash can leave.   *)
THEOREM ShownIsDurable == StSpec => []ViewedDurable
PROOF
  BY StInitInv, StNextInv, StInvImplies, PTL DEF StSpec

(* Safety: one operation ID has one result.                                *)
THEOREM IdempotentResults == StSpec => []OneResultPerID
PROOF
  BY StInitInv, StNextInv, StInvImplies, PTL DEF StSpec

(* A call that is refused was not of an acknowledged operation: the        *)
(* operation would have been found under its ID and confirmed.             *)
LEMMA RefusedIsNew ==
    ASSUME SInv, [StNext]_storeVars, NEW p \in Proc,
           proc[p].pc = "locked", proc[p].call.kind = "apply", proc'[p].reply = "refused",
           proc[p].call.by = Signer(proc[p].call.op.command.action),
           NEW e \in acked, e.op = proc[p].call.op
    PROVE  FALSE
PROOF
<1> DEFINE op == proc[p].call.op
<1>1. proc[p].reply = "none" /\ proc[p].pc # "idle"
  BY DEF SInv, ProcsSound, ProcSound
<1>2. dir \in Files /\ Stored(dir) /\ e \in dir.entries
  BY DEF SInv, Told, Files
<1>3. /\ Accounted(dir.contract, dir.entries)
      /\ \A x, y \in dir.entries : x.op.id = y.op.id => x = y
      /\ e.command = op.command
  BY <1>2 DEF SInv, FilesSound, FileSound, Stored, NoFile
<1>4. Readable /\ op.command.terms = ContractID
  BY <1>2, <1>3, AccountedRestores DEF Readable, Accounted
<1>5. e \in Prior(op) /\ \A x \in Prior(op) : x.op = op
  BY <1>2, <1>3 DEF Prior
<1>6. ASSUME NEW q \in Proc, NEW n, OnlyMoves(q, n), n.reply # "refused"
      PROVE  FALSE
  BY <1>1, <1>6 DEF OnlyMoves
<1>7. ASSUME NEW r \in Rand, Apply(p, r)
      PROVE  FALSE
  <2>1. \E x \in Prior(op) : Goto(p, "confirm", NoFile, x)
    BY <1>4, <1>5, <1>7 DEF Apply, Verify
  <2>2. PICK x : Goto(p, "confirm", NoFile, x)
    BY <2>1
  <2> DEFINE n == Record("confirm", proc[p].reply, proc[p].call, NoFile, proc[p].synced, x)
  <2>3. OnlyMoves(p, n)
    BY <2>2, GotoMoves
  <2>4. n.reply = proc[p].reply
    BY DEF Record
  <2> HIDE DEF n
  <2> QED
    BY <1>1, <1>6, <2>3, <2>4
<1>8. ASSUME NEW q \in Proc, q # p, proc'[p] = proc[p]
      PROVE  FALSE
  BY <1>1, <1>8
<1>9. CASE UNCHANGED storeVars
  BY <1>1, <1>9 DEF storeVars
<1>10. proc = [r \in Proc |-> proc[r]]
  BY DEF SInv, ProcsSound
<1>11. ASSUME NEW q \in Proc, q # p, Step(q)
       PROVE  proc'[p] = proc[p]
  BY <1>10, <1>11 DEF Step, WithLock, Create, View, Apply, SyncTemp, Rename, SyncDirectory,
                     Goto, Return
<1>12. ASSUME NEW q \in Proc, q # p, (\E call \in Call : Begin(q, call)) \/ IOError(q) \/ Die(q)
       PROVE  proc'[p] = proc[p]
  BY <1>10, <1>12 DEF Begin, IOError, Die, Return
<1>13. CASE IOError(p) \/ Die(p) \/ PowerLoss
  <2>1. PICK reply \in {"uncertain", "failed", "none"} : proc'[p] = Idle(reply)
    BY <1>10, <1>13 DEF IOError, Die, PowerLoss, Return
  <2> QED
    BY <2>1 DEF Idle
<1>14. ~Create(p) /\ ~View(p) /\ ~WithLock(p) /\ ~SyncTemp(p) /\ ~Rename(p)
       /\ ~SyncDirectory(p) /\ \A call : ~Begin(p, call)
  BY DEF Create, View, WithLock, SyncTemp, Rename, SyncDirectory, Begin
<1> QED
  BY <1>7, <1>8, <1>9, <1>11, <1>12, <1>13, <1>14 DEF StNext, Step

(* Action property: an exact retry of an acknowledged operation with a     *)
(* valid signature is never refused.                                       *)
THEOREM RetriesHonoured == StSpec => RetryHonoured
PROOF
<1> DEFINE A == \A p \in Proc :
                   proc[p].pc = "locked" /\ proc[p].call.kind = "apply"
                      /\ proc'[p].reply = "refused"
                      /\ proc[p].call.by = Signer(proc[p].call.op.command.action)
                   => \A e \in acked : e.op # proc[p].call.op
<1>1. SInv /\ [StNext]_storeVars => [A]_storeVars
  BY RefusedIsNew
<1> QED
  BY <1>1, StInitInv, StNextInv, PTL DEF StSpec, RetryHonoured

(* Only a rename or a power loss changes what path(id) names.              *)
LEMMA DirStep ==
    ASSUME SInv, [StNext]_storeVars, dir' # dir, Stored(dir)
    PROVE  \/ disk' = {dir'} /\ dir' \in disk /\ lock' = NoProc
           \/ /\ Stored(dir')
              /\ IsPrefix(HeadOf(dir.contract), HeadOf(dir'.contract))
              /\ dir.entries \subseteq dir'.entries
              /\ dir'.contract.agreement.sealed.key = dir.contract.agreement.sealed.key
PROOF
<1>1. PowerLoss \/ \E p \in Proc : Rename(p)
  BY DEF StNext, Step, storeVars, fileVars, Begin, WithLock, Create, View, Apply, SyncTemp,
         SyncDirectory, IOError, Die
<1>2. CASE PowerLoss
  BY <1>2 DEF PowerLoss
<1>3. ASSUME NEW p \in Proc, Rename(p)
      PROVE  /\ Stored(dir')
             /\ IsPrefix(HeadOf(dir.contract), HeadOf(dir'.contract))
             /\ dir.entries \subseteq dir'.entries
             /\ dir'.contract.agreement.sealed.key = dir.contract.agreement.sealed.key
  <2>1. dir' = proc[p].next /\ Stored(dir') /\ FileSound(dir') /\ Grows(dir, dir')
    BY <1>3 DEF Rename, SInv, ProcsSound, ProcSound
  <2>2. /\ PrefixOf(HeadOf(dir.contract), HeadOf(dir'.contract))
        /\ dir.entries \subseteq dir'.entries
        /\ dir'.contract.agreement.sealed.key = dir.contract.agreement.sealed.key
        /\ SoundContract(dir'.contract)
    BY <2>1 DEF Grows, FileSound, Accounted, Stored, NoFile
  <2>3. PICK R : HeadOf(dir'.contract) \in Seq(R)
    BY <2>2, ChainType
  <2>4. IsPrefix(HeadOf(dir.contract), HeadOf(dir'.contract))
    BY <2>2, <2>3, PrefixFacts
  <2> QED
    BY <2>1, <2>2, <2>4
<1> QED
  BY <1>1, <1>2, <1>3

(* Action property: no lost update.  Every step that replaces the visible  *)
(* file extends it, except a power loss.                                   *)
THEOREM NoLostUpdate == StSpec => HistoryOnlyGrows
PROOF
<1> DEFINE A == dir' # dir /\ Stored(dir) =>
                  \/ disk' = {dir'} /\ dir' \in disk /\ lock' = NoProc
                  \/ /\ Stored(dir')
                     /\ IsPrefix(HeadOf(dir.contract), HeadOf(dir'.contract))
                     /\ dir.entries \subseteq dir'.entries
                     /\ dir'.contract.agreement.sealed.key = dir.contract.agreement.sealed.key
<1>1. SInv /\ [StNext]_storeVars => [A]_storeVars
  BY DirStep
<1> QED
  BY <1>1, StInitInv, StNextInv, PTL DEF StSpec, HistoryOnlyGrows

(***************************************************************************)
(* Refinement: the store implements OpLog.                                 *)
(***************************************************************************)
(* The log of a file is a sequence as long as LogLength says.              *)
LEMMA LogIsSequence ==
    ASSUME NEW f, FileSound(f)
    PROVE  /\ LogLength(f) \in Nat
           /\ \E R : LogOf(f) \in Seq(R)
           /\ Len(LogOf(f)) = LogLength(f) /\ DOMAIN LogOf(f) = 1 .. LogLength(f)
PROOF
<1>1. LogLength(f) \in Nat
  <2>1. CASE Stored(f)
    <3>1. IsFiniteSet(f.entries)
      BY <2>1 DEF FileSound, Ranked, Stored, NoFile
    <3>2. Cardinality(f.entries) \in Nat
      BY <3>1, FS_CardinalityType
    <3> QED
      BY <2>1, <3>2 DEF LogLength
  <2> QED
    BY <2>1 DEF LogLength
<1> DEFINE n == LogLength(f)
           s == LogOf(f)
           R == {s[k] : k \in 1 .. n}
<1>2. s = [k \in 1 .. n |-> s[k]]
  BY DEF LogOf
<1> HIDE DEF s, n
<1>3. n \in Nat
  BY <1>1 DEF n
<1>4. s \in [1 .. n -> R]
  BY <1>2
<1> HIDE DEF R
<1>5. s \in Seq(R) /\ Len(s) = n /\ DOMAIN s = 1 .. n
  BY <1>3, <1>4
<1> QED
  BY <1>3, <1>5 DEF n, s

(* Every entry of a file is in its log.                                    *)
LEMMA EntryInLog ==
    ASSUME NEW f, Stored(f), FileSound(f), NEW e \in f.entries
    PROVE  \E i \in 1 .. LogLength(f) : LogOf(f)[i] = Logged(e)
PROOF
<1> DEFINE E == f.entries
           k == Rank(e, E)
           n == Cardinality(E)
<1>1. Ranked(E)
  BY DEF FileSound, Stored, NoFile
<1>2. k \in 1 .. n /\ \A x \in E : Rank(x, E) = k => x = e
  BY <1>1 DEF Ranked
<1>3. n \in Nat
  BY <1>1, FS_CardinalityType DEF Ranked
<1>4. Nth(E, k) = e
  BY <1>2 DEF Nth
<1>5. LogLength(f) = n + 1
  BY DEF LogLength
<1> HIDE DEF n, k, E
<1>6. k + 1 \in 1 .. LogLength(f) /\ k + 1 # 1 /\ (k + 1) - 1 = k
  BY <1>2, <1>3, <1>5
<1>7. LogOf(f)[k + 1] = Logged(Nth(E, (k + 1) - 1))
  BY <1>6 DEF LogOf, E
<1> QED
  BY <1>4, <1>6, <1>7

(* A replacement logs everything the file it replaces logs, and then one   *)
(* entry more with a new ID.                                               *)
LEMMA OneMoreInLog ==
    ASSUME NEW f, NEW g, FileSound(f), FileSound(g), Stored(g), Grows(f, g), OneMore(f, g)
    PROVE  /\ LogLength(f) \in Nat /\ LogLength(g) = LogLength(f) + 1
           /\ \A k \in 1 .. LogLength(f) :
                 /\ LogOf(g)[k] = LogOf(f)[k]
                 /\ LogOf(f)[k].id # LogOf(g)[LogLength(g)].id
PROOF
<1>1. CASE f = NoFile /\ g.entries = {}
  BY <1>1, FS_EmptySet DEF LogLength, Stored, NoFile
<1>2. ASSUME Stored(f), NEW e, g.entries = f.entries \cup {e}, Follows(e, f.entries)
      PROVE  /\ LogLength(f) \in Nat /\ LogLength(g) = LogLength(f) + 1
             /\ \A k \in 1 .. LogLength(f) :
                   /\ LogOf(g)[k] = LogOf(f)[k]
                   /\ LogOf(f)[k].id # LogOf(g)[LogLength(g)].id
  <2> DEFINE E == f.entries
             F == g.entries
             n == Cardinality(E)
  <2>1. Ranked(E) /\ Creation(g) = Creation(f)
    BY <1>2 DEF FileSound, Grows, Creation, Stored, NoFile
  <2>2. /\ n \in Nat /\ Cardinality(F) = n + 1
        /\ \A k \in 1 .. n : Nth(F, k) = Nth(E, k)
        /\ Nth(F, n + 1) = e
    BY <1>2, <2>1, RankedOneMore
  <2>3. LogLength(f) = n + 1 /\ LogLength(g) = n + 2
    BY <1>2, <2>2 DEF LogLength
  <2>4. /\ LogOf(f) = [k \in 1 .. n + 1 |-> IF k = 1 THEN Creation(f) ELSE Logged(Nth(E, k - 1))]
        /\ LogOf(g) = [k \in 1 .. n + 2 |-> IF k = 1 THEN Creation(g) ELSE Logged(Nth(F, k - 1))]
    BY <2>3 DEF LogOf
  <2>5. \A k \in 1 .. n : Nth(E, k) \in E
    BY <2>1 DEF Ranked, Nth
  <2> HIDE DEF n, F, E
  <2>6. LogOf(g)[n + 2] = Logged(e)
    <3>1. n + 2 \in 1 .. n + 2 /\ n + 2 # 1 /\ (n + 2) - 1 = n + 1
      BY <2>2
    <3> QED
      BY <2>2, <2>4, <3>1
  <2>7. Creation(f).id # Logged(e).id
    BY DEF Creation, Logged
  <2>8. ASSUME NEW k \in 1 .. n + 1
        PROVE  LogOf(g)[k] = LogOf(f)[k] /\ LogOf(f)[k].id # Logged(e).id
    <3>1. k \in 1 .. n + 2
      BY <2>2
    <3>2. CASE k = 1
      BY <2>1, <2>4, <2>7, <3>1, <3>2
    <3>3. CASE k # 1
      <4>1. k - 1 \in 1 .. n
        BY <2>2, <3>3
      <4>2. LogOf(g)[k] = Logged(Nth(F, k - 1)) /\ LogOf(f)[k] = Logged(Nth(E, k - 1))
        BY <2>4, <3>1, <3>3
      <4>3. Nth(F, k - 1) = Nth(E, k - 1) /\ Nth(E, k - 1) \in E
        BY <2>2, <2>5, <4>1
      <4>4. Nth(E, k - 1).op.id # e.op.id
        BY <1>2, <4>3 DEF Follows, E
      <4>5. Logged(Nth(E, k - 1)).id # Logged(e).id
        BY <4>4 DEF Logged
      <4> QED
        BY <4>2, <4>3, <4>5
    <3> QED
      BY <3>2, <3>3
  <2> QED
    BY <2>2, <2>3, <2>6, <2>8
<1> QED
  BY <1>1, <1>2 DEF OneMore

(* What a power loss may leave begins the visible log, the visible file is *)
(* one of those it may leave, and one of them is the shortest.             *)
Begins(f, g) ==
    /\ LogLength(f) <= LogLength(g)
    /\ \A k \in 1 .. LogLength(f) : LogOf(f)[k] = LogOf(g)[k]

Shortest(f, files) == \A g \in files : LogLength(f) <= LogLength(g)

DiskInv ==
    /\ dir \in disk
    /\ \A f \in disk : Begins(f, dir)
    /\ \E f \in disk : Shortest(f, disk)

Durable(files) == Min({LogLength(f) : f \in files})

(* The shortest file is as long as the durable part of the log.            *)
LEMMA ShortestIsDurable ==
    ASSUME NEW files, \A f \in files : FileSound(f), NEW f \in files, Shortest(f, files)
    PROVE  Durable(files) = LogLength(f)
PROOF
<1> DEFINE S == {LogLength(g) : g \in files}
<1>1. S \subseteq Nat
  BY LogIsSequence
<1>2. LogLength(f) \in S /\ \A n \in S : LogLength(f) <= n
  BY DEF Shortest
<1> HIDE DEF S
<1>3. ASSUME NEW m \in S, \A n \in S : m <= n
      PROVE  m = LogLength(f)
  <2>1. m \in Nat /\ LogLength(f) \in Nat /\ m <= LogLength(f) /\ LogLength(f) <= m
    BY <1>1, <1>2, <1>3
  <2> QED
    BY <2>1
<1> QED
  BY <1>2, <1>3 DEF Durable, Min, S

(* The log of one file, cut where another ends that begins it.             *)
LEMMA BeginsIsCut ==
    ASSUME NEW f, NEW g, FileSound(f), FileSound(g), Begins(f, g)
    PROVE  SubSeq(LogOf(g), 1, LogLength(f)) = LogOf(f)
PROOF
<1> DEFINE s == LogOf(f)
           t == LogOf(g)
           n == LogLength(f)
<1>1. PICK R : s \in Seq(R)
  BY LogIsSequence
<1>2. PICK T : t \in Seq(T)
  BY LogIsSequence
<1>3. n \in Nat /\ Len(s) = n /\ n <= Len(t) /\ \A k \in 1 .. n : s[k] = t[k]
  BY LogIsSequence DEF Begins
<1> HIDE DEF s, t, n
<1>4. SubSeq(s, 1, n) = s
  BY <1>1, <1>3, WholeChain
<1>5. SubSeq(t, 1, n) = SubSeq(s, 1, n)
  BY <1>1, <1>2, <1>3
<1> QED
  BY <1>4, <1>5 DEF s, t, n

(* The three kinds of step that the log sees.                              *)
Stutters == UNCHANGED <<dir, disk, acked>>

Replaces ==
    /\ Stored(dir') /\ FileSound(dir') /\ Grows(dir, dir') /\ OneMore(dir, dir')
    /\ disk' = disk \cup {dir'} /\ acked' = acked

Settles ==
    /\ Stored(dir) /\ dir' = dir /\ disk' = {dir}
    /\ acked' = acked \/ \E e \in dir.entries : acked' = acked \cup {e}

CutsBack == \E f \in disk : dir' = f /\ disk' = {f} /\ acked' = acked

(* Every step of the store is one of them.                                 *)
LEMMA KindsOfStep ==
    ASSUME SInv, [StNext]_storeVars
    PROVE  Stutters \/ Replaces \/ Settles \/ CutsBack
PROOF
<1>1. CASE UNCHANGED storeVars
  BY <1>1 DEF storeVars, Stutters
<1>2. CASE PowerLoss
  BY <1>2 DEF PowerLoss, CutsBack, clientVars
<1>3. ASSUME NEW p \in Proc, Rename(p)
      PROVE  Replaces
  <2>1. /\ proc[p].pc = "synced" /\ ProcSound(proc[p], dir)
    BY <1>3 DEF Rename, SInv, ProcsSound
  <2>2. /\ Stored(proc[p].next) /\ FileSound(proc[p].next) /\ Grows(dir, proc[p].next)
        /\ OneMore(dir, proc[p].next) /\ proc[p].synced = TRUE
    BY <2>1 DEF ProcSound
  <2>3. dir' = proc[p].next /\ disk' = disk \cup {proc[p].next} /\ acked' = acked
    BY <1>3, <2>2 DEF Rename, clientVars
  <2> QED
    BY <2>2, <2>3 DEF Replaces
<1>4. ASSUME NEW p \in Proc, SyncDirectory(p)
      PROVE  Settles
  <2>1. Stored(dir) /\ (proc[p].call.kind = "apply" => proc[p].entry \in dir.entries)
    BY <1>4 DEF SyncDirectory, SInv, ProcsSound, ProcSound
  <2> QED
    BY <1>4, <2>1 DEF SyncDirectory, Report, Settles
<1>5. ASSUME NEW p \in Proc, NEW call \in Call, Begin(p, call)
      PROVE  Stutters
  BY <1>5 DEF Begin, Stutters, fileVars, clientVars
<1>6. ASSUME NEW p \in Proc,
             WithLock(p) \/ Create(p) \/ View(p) \/ SyncTemp(p) \/ IOError(p) \/ Die(p)
      PROVE  Stutters
  BY <1>6 DEF WithLock, Create, View, SyncTemp, IOError, Die, Stutters, fileVars, clientVars
<1>7. ASSUME NEW p \in Proc, NEW r \in Rand, Apply(p, r)
      PROVE  Stutters
  BY <1>7 DEF Apply, Stutters, fileVars, clientVars
<1>8. ASSUME NEW p \in Proc, Step(p)
      PROVE  Stutters \/ Replaces \/ Settles
  BY <1>3, <1>4, <1>6, <1>7, <1>8 DEF Step
<1>9. CASE StNext
  BY <1>2, <1>5, <1>6, <1>8, <1>9 DEF StNext
<1> QED
  BY <1>1, <1>9

(* The log stays one: what may be left keeps beginning what is visible.    *)
LEMMA DiskInvInit == StInit => DiskInv
PROOF
<1> SUFFICES ASSUME StInit
             PROVE  DiskInv
  OBVIOUS
<1>1. dir = NoFile /\ disk = {NoFile} /\ LogLength(NoFile) = 0
  BY DEF StInit, LogLength, Stored, NoFile
<1> QED
  BY <1>1 DEF DiskInv, Begins, Shortest

(* A single file begins and bounds itself.                                 *)
LEMMA OneFile ==
    ASSUME NEW f, FileSound(f)
    PROVE  Begins(f, f) /\ Shortest(f, {f})
PROOF
<1>1. LogLength(f) \in Nat
  BY LogIsSequence
<1> QED
  BY <1>1 DEF Begins, Shortest

(* Each kind of step keeps the files in line.                              *)
LEMMA DiskInvNext ==
    ASSUME SInv, DiskInv, [StNext]_storeVars
    PROVE  DiskInv'
PROOF
<1>1. /\ dir \in disk /\ \A f \in disk : Begins(f, dir)
      /\ \E f \in disk : Shortest(f, disk)
  BY DEF DiskInv
<1>2. \A f \in disk : FileSound(f)
  BY DEF SInv, FilesSound, Files
<1>3. CASE Stutters
  BY <1>3 DEF Stutters, DiskInv
<1>4. CASE Settles \/ CutsBack
  <2>1. PICK f \in disk : dir' = f /\ disk' = {f}
    BY <1>1, <1>4 DEF Settles, CutsBack
  <2>2. Begins(f, f) /\ Shortest(f, {f})
    BY <1>2, OneFile
  <2> QED
    BY <2>1, <2>2 DEF DiskInv
<1>5. CASE Replaces
  <2>1. /\ LogLength(dir) \in Nat /\ LogLength(dir') = LogLength(dir) + 1
        /\ \A k \in 1 .. LogLength(dir) : LogOf(dir')[k] = LogOf(dir)[k]
    BY <1>1, <1>2, <1>5, OneMoreInLog DEF Replaces
  <2>2. disk' = disk \cup {dir'} /\ FileSound(dir')
    BY <1>5 DEF Replaces
  <2>3. ASSUME NEW f \in disk
        PROVE  Begins(f, dir')
    <3>1. LogLength(f) \in Nat /\ Begins(f, dir)
      BY <1>1, <1>2, LogIsSequence
    <3> QED
      BY <2>1, <3>1 DEF Begins
  <2>4. Begins(dir', dir')
    BY <2>2, OneFile
  <2>5. PICK f \in disk : Shortest(f, disk)
    BY <1>1
  <2>6. LogLength(f) \in Nat /\ LogLength(f) <= LogLength(dir)
    BY <1>1, <1>2, <2>5, LogIsSequence DEF Shortest
  <2>7. LogLength(f) <= LogLength(dir')
    BY <2>1, <2>6
  <2>8. Shortest(f, disk \cup {dir'})
    BY <2>5, <2>7 DEF Shortest
  <2> QED
    BY <2>2, <2>3, <2>4, <2>5, <2>8 DEF DiskInv
<1> QED
  BY <1>3, <1>4, <1>5, KindsOfStep

ToldOf(entries) == {Logged(e) : e \in entries}

(* The mapping of the refinement, by the names above.                      *)
LEMMA LogNamed ==
    /\ Log!LogInit <=> LogOf(dir) = <<>> /\ Durable(disk) = 0 /\ ToldOf(acked) = {}
    /\ Log!Extend <=>
          /\ Len(LogOf(dir')) = Len(LogOf(dir)) + 1
          /\ SubSeq(LogOf(dir'), 1, Len(LogOf(dir))) = LogOf(dir)
          /\ \A i \in DOMAIN LogOf(dir) :
                LogOf(dir)[i].id # LogOf(dir')[Len(LogOf(dir'))].id
          /\ Durable(disk') = Durable(disk) /\ ToldOf(acked') = ToldOf(acked)
    /\ Log!Confirm <=>
          /\ LogOf(dir') = LogOf(dir) /\ Durable(disk') = Len(LogOf(dir))
          /\ \/ ToldOf(acked') = ToldOf(acked)
             \/ \E i \in DOMAIN LogOf(dir) :
                   ToldOf(acked') = ToldOf(acked) \cup {LogOf(dir)[i]}
    /\ Log!Lose <=>
          /\ Durable(disk') \in Durable(disk) .. Len(LogOf(dir))
          /\ LogOf(dir') = SubSeq(LogOf(dir), 1, Durable(disk'))
          /\ ToldOf(acked') = ToldOf(acked)
PROOF
<1>1. Log!LogInit <=> LogOf(dir) = <<>> /\ Durable(disk) = 0 /\ ToldOf(acked) = {}
  BY DEF Log!LogInit, Durable, ToldOf
<1>2. Log!Extend <=>
          /\ Len(LogOf(dir')) = Len(LogOf(dir)) + 1
          /\ SubSeq(LogOf(dir'), 1, Len(LogOf(dir))) = LogOf(dir)
          /\ \A i \in DOMAIN LogOf(dir) :
                LogOf(dir)[i].id # LogOf(dir')[Len(LogOf(dir'))].id
          /\ Durable(disk') = Durable(disk) /\ ToldOf(acked') = ToldOf(acked)
  BY DEF Log!Extend, Durable, ToldOf
<1>3. Log!Confirm <=>
          /\ LogOf(dir') = LogOf(dir) /\ Durable(disk') = Len(LogOf(dir))
          /\ \/ ToldOf(acked') = ToldOf(acked)
             \/ \E i \in DOMAIN LogOf(dir) :
                   ToldOf(acked') = ToldOf(acked) \cup {LogOf(dir)[i]}
  BY DEF Log!Confirm, Durable, ToldOf
<1>4. Log!Lose <=>
          /\ Durable(disk') \in Durable(disk) .. Len(LogOf(dir))
          /\ LogOf(dir') = SubSeq(LogOf(dir), 1, Durable(disk'))
          /\ ToldOf(acked') = ToldOf(acked)
  BY DEF Log!Lose, Durable, ToldOf
<1> QED
  BY <1>1, <1>2, <1>3, <1>4

(* A rename extends the log, a directory sync confirms it, a power loss    *)
(* loses some of its end, and nothing else is seen of the store.           *)
LEMMA StepsLog ==
    ASSUME SInv, DiskInv, [StNext]_storeVars
    PROVE  [Log!LogNext]_(Log!logVars)
PROOF
<1>1. /\ dir \in disk /\ \A f \in disk : Begins(f, dir)
      /\ \A f \in disk : FileSound(f)
  BY DEF DiskInv, SInv, FilesSound, Files
<1>2. PICK s \in disk : Shortest(s, disk)
  BY DEF DiskInv
<1>3. /\ Durable(disk) = LogLength(s) /\ LogLength(s) \in Nat
      /\ Len(LogOf(dir)) = LogLength(dir) /\ DOMAIN LogOf(dir) = 1 .. LogLength(dir)
      /\ LogLength(dir) \in Nat /\ LogLength(s) <= LogLength(dir)
  BY <1>1, <1>2, ShortestIsDurable, LogIsSequence DEF Shortest
<1>4. CASE Stutters
  <2>1. UNCHANGED Log!logVars
    BY <1>4 DEF Stutters, Log!logVars
  <2> QED
    BY <2>1
<1>5. CASE Replaces
  <2>1. /\ FileSound(dir') /\ disk' = disk \cup {dir'} /\ acked' = acked
        /\ LogLength(dir') = LogLength(dir) + 1
        /\ \A k \in 1 .. LogLength(dir) :
              /\ LogOf(dir')[k] = LogOf(dir)[k]
              /\ LogOf(dir)[k].id # LogOf(dir')[LogLength(dir')].id
    BY <1>1, <1>5, OneMoreInLog DEF Replaces
  <2>2. Len(LogOf(dir')) = LogLength(dir')
    BY <2>1, LogIsSequence
  <2>3. Begins(dir, dir')
    BY <1>3, <2>1 DEF Begins
  <2>4. SubSeq(LogOf(dir'), 1, LogLength(dir)) = LogOf(dir)
    BY <1>1, <2>1, <2>3, BeginsIsCut
  <2>5. Durable(disk') = LogLength(s)
    <3>1. LogLength(s) <= LogLength(dir')
      BY <1>3, <2>1
    <3>2. Shortest(s, disk \cup {dir'}) /\ \A f \in disk \cup {dir'} : FileSound(f)
      BY <1>1, <1>2, <2>1, <3>1 DEF Shortest
    <3> QED
      BY <2>1, <3>2, ShortestIsDurable
  <2>6. Log!Extend
    BY <1>3, <2>1, <2>2, <2>4, <2>5, LogNamed
  <2> QED
    BY <2>6 DEF Log!LogNext
<1>6. CASE Settles
  <2>1. Stored(dir) /\ dir' = dir /\ disk' = {dir}
    BY <1>6 DEF Settles
  <2>2. Durable({dir}) = LogLength(dir)
    BY <1>1, OneFile, ShortestIsDurable
  <2>3. \/ ToldOf(acked') = ToldOf(acked)
        \/ \E i \in DOMAIN LogOf(dir) : ToldOf(acked') = ToldOf(acked) \cup {LogOf(dir)[i]}
    <3>1. ASSUME NEW e \in dir.entries, acked' = acked \cup {e}
          PROVE  \E i \in DOMAIN LogOf(dir) : ToldOf(acked') = ToldOf(acked) \cup {LogOf(dir)[i]}
      <4>1. PICK i \in DOMAIN LogOf(dir) : LogOf(dir)[i] = Logged(e)
        BY <1>1, <1>3, <2>1, EntryInLog
      <4>2. ToldOf(acked') = ToldOf(acked) \cup {Logged(e)}
        BY <3>1 DEF ToldOf
      <4> QED
        BY <4>1, <4>2
    <3> QED
      BY <1>6, <3>1 DEF Settles
  <2>4. Log!Confirm
    BY <1>3, <2>1, <2>2, <2>3, LogNamed
  <2> QED
    BY <2>4 DEF Log!LogNext
<1>7. CASE CutsBack
  <2>1. PICK f \in disk : dir' = f /\ disk' = {f} /\ acked' = acked
    BY <1>7 DEF CutsBack
  <2>2. Durable({f}) = LogLength(f) /\ LogLength(f) \in Nat
    BY <1>1, OneFile, ShortestIsDurable, LogIsSequence
  <2>3. LogLength(s) <= LogLength(f) /\ LogLength(f) <= LogLength(dir)
    BY <1>1, <1>2 DEF Shortest, Begins
  <2>4. LogOf(f) = SubSeq(LogOf(dir), 1, LogLength(f))
    BY <1>1, BeginsIsCut
  <2>5. LogLength(f) \in LogLength(s) .. LogLength(dir)
    BY <1>3, <2>2, <2>3
  <2>6. Log!Lose
    BY <1>3, <2>1, <2>2, <2>4, <2>5, LogNamed
  <2> QED
    BY <2>6 DEF Log!LogNext
<1> QED
  BY <1>4, <1>5, <1>6, <1>7, KindsOfStep

(* Refinement: handles, locks, temporary files, failed calls, deaths and   *)
(* power losses together behave like a log with one entry per ID, of which *)
(* a power loss cuts only what was never synced and callers are told only  *)
(* what is durable.                                                        *)
THEOREM StoreImplements == StSpec => ImplementsOpLog
PROOF
<1>1. StInit => Log!LogInit
  <2> SUFFICES ASSUME StInit
               PROVE  Log!LogInit
    OBVIOUS
  <2>1. dir = NoFile /\ disk = {NoFile} /\ acked = {}
    BY DEF StInit
  <2>2. FileSound(NoFile) /\ LogLength(NoFile) = 0
    BY DEF FileSound, LogLength, Stored, NoFile
  <2>3. Durable({NoFile}) = 0
    BY <2>2, OneFile, ShortestIsDurable
  <2>4. LogOf(NoFile) = <<>>
    <3>1. PICK R : LogOf(NoFile) \in Seq(R)
      BY <2>2, LogIsSequence
    <3>2. Len(LogOf(NoFile)) = 0
      BY <2>2, LogIsSequence
    <3> QED
      BY <3>1, <3>2
  <2>5. ToldOf({}) = {}
    BY DEF ToldOf
  <2> QED
    BY <2>1, <2>3, <2>4, <2>5, LogNamed
<1>2. SInv /\ DiskInv /\ [StNext]_storeVars => (SInv /\ DiskInv)'
  BY StNextInv, DiskInvNext
<1>3. SInv /\ DiskInv /\ [StNext]_storeVars => [Log!LogNext]_(Log!logVars)
  BY StepsLog
<1> QED
  BY <1>1, <1>2, <1>3, StInitInv, DiskInvInit, PTL DEF StSpec, ImplementsOpLog, Log!LogSpec
=============================================================================
