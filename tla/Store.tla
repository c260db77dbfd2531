------------------------------- MODULE Store --------------------------------
(***************************************************************************)
(* The durable store of nex/store.go for one contract ID: separate handles *)
(* and processes that create, view and change one stored contract through  *)
(* an OS file lock, a temporary file, an atomic rename and a directory     *)
(* sync, while any I/O call may fail, any process may die and the machine  *)
(* may lose power.                                                         *)
(*                                                                         *)
(* The file system (external) is a directory entry and the set of entries  *)
(* a power loss could leave in its place: rename adds the new entry to the *)
(* set, a directory sync leaves only the visible one.  A file renamed into *)
(* place before its contents were synced may come back Torn.               *)
(***************************************************************************)
EXTENDS Commands

CONSTANTS
    Proc,           \* store handles, in one process or several
    NoProc,         \* nobody holds the lock file
    OpID,           \* caller-generated operation IDs
    StoreAction,    \* the command actions callers use
    Time,           \* the times callers pass to Apply
    MaxCalls,       \* bound on the number of calls
    MaxFaults       \* bound on I/O failures, process deaths and power losses

ASSUME StoreAssumption ==
    NoProc \notin Proc /\ Time \subseteq Nat /\ MaxCalls \in Nat /\ MaxFaults \in Nat

ASSUME StoreTermsAssumption == ProperTerms

VARIABLES
    dir,        \* what path(id) names: NoFile, Torn or a stored contract
    disk,       \* what path(id) may name after a power loss
    lock,       \* who holds the lock file
    proc,       \* the state of each handle's current call
    outbox,     \* every Operation a caller has prepared
    acked,      \* committed entries Apply has returned without error (history)
    viewed,     \* receipt chains View has returned without error (history)
    calls, faults

NoFile == [kind |-> "none"]     \* path(id) does not exist
Torn == [kind |-> "torn"]       \* a file that does not authenticate
StoredContract(c, entries) == [kind |-> "stored", contract |-> c, entries |-> entries]
Stored(f) == f.kind = "stored"

fileVars == <<dir, disk>>
clientVars == <<outbox, acked, viewed>>
storeVars == <<dir, disk, lock, proc, outbox, acked, viewed, calls, faults>>

(* A call and where it stands.  next is the stored contract it wants to    *)
(* write, synced whether its temporary file has reached the disk, entry    *)
(* the result it will report.                                              *)
Idle(reply) == [pc |-> "idle", reply |-> reply, call |-> [kind |-> "none"],
                next |-> NoFile, synced |-> FALSE, entry |-> NoFile]

StInit ==
    /\ dir = NoFile /\ disk = {NoFile}
    /\ lock = NoProc
    /\ proc = [p \in Proc |-> Idle("none")]
    /\ outbox = {} /\ acked = {} /\ viewed = {}
    /\ calls = 0 /\ faults = 0

(***************************************************************************)
(* Starting a call, and taking the lock.                                   *)
(***************************************************************************)
Call ==
    [kind : {"create"}, key : Key]
      \cup [kind : {"view"}]
      \cup [kind : {"prepare"}, id : OpID, action : StoreAction,
            evidence : Citation \cup {NoText}]
      \cup [kind : {"apply"}, op : outbox, by : Party, now : Time]

Begin(p, call) ==
    /\ proc[p].pc = "idle" /\ calls < MaxCalls
    /\ proc' = [proc EXCEPT ![p] = [Idle("none") EXCEPT !.pc = "waiting", !.call = call]]
    /\ calls' = calls + 1
    /\ UNCHANGED <<fileVars, lock, clientVars, faults>>

(* Mutant: the lock is advisory and not waited for. *)
WithoutLock(p) ==
    /\ proc[p].pc = "waiting"
    /\ lock' = p
    /\ proc' = [proc EXCEPT ![p].pc = "locked"]
    /\ UNCHANGED <<fileVars, clientVars, calls, faults>>

WithLock(p) ==
    /\ proc[p].pc = "waiting" /\ lock = NoProc
    /\ lock' = p
    /\ proc' = [proc EXCEPT ![p].pc = "locked"]
    /\ UNCHANGED <<fileVars, clientVars, calls, faults>>

(* Returning closes the lock file, which releases it. *)
Return(p, reply) ==
    /\ proc' = [proc EXCEPT ![p] = Idle(reply)]
    /\ lock' = IF lock = p THEN NoProc ELSE lock

Goto(p, pc, next, entry) ==
    /\ proc' = [proc EXCEPT ![p].pc = pc, ![p].next = next, ![p].entry = entry]
    /\ UNCHANGED lock

(***************************************************************************)
(* The body of each call, under the lock: read and restore the file, then  *)
(* refuse, confirm what is there, or stage a replacement.                  *)
(***************************************************************************)
Readable == Stored(dir) /\ Restores(dir.contract, dir.entries)

(* Mutant: Create replaces what is stored. *)
CreateOver(p) ==
    /\ proc[p].pc = "locked" /\ proc[p].call.kind = "create"
    /\ Goto(p, "staged", StoredContract(NewContract(proc[p].call.key), {}), NoFile)
    /\ UNCHANGED <<fileVars, clientVars, calls, faults>>

Create(p) ==
    LET call == proc[p].call
        record == StoredContract(NewContract(call.key), {})
    IN  /\ proc[p].pc = "locked" /\ call.kind = "create"
        /\ IF dir = NoFile /\ Restores(record.contract, record.entries)
           THEN Goto(p, "staged", record, NoFile)
           ELSE Return(p, "refused")
        /\ UNCHANGED <<fileVars, clientVars, calls, faults>>

View(p) ==
    /\ proc[p].pc = "locked" /\ proc[p].call.kind \in {"view", "prepare"}
    /\ IF Readable THEN Goto(p, "confirm", NoFile, NoFile) ELSE Return(p, "refused")
    /\ UNCHANGED <<fileVars, clientVars, calls, faults>>

(* Mutants: the index is keyed by the whole operation, or never looked up. *)
PriorSameOperation(op) == {e \in dir.entries : e.op = op}
PriorIgnored(op) == {}

(* The committed operation with this ID, if there is one. *)
Prior(op) == {e \in dir.entries : e.op.id = op.id}

Apply(p, r) ==
    LET call == proc[p].call
        op == call.op
        sig == [by |-> call.by, body |-> op]
        c == DoApplyVerified(dir.contract, op.command, sig, r, call.now)
        entry == [op |-> op, command |-> op.command, sig |-> sig,
                  head |-> HeadOf(c), status |-> c.agreement.status]
    IN  /\ proc[p].pc = "locked" /\ call.kind = "apply"
        /\ \/ /\ \/ ~Readable
                 \/ op.command.terms # ContractID
                 \/ ~Verify(Signer(op.command.action), op, sig)
              /\ Return(p, "refused")
           \/ /\ Readable /\ op.command.terms = ContractID
              /\ Verify(Signer(op.command.action), op, sig)
              /\ \/ \E e \in Prior(op) :
                       IF e.op = op THEN Goto(p, "confirm", NoFile, e)
                       ELSE Return(p, "refused")
                 \/ /\ Prior(op) = {}
                    /\ IF CanApplyVerified(dir.contract, op.command, sig, r, call.now)
                       THEN Goto(p, "staged",
                                 StoredContract(c, dir.entries \cup {entry}), entry)
                       ELSE Return(p, "refused")
        /\ UNCHANGED <<fileVars, clientVars, calls, faults>>

(***************************************************************************)
(* write and syncDirectory.                                                *)
(***************************************************************************)
(* Mutant: the temporary file is renamed without being synced. *)
SkipSyncTemp(p) ==
    /\ proc[p].pc = "staged"
    /\ proc' = [proc EXCEPT ![p].pc = "synced"]
    /\ UNCHANGED <<fileVars, lock, clientVars, calls, faults>>

SyncTemp(p) ==
    /\ proc[p].pc = "staged"
    /\ proc' = [proc EXCEPT ![p].pc = "synced", ![p].synced = TRUE]
    /\ UNCHANGED <<fileVars, lock, clientVars, calls, faults>>

Rename(p) ==
    /\ proc[p].pc = "synced"
    /\ dir' = proc[p].next
    /\ disk' = disk \cup {IF proc[p].synced THEN proc[p].next ELSE Torn}
    /\ proc' = [proc EXCEPT ![p].pc = "renamed"]
    /\ UNCHANGED <<lock, clientVars, calls, faults>>

(* What the caller learns when the call returns without error. *)
Report(p) ==
    LET call == proc[p].call
    IN  /\ acked' = IF call.kind = "apply" THEN acked \cup {proc[p].entry} ELSE acked
        /\ viewed' = IF call.kind \in {"view", "prepare"}
                     THEN viewed \cup {HeadOf(dir.contract)} ELSE viewed
        /\ outbox' = IF call.kind # "prepare" THEN outbox
                     ELSE outbox \cup {[id |-> call.id,
                              command |-> [terms |-> ContractID, head |-> HeadOf(dir.contract),
                                           action |-> call.action, evidence |-> call.evidence]]}

(* Mutants: success is returned without a directory sync, after a rename   *)
(* or when an earlier rename is found in place.                            *)
SyncOnlyConfirm(p) ==
    /\ proc[p].pc \in {"renamed", "confirm"}
    /\ disk' = IF proc[p].pc = "confirm" THEN {dir} ELSE disk
    /\ dir' = dir /\ Report(p) /\ Return(p, "ok") /\ UNCHANGED <<calls, faults>>

SyncOnlyRenamed(p) ==
    /\ proc[p].pc \in {"renamed", "confirm"}
    /\ disk' = IF proc[p].pc = "renamed" THEN {dir} ELSE disk
    /\ dir' = dir /\ Report(p) /\ Return(p, "ok") /\ UNCHANGED <<calls, faults>>

SyncDirectory(p) ==
    /\ proc[p].pc \in {"renamed", "confirm"}
    /\ disk' = {dir} /\ dir' = dir
    /\ Report(p)
    /\ Return(p, "ok")
    /\ UNCHANGED <<calls, faults>>

(***************************************************************************)
(* Faults.  A failed I/O call before the rename is a plain error; a failed *)
(* directory sync is ErrCommitUncertain.  The temporary file of a call     *)
(* that did not rename it is never read again.                             *)
(***************************************************************************)
IOError(p) ==
    /\ proc[p].pc # "idle" /\ faults < MaxFaults
    /\ Return(p, IF proc[p].pc \in {"renamed", "confirm"} THEN "uncertain" ELSE "failed")
    /\ faults' = faults + 1
    /\ UNCHANGED <<fileVars, clientVars, calls>>

(* Mutant: a dead process leaves the lock file locked. *)
DieHoldingLock(p) ==
    /\ proc[p].pc # "idle" /\ faults < MaxFaults
    /\ proc' = [proc EXCEPT ![p] = Idle("none")]
    /\ faults' = faults + 1
    /\ UNCHANGED <<fileVars, lock, clientVars, calls>>

(* The OS releases the lock of a process that dies. *)
Die(p) ==
    /\ proc[p].pc # "idle" /\ faults < MaxFaults
    /\ Return(p, "none")
    /\ faults' = faults + 1
    /\ UNCHANGED <<fileVars, clientVars, calls>>

PowerLoss ==
    /\ faults < MaxFaults
    /\ \E f \in disk : dir' = f /\ disk' = {f}
    /\ lock' = NoProc
    /\ proc' = [p \in Proc |-> Idle("none")]
    /\ faults' = faults + 1
    /\ UNCHANGED <<clientVars, calls>>

Step(p) ==
    \/ WithLock(p) \/ Create(p) \/ View(p) \/ \E r \in Rand : Apply(p, r)
    \/ SyncTemp(p) \/ Rename(p) \/ SyncDirectory(p)

StNext ==
    \/ \E p \in Proc :
          \/ \E call \in Call : Begin(p, call)
          \/ Step(p)
          \/ IOError(p)
          \/ Die(p)
    \/ PowerLoss

StSpec == StInit /\ [][StNext]_storeVars

(* A live process keeps taking its next step, and a handle blocked on the  *)
(* lock file gets it once it stays free.                                   *)
FairStSpec == StSpec /\ \A p \in Proc : WF_storeVars(Step(p))

-----------------------------------------------------------------------------
Files == disk \cup {dir}

(* Every file in sight is nothing, torn or a stored contract, and only the *)
(* holder of the lock file is past withLock.                               *)
StTypeOK ==
    /\ \A f \in disk : Stored(f) => f.contract.agreed \in BOOLEAN
    /\ lock \in Proc \cup {NoProc}
    /\ \A p \in Proc :
          /\ proc[p].reply \in {"none", "ok", "refused", "failed", "uncertain"}
          /\ proc[p].pc \notin {"idle", "waiting"} <=> lock = p
    /\ calls \in 0 .. MaxCalls /\ faults \in 0 .. MaxFaults

(* Whatever a crash or power loss leaves, the next reader can read it:     *)
(* every file path(id) may name is a contract restore accepts, never a     *)
(* torn one, and it names no receipt its operations do not account for.    *)
FilesRestore ==
    \A f \in Files : f # NoFile => Stored(f) /\ Restores(f.contract, f.entries)

(* A result Apply returned without error is in every file a crash or a     *)
(* power loss can leave, with the receipts it reports.                     *)
AckedDurable ==
    \A e \in acked, f \in Files :
        Stored(f) /\ e \in f.entries /\ IsPrefix(e.head, HeadOf(f.contract))

(* A history View returned without error is part of every file a crash or  *)
(* a power loss can leave: no caller signs over a head that later vanishes.*)
ViewedDurable ==
    \A h \in viewed, f \in Files : Stored(f) /\ IsPrefix(h, HeadOf(f.contract))

(* One operation ID has one result for ever: every call of Apply that      *)
(* returns without error for that ID reports the same operation, head and  *)
(* status, across retries, other handles, restarts and power losses.       *)
OneResultPerID ==
    \A e, f \in acked : e.op.id = f.op.id => e = f

(* An operation that was acknowledged is never refused later: an exact     *)
(* retry with a valid signature is honoured after later operations, after  *)
(* the deadline and after a restart.                                       *)
RetryHonoured ==
    [][ \A p \in Proc :
          proc[p].pc = "locked" /\ proc[p].call.kind = "apply"
             /\ proc'[p].reply = "refused"
             /\ proc[p].call.by = Signer(proc[p].call.op.command.action)
          => \A e \in acked : e.op # proc[p].call.op
      ]_storeVars

(* No lost update: only a power loss takes the visible file back.  Every   *)
(* other step leaves it alone or extends its history and its operation     *)
(* index, and never replaces the contract Create stored.                   *)
HistoryOnlyGrows ==
    [][ dir' # dir /\ Stored(dir) =>
          \/ disk' = {dir'} /\ dir' \in disk /\ lock' = NoProc
          \/ /\ Stored(dir')
             /\ IsPrefix(HeadOf(dir.contract), HeadOf(dir'.contract))
             /\ dir.entries \subseteq dir'.entries
             /\ dir'.contract.agreement.sealed.key = dir.contract.agreement.sealed.key
      ]_storeVars

(* The log a file stands for: its creation, then its committed operations  *)
(* in the order of the receipts they wrote.  An operation is logged under  *)
(* its own ID, in a name space of its own.                                 *)
Rank(e, entries) == Cardinality({y \in entries : Len(y.head) <= Len(e.head)})
Nth(entries, k) == CHOOSE e \in entries : Rank(e, entries) = k

Creation(f) == [id |-> <<"contract", ContractID>>,
                result |-> f.contract.agreement.sealed.key]
Logged(e) == [id |-> <<"operation", e.op.id>>, result |-> e]

LogLength(f) == IF Stored(f) THEN Cardinality(f.entries) + 1 ELSE 0
LogOf(f) == [k \in 1 .. LogLength(f) |->
                IF k = 1 THEN Creation(f) ELSE Logged(Nth(f.entries, k - 1))]

Log == INSTANCE OpLog WITH
    log <- LogOf(dir),
    durable <- Min({LogLength(f) : f \in disk}),
    told <- {Logged(e) : e \in acked}

(* The store implements a durable log with one entry per ID: handles,      *)
(* locks, failed calls and deaths are invisible in it, a power loss cuts   *)
(* back only what nobody was told and was never synced, and a change goes  *)
(* on top of what the directory names, synced or not.                      *)
ImplementsOpLog == Log!LogSpec

(* Every call returns, whatever other handles do and whichever of them die *)
(* while they hold the lock file.                                          *)
CallsReturn == \A p \in Proc : proc[p].pc # "idle" ~> proc[p].pc = "idle"
=============================================================================
