-------------------------- MODULE AlertPolicyStore --------------------------
(***************************************************************************)
(* MetricsAlertPolicyStore: two documents (the alert policy and the        *)
(* registry of verify policies), each a file with a file of audit lines    *)
(* beside it; approvals for rolling the policy back to an audited state,   *)
(* rewritten as a whole; and the log of purges.                            *)
(*                                                                         *)
(* The handlers are synchronous functions of one event loop, so no two     *)
(* overlap.  Each is a sequence of changes in memory and of file           *)
(* operations: todo holds what is left of it.  A file operation may raise, *)
(* which ends the handler there, and the process may die between any two.  *)
(* Path.write_text truncates before it writes; a line is appended whole.   *)
(***************************************************************************)
EXTENDS Naturals, Sequences, SequencesExt

CONSTANTS
    Docs,             \* "policy" and "registry"
    Policies,         \* normalised contents of a document
    Default,          \* DEFAULT_POLICY, DEFAULT_VERIFY_POLICY_REGISTRY
    Torn,             \* the content of a truncated file
    Keys, NoKey,      \* idempotency keys, and none
    NoneKey,          \* the key "None", as which str() shows that an entry has none
    MaxAudits, MaxApprovals, MaxPurges, \* bounds on what clients create
    MaxNumbered,                        \* bound on all of these together
    MaxTroubles                         \* bound on failing writes and crashes together

ASSUME PolicyAssumption ==
    /\ "policy" \in Docs /\ Default \in Policies /\ Torn \notin Policies
    /\ NoKey \notin Keys
    /\ {MaxAudits, MaxApprovals, MaxPurges, MaxNumbered, MaxTroubles} \subseteq Nat

VARIABLES
    value, file,             \* per document: in memory and on disk
    audits, auditFile,       \* per document: its audit entries
    approvals, approvalFile, \* per approval: the audit it is bound to and its status
    approvalRequired,        \* metrics_rollback_requires_approval, a setting of the process
    due,                     \* the approvals whose expires_at has passed
    purges, purgeFile,       \* the purge log, as the numbers of its entries
    todo, work,              \* the rest of the running handler, and what it works on
    issued,                  \* how many audits, approvals and purges were numbered
    uses, applied, lost,     \* history: see the properties
    cut,                     \* history: documents whose last update was cut short
    policyFaults, policyCrashes

policyVars == <<value, file, audits, auditFile, approvals, approvalFile, approvalRequired,
                due, purges, purgeFile, todo, work, issued, uses, applied, lost, cut,
                policyFaults, policyCrashes>>

None == 0                    \* in place of an audit, an approval or a purge
AuditIds == 1..MaxAudits
ApprovalIds == 1..MaxApprovals
Entry == [id : AuditIds, policy : Policies, from : AuditIds \cup {None},
          key : Keys \cup {NoKey}, approval : ApprovalIds \cup {None}]
ApprovalStatus == {"none", "pending", "approved", "used", "expired"}
Absent == [audit |-> None, status |-> "none"]
NoWork == [nothing |-> TRUE]
NoApprovals == [a \in ApprovalIds |-> Absent]

PolicyInit ==
    /\ value = [d \in Docs |-> Default]
    /\ file = [d \in Docs |-> Default]
    /\ audits = [d \in Docs |-> <<>>]
    /\ auditFile = [d \in Docs |-> <<>>]
    /\ approvals = NoApprovals
    /\ approvalFile = NoApprovals
    /\ approvalRequired \in BOOLEAN
    /\ due = {}
    /\ purges = <<>>
    /\ purgeFile = <<>>
    /\ todo = <<>>
    /\ work = NoWork
    /\ issued = [audits |-> 0, approvals |-> 0, purges |-> 0]
    /\ uses = [a \in ApprovalIds |-> 0]
    /\ applied = [k \in Keys |-> 0]
    /\ lost = [k \in Keys |-> 0]
    /\ cut = {}
    /\ policyFaults = 0
    /\ policyCrashes = 0

history == <<uses, applied, lost, cut>>
documents == <<value, file, audits, auditFile>>
approvalVars == <<approvals, approvalFile, approvalRequired>>
purgeVars == <<purges, purgeFile>>
faults == <<policyFaults, policyCrashes>>

-----------------------------------------------------------------------------
(* Helpers of the handlers. *)

Known(a) == \E i \in DOMAIN audits["policy"] : audits["policy"][i].id = a
AuditOf(a) == CHOOSE e \in Range(audits["policy"]) : e.id = a
Replayed(k) ==
    \E e \in Range(audits["policy"]) :
      e.key = k \/ (e.from # None /\ e.key = NoKey /\ k = NoneKey)

\* refresh_rollback_approval_statuses: what is due and not decided expires.
Expires(a) == approvals[a].status \in {"pending", "approved"} /\ a \in due
Refreshed == [a \in ApprovalIds |->
                IF Expires(a) THEN [approvals[a] EXCEPT !.status = "expired"] ELSE approvals[a]]

PersistApprovals == <<"open approvals", "write approvals">>
PersistIf(changed) == IF changed THEN PersistApprovals ELSE <<>>
RefreshSteps == PersistIf(Refreshed # approvals)
\* Mutant: the file is written before the value is replaced.
DocStepsFileFirst == <<"open doc", "write doc", "set value", "note audit", "append audit">>

DocSteps == <<"set value", "open doc", "write doc", "note audit", "append audit">>
LogPurge == <<"note purge", "append purge">>
\* Mutant: the approval is consumed once the policy has been rolled back.
ApplyThenConsume == DocSteps \o <<"use">> \o PersistApprovals

\* What a rollback does with the approval it names, then with the policy.
ConsumeThenApply == <<"use">> \o PersistApprovals \o DocSteps

NextAudit(doc, policy, from, key, approval) ==
    [doc |-> doc, entry |-> [id |-> issued.audits + 1, policy |-> policy, from |-> from,
                             key |-> key, approval |-> approval]]

\* The bounds.
May(kind, bound) ==
    issued[kind] < bound /\ issued.audits + issued.approvals + issued.purges < MaxNumbered
Troubles == policyFaults + policyCrashes

\* A handler begins: the one before it has returned.
HandlerBegins(steps, item) == todo = <<>> /\ todo' = steps /\ work' = item

-----------------------------------------------------------------------------
(* The handlers, up to their first change of memory or of a file. *)

\* update_policy, update_verify_policy_registry (what normalisation refuses changes nothing).
Update(d, p) ==
    /\ May("audits", MaxAudits)
    /\ HandlerBegins(DocSteps, NextAudit(d, p, None, NoKey, None))
    /\ issued' = [issued EXCEPT !.audits = @ + 1]
    /\ UNCHANGED <<documents, approvalVars, due, purgeVars, history, faults>>

\* rollback_to_audit, where it changes the policy: the target is known, the key is new,
\* the policy differs, it is no dry run, and an approval, when one is named, is usable.
Rollback(a, k, approval) ==
    /\ May("audits", MaxAudits)
    /\ Known(a)
    /\ k # NoKey => ~Replayed(k)
    /\ AuditOf(a).policy # value["policy"]
    /\ IF approval = None
         THEN /\ ~approvalRequired
              /\ HandlerBegins(DocSteps, NextAudit("policy", AuditOf(a).policy, a, k, None))
              /\ UNCHANGED approvals
         ELSE /\ Refreshed[approval] = [audit |-> a, status |-> "approved"]
              /\ HandlerBegins(RefreshSteps \o ConsumeThenApply,
                               NextAudit("policy", AuditOf(a).policy, a, k, approval))
              /\ approvals' = Refreshed
    /\ issued' = [issued EXCEPT !.audits = @ + 1]
    /\ UNCHANGED <<documents, approvalFile, approvalRequired, due, purgeVars, history, faults>>

CreateApproval(a) ==
    /\ May("approvals", MaxApprovals)
    /\ Known(a)
    /\ approvals' = [approvals EXCEPT ![issued.approvals + 1] =
                       [audit |-> a, status |-> "pending"]]
    /\ issued' = [issued EXCEPT !.approvals = @ + 1]
    /\ HandlerBegins(PersistApprovals, NoWork)
    /\ UNCHANGED <<documents, approvalFile, approvalRequired, due, purgeVars, history, faults>>

ApproveRollback(a) ==
    /\ Refreshed[a].status = "pending"
    /\ approvals' = Refreshed
    /\ HandlerBegins(RefreshSteps \o <<"approve">> \o PersistApprovals, [approval |-> a])
    /\ UNCHANGED <<documents, approvalFile, approvalRequired, due, purgeVars, issued, history,
                   faults>>

\* list_rollback_approvals and get_rollback_approval_stats; and approving or consuming
\* an approval that is absent, used, expired or bound elsewhere, which refresh and refuse.
RefreshOnly ==
    /\ Refreshed # approvals
    /\ approvals' = Refreshed
    /\ HandlerBegins(RefreshSteps, NoWork)
    /\ UNCHANGED <<documents, approvalFile, approvalRequired, due, purgeVars, issued, history,
                   faults>>

\* purge_rollback_approvals: old are the entries past the retention (all with none); one
\* that has just expired is old only then.  A dry run refreshes in memory alone.
PurgeApprovals(statuses, old, dry) ==
    LET removed == {a \in old : Refreshed[a].status \in statuses}
        keep == [a \in ApprovalIds |-> IF a \in removed THEN Absent ELSE Refreshed[a]]
    IN  /\ May("purges", MaxPurges)
        /\ old = ApprovalIds \/ \A a \in old : ~Expires(a)
        /\ approvals' = Refreshed
        /\ HandlerBegins(
             IF dry THEN LogPurge
                    ELSE RefreshSteps \o <<"keep">> \o PersistIf(removed # {}) \o LogPurge,
             [keep |-> keep])
        /\ issued' = [issued EXCEPT !.purges = @ + 1]
        /\ UNCHANGED <<documents, approvalFile, approvalRequired, due, purgeVars, history, faults>>

\* purge_rollback_approval_purge_audits: entries are in the order of time, so the old
\* ones are the first ones; the latest ones are protected.  The route refuses a call
\* that names neither an age nor a number to keep.
PurgeLogGC(old, latest, dry) ==
    LET free == IF latest < Len(purges) THEN Len(purges) - latest ELSE 0
        first == Min({old, free})
        rewrite == IF first > 0 THEN <<"open purges", "write purges">> ELSE <<>>
    IN  /\ May("purges", MaxPurges)
        /\ old <= Len(purges)
        /\ purges' = IF dry THEN purges ELSE SubSeq(purges, first + 1, Len(purges))
        /\ HandlerBegins(IF dry THEN LogPurge ELSE rewrite \o LogPurge, NoWork)
        /\ issued' = [issued EXCEPT !.purges = @ + 1]
        /\ UNCHANGED <<documents, approvalVars, due, purgeFile, history, faults>>

-----------------------------------------------------------------------------
(* The steps of the running handler. *)

Does(step) == todo # <<>> /\ Head(todo) = step /\ todo' = Tail(todo)
Count(f, k) == IF k \in DOMAIN f THEN [f EXCEPT ![k] = @ + 1] ELSE f

SetValue ==
    /\ Does("set value")
    /\ value' = [value EXCEPT ![work.doc] = work.entry.policy]
    /\ uses' = Count(uses, work.entry.approval)
    /\ applied' = Count(applied, work.entry.key)
    /\ UNCHANGED <<file, audits, auditFile, approvalVars, due, purgeVars, work, issued, lost,
                   cut, faults>>

WriteDoc ==
    /\ \/ Does("open doc") /\ file' = [file EXCEPT ![work.doc] = Torn]
       \/ Does("write doc") /\ file' = [file EXCEPT ![work.doc] = value[work.doc]]
    /\ UNCHANGED <<value, audits, auditFile, approvalVars, due, purgeVars, work, issued,
                   history, faults>>

NoteAudit ==
    /\ Does("note audit")
    /\ audits' = [audits EXCEPT ![work.doc] = Append(@, work.entry)]
    /\ UNCHANGED <<value, file, auditFile, approvalVars, due, purgeVars, work, issued,
                   history, faults>>

AppendAudit ==
    /\ Does("append audit")
    /\ auditFile' = [auditFile EXCEPT ![work.doc] = Append(@, work.entry)]
    /\ cut' = cut \ {work.doc}
    /\ UNCHANGED <<value, file, audits, approvalVars, due, purgeVars, work, issued, uses,
                   applied, lost, faults>>

MarkApproval ==
    /\ \/ Does("approve") /\ approvals' = [approvals EXCEPT ![work.approval].status = "approved"]
       \/ Does("use") /\ approvals' = [approvals EXCEPT ![work.entry.approval].status = "used"]
       \/ Does("keep") /\ approvals' = work.keep
    /\ UNCHANGED <<documents, approvalFile, approvalRequired, due, purgeVars, work, issued,
                   history, faults>>

WriteApprovals ==
    /\ \/ Does("open approvals") /\ approvalFile' = NoApprovals
       \/ Does("write approvals") /\ approvalFile' = approvals
    /\ UNCHANGED <<documents, approvals, approvalRequired, due, purgeVars, work, issued,
                   history, faults>>

WritePurges ==
    /\ \/ Does("open purges") /\ purgeFile' = <<>> /\ UNCHANGED purges
       \/ Does("write purges") /\ purgeFile' = purges /\ UNCHANGED purges
       \/ Does("note purge") /\ purges' = Append(purges, issued.purges) /\ UNCHANGED purgeFile
       \/ Does("append purge") /\ purgeFile' = Append(purgeFile, issued.purges)
                               /\ UNCHANGED purges
    /\ UNCHANGED <<documents, approvalVars, due, work, issued, history, faults>>

FileSteps == {"open doc", "write doc", "append audit", "open approvals", "write approvals",
              "open purges", "write purges", "append purge"}

\* The rest of the handler is not executed: history notes an update cut in the middle.
CutShort ==
    LET half == "append audit" \in Range(todo) /\ "set value" \notin Range(todo)
    IN  /\ cut' = IF half THEN cut \cup {work.doc} ELSE cut
        /\ lost' = IF half THEN Count(lost, work.entry.key) ELSE lost
        /\ todo' = <<>>
        /\ work' = NoWork

\* A file operation raises.
PolicyFault ==
    /\ Troubles < MaxTroubles
    /\ todo # <<>> /\ Head(todo) \in FileSteps
    /\ CutShort
    /\ policyFaults' = policyFaults + 1
    /\ UNCHANGED <<documents, approvalVars, due, purgeVars, issued, uses, applied, policyCrashes>>

\* The process dies and loads the files again; a document that cannot be parsed is
\* replaced by the default, which is written at once.
PolicyCrash ==
    /\ Troubles < MaxTroubles
    /\ CutShort
    /\ value' = [d \in Docs |-> IF file[d] = Torn THEN Default ELSE file[d]]
    /\ file' = value'
    /\ audits' = auditFile
    /\ approvals' = approvalFile
    /\ purges' = purgeFile
    /\ policyCrashes' = policyCrashes + 1
    /\ UNCHANGED <<auditFile, approvalFile, approvalRequired, due, purgeFile, issued, uses,
                   applied, policyFaults>>

\* Time: expires_at of an approval passes.
Expire(a) ==
    /\ a <= issued.approvals
    /\ due' = due \cup {a}
    /\ UNCHANGED <<documents, approvalVars, purgeVars, todo, work, issued, history, faults>>

PolicyRequest ==
    \/ \E d \in Docs, p \in Policies : Update(d, p)
    \/ \E a \in AuditIds, k \in Keys \cup {NoKey}, approval \in ApprovalIds \cup {None} :
         Rollback(a, k, approval)
    \/ \E a \in AuditIds : CreateApproval(a)
    \/ \E a \in ApprovalIds : ApproveRollback(a)
    \/ RefreshOnly
    \/ \E statuses \in SUBSET {"used", "expired"}, old \in SUBSET ApprovalIds, dry \in BOOLEAN :
         PurgeApprovals(statuses, old, dry)
    \/ \E old, latest \in 0..MaxPurges, dry \in BOOLEAN : PurgeLogGC(old, latest, dry)

HandlerStep ==
    \/ SetValue \/ WriteDoc \/ NoteAudit \/ AppendAudit \/ MarkApproval \/ WriteApprovals
    \/ WritePurges

PolicyNext ==
    \/ PolicyRequest \/ HandlerStep
    \/ PolicyFault \/ PolicyCrash
    \/ \E a \in ApprovalIds : Expire(a)

PolicySpec == PolicyInit /\ [][PolicyNext]_policyVars

-----------------------------------------------------------------------------
Approvals == [ApprovalIds -> [audit : AuditIds \cup {None}, status : ApprovalStatus]]

PolicyTypeOK ==
    /\ value \in [Docs -> Policies]
    /\ file \in [Docs -> Policies \cup {Torn}]
    /\ audits \in [Docs -> Seq(Entry)]
    /\ auditFile \in [Docs -> Seq(Entry)]
    /\ approvals \in Approvals
    /\ approvalFile \in Approvals
    /\ approvalRequired \in BOOLEAN
    /\ due \subseteq ApprovalIds
    /\ purges \in Seq(1..MaxPurges)
    /\ purgeFile \in Seq(1..MaxPurges)
    /\ uses \in [ApprovalIds -> Nat]
    /\ applied \in [Keys -> Nat]
    /\ lost \in [Keys -> Nat]
    /\ cut \subseteq Docs

LastPolicy(entries) == IF entries = <<>> THEN Default ELSE Last(entries).policy

\* Between requests the policy in force is the one on disk and the one the last audit
\* entry records, in memory and on disk, unless the last update of that document was cut
\* short by a failing write or a crash: one whole update repairs what an interrupted one
\* left.  And as long as no write failed, the files of approvals and of purges show what
\* memory shows, but for approvals that a dry run let expire in memory alone.  So a
\* restart at rest changes nothing.
PolicyStoreAtRest ==
    todo = <<>> =>
      /\ \A d \in Docs \ cut :
           \A p \in {file[d], LastPolicy(audits[d]), LastPolicy(auditFile[d])} : p = value[d]
      /\ policyFaults = 0 =>
           /\ purgeFile = purges
           /\ \A a \in ApprovalIds :
                \/ approvalFile[a] = approvals[a]
                \/ approvals[a].status = "expired" /\ a \in due
                   /\ approvalFile[a].status \in {"pending", "approved"}

\* An approval lets the policy be rolled back once, to the audit it was made for, and
\* with required approvals nothing is rolled back without one: also when the process
\* dies between storing that it is used and applying the rollback, in any order of
\* refreshes, purges, failing writes and restarts.  An idempotency key lets a rollback be
\* applied once; a retry applies it again only when the first one was cut short before
\* its audit entry, which carries the key, was on disk: once for every time that happened.
RollbackOnce ==
    /\ \A k \in Keys : applied[k] <= 1 + lost[k]
    /\ \A a \in ApprovalIds : uses[a] <= 1
    /\ \A i \in DOMAIN auditFile["policy"] :
         LET e == auditFile["policy"][i]
         IN  /\ approvalRequired /\ e.from # None => e.approval # None
             /\ e.approval # None => uses[e.approval] = 1
             /\ e.approval # None /\ approvals[e.approval] # Absent =>
                  approvals[e.approval].audit = e.from
=============================================================================
